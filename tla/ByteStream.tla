----------------------------- MODULE ByteStream -----------------------------
(***************************************************************************)
(* What a pipe promises: a bounded queue of bytes with two ends.  Bytes    *)
(* leave in the order they came, each once; no byte comes after the write  *)
(* end or the read end is closed; a reader is told that the stream has     *)
(* ended only when it has.                                                 *)
(***************************************************************************)
EXTENDS Naturals, Sequences

CONSTANTS
  Byte,       \* the bytes
  Capacity,   \* how many the stream holds
  NoByte      \* no byte was taken yet

VARIABLES
  queue,      \* the bytes in the stream
  taken,      \* the byte taken last
  ends,       \* the open ends
  ended       \* a reader was told that the stream has ended

vars == <<queue, taken, ends, ended>>

Init == queue = <<>> /\ taken = NoByte /\ ends = {"r", "w"} /\ ended = FALSE

Put ==
  /\ ends = {"r", "w"} /\ Len(queue) < Capacity
  /\ \E b \in Byte : queue' = Append(queue, b)
  /\ UNCHANGED <<taken, ends, ended>>

Get ==
  /\ "r" \in ends /\ queue # <<>>
  /\ taken' = Head(queue)
  /\ queue' = Tail(queue)
  /\ UNCHANGED <<ends, ended>>

Close(e) ==
  /\ e \in ends
  /\ ends' = ends \ {e}
  /\ UNCHANGED <<queue, taken, ended>>

End ==
  /\ queue = <<>> /\ "w" \notin ends
  /\ ended' = TRUE
  /\ UNCHANGED <<queue, taken, ends>>

Next == Put \/ Get \/ End \/ \E e \in {"r", "w"} : Close(e)

Spec == Init /\ [][Next]_vars
=============================================================================
