----------------------------- MODULE DiskProofs -----------------------------
(***************************************************************************)
(* Proofs about VirtioDisk and Bcache, for any number of processes,        *)
(* descriptors, buffers and blocks: descriptors are neither lost nor       *)
(* shared, nobody waits for descriptors that are free, a block is in one   *)
(* buffer, and whoever holds a buffer sees what was stored in it last.     *)
(***************************************************************************)
EXTENDS Bcache, FiniteSetTheorems, SequenceTheorems, TLAPS

-----------------------------------------------------------------------------
(* Least and greatest elements.                                            *)

LEMMA NatWellFounded == IsWellFoundedOn({x \in Nat \X Nat : x[1] < x[2]}, Nat)
BY NatLessThanWellFounded, Zenon DEF OpToRel

LEMMA MinExists ==
  ASSUME NEW S, S \subseteq Nat, S # {}
  PROVE  \E x \in S : \A y \in S : x <= y
<1> DEFINE R == {x \in Nat \X Nat : x[1] < x[2]}
<1>1. \E x \in S : \A y \in S : ~ (<<y, x>> \in R)
  <2> HIDE DEF R
  <2>1. IsWellFoundedOn(R, Nat)
      BY NatWellFounded DEF R
  <2> QED
      BY <2>1, WFMin
<1>2. PICK x \in S : \A y \in S : <<y, x>> \notin R
    BY <1>1
<1>3. \A y \in S : ~ (y < x)
    BY <1>2
<1> QED
    BY <1>3

LEMMA MinIn == ASSUME NEW S, S \subseteq Nat, S # {} PROVE Min(S) \in S
<1>1. \E x \in S : \A y \in S : x =< y
    BY MinExists
<1> QED
    BY <1>1 DEF Min

LEMMA MaxIn ==
  ASSUME NEW n \in Nat, NEW S, S \subseteq 1 .. n, S # {}
  PROVE  Max(S) \in S
<1> DEFINE T == {m \in Nat : n - m \in S}
<1>1. T # {}
  <2>1. PICK x \in S : TRUE
      OBVIOUS
  <2>2. n - x \in Nat /\ n - (n - x) = x
      BY <2>1
  <2> QED
      BY <2>1, <2>2
<1>2. PICK m \in T : \A y \in T : m <= y
    BY <1>1, MinExists
<1>3. \A y \in S : n - m >= y
  <2> SUFFICES ASSUME NEW y \in S PROVE n - m >= y
      OBVIOUS
  <2>1. n - y \in Nat /\ n - (n - y) = y /\ y \in Nat
      OBVIOUS
  <2>2. n - y \in T
      BY <2>1
  <2>3. m <= n - y
      BY <1>2, <2>2
  <2> QED
      BY <1>2, <2>1, <2>3
<1>4. \E x \in S : \A y \in S : x >= y
    BY <1>2, <1>3
<1> QED
    BY <1>4 DEF Max

-----------------------------------------------------------------------------
(* The descriptors and the queues of the driver.                           *)

\* The second and third descriptor of a call's request, and all three.
Second(p) == next[head[p]]
Third(p) == next[next[head[p]]]
Members(p) == {head[p], Second(p), Third(p)}

QueueType ==
  /\ free \in SUBSET Desc
  /\ next \in [Desc -> Desc \cup {NoDesc}]
  /\ addr \in [Desc -> Proc \cup {NoProc}]
  /\ info \in [Desc -> Proc \cup {NoProc}]
  /\ status \in [Desc -> BOOLEAN]
  /\ avail \in Seq(Desc) /\ used \in Seq(Desc)
  /\ fetched \in SUBSET Desc
  /\ irq \in BOOLEAN /\ inIntr \in BOOLEAN
  /\ busy \in [Proc -> BOOLEAN]
  /\ head \in [Proc -> Desc \cup {NoDesc}]
  /\ pc \in [Proc -> {"idle", "alloc", "nodesc", "asleep", "awake"}]

\* A request is a chain of three descriptors that are not free.
ChainsValid ==
  \A p \in InFlight :
    /\ head[p] \in Desc /\ Second(p) \in Desc /\ Third(p) \in Desc
    /\ head[p] # Second(p) /\ head[p] # Third(p) /\ Second(p) # Third(p)
    /\ head[p] \notin free /\ Second(p) \notin free /\ Third(p) \notin free
    /\ info[head[p]] = p /\ addr[Second(p)] = p

ChainsDisjoint == \A p, q \in InFlight : p # q => Members(p) \cap Members(q) = {}

\* No descriptor is lost.
AllCounted ==
  /\ IsFiniteSet(InFlight)
  /\ Cardinality(free) + 3 * Cardinality(InFlight) = NUM

\* i is the first descriptor of a request that has not finished.
Requested(i) == \E p \in InFlight : head[p] = i /\ busy[p]

\* What is in the queues is a request that has not finished, in one place.
QueuesValid ==
  /\ \A n \in 1 .. Len(avail) : Requested(avail[n]) /\ avail[n] \notin fetched
  /\ \A n \in 1 .. Len(used) : Requested(used[n]) /\ used[n] \notin fetched /\ status[used[n]]
  /\ \A i \in fetched : Requested(i)
  /\ \A m \in 1 .. Len(avail), n \in 1 .. Len(used) : avail[m] # used[n]
  /\ \A m, n \in 1 .. Len(avail) : avail[m] = avail[n] => m = n
  /\ \A m, n \in 1 .. Len(used) : used[m] = used[n] => m = n

\* A request that has finished was carried out.
FinishedDone == \A p \in InFlight : ~busy[p] => status[head[p]]

DriverInv ==
  /\ QueueType /\ ChainsValid /\ ChainsDisjoint /\ AllCounted /\ QueuesValid /\ FinishedDone
  /\ NobodyWaitsInVain

LEMMA DriverInit == Init => DriverInv
<1> SUFFICES ASSUME Init PROVE DriverInv
    OBVIOUS
<1>1. QueueType
  <2>1. <<>> \in Seq(Desc) /\ {} \in SUBSET Desc /\ Desc \in SUBSET Desc
      OBVIOUS
  <2>2. free \in SUBSET Desc /\ avail \in Seq(Desc) /\ used \in Seq(Desc) /\ fetched \in SUBSET Desc
      BY <2>1 DEF Init
  <2>3. next \in [Desc -> Desc \cup {NoDesc}] /\ addr \in [Desc -> Proc \cup {NoProc}]
      BY DEF Init
  <2>4. info \in [Desc -> Proc \cup {NoProc}] /\ status \in [Desc -> BOOLEAN]
      BY DEF Init
  <2>5. /\ irq \in BOOLEAN /\ inIntr \in BOOLEAN
        /\ busy \in [Proc -> BOOLEAN]
        /\ head \in [Proc -> Desc \cup {NoDesc}]
      BY DEF Init
  <2>6. pc \in [Proc -> {"idle", "alloc", "nodesc", "asleep", "awake"}]
      BY DEF Init
  <2> QED
      BY <2>2, <2>3, <2>4, <2>5, <2>6 DEF QueueType
<1>2. InFlight = {}
    BY DEF Init, InFlight
<1>3. Cardinality(free) = NUM
  <2>1. Cardinality(0 .. NUM - 1) = NUM
      BY VirtioAssumption, FS_Interval
  <2> QED
      BY <2>1 DEF Init, Desc
<1>4. AllCounted
    BY <1>2, <1>3, FS_EmptySet, VirtioAssumption DEF AllCounted
<1> QED
    BY <1>1, <1>2, <1>4
    DEF Init, DriverInv, ChainsValid, ChainsDisjoint, QueuesValid, FinishedDone, NobodyWaitsInVain

\* Steps that move no descriptor and no request.
LEMMA DriverQuiet ==
  ASSUME DriverInv, InFlight' = InFlight,
         UNCHANGED <<free, next, addr, info, status, avail, used, fetched, busy, head>>,
         irq' \in BOOLEAN, inIntr' \in BOOLEAN,
         pc' \in [Proc -> {"idle", "alloc", "nodesc", "asleep", "awake"}],
         \A p \in Proc : pc'[p] = "nodesc" => Cardinality(free) < 3
  PROVE  DriverInv'
<1>1. QueueType' /\ NobodyWaitsInVain'
    BY DEF DriverInv, QueueType, NobodyWaitsInVain
<1>2. ChainsValid' /\ ChainsDisjoint' /\ AllCounted'
    BY DEF DriverInv, ChainsValid, ChainsDisjoint, Members, Second, Third, AllCounted
<1>3. QueuesValid' /\ FinishedDone'
    BY DEF DriverInv, QueuesValid, Requested, FinishedDone
<1> QED
    BY <1>1, <1>2, <1>3 DEF DriverInv

LEMMA DriverQuietStep ==
  ASSUME DriverInv,
         \/ IntrStart \/ IntrEnd
         \/ \E p \in Proc : virtio_disk_rw(p) \/ AllocFail(p) \/ SleepAgain(p) \/ Kill(p)
  PROVE  DriverInv'
<1> USE DEF queueVars, deviceVars
<1>1. CASE IntrStart \/ IntrEnd
  <2>1. /\ UNCHANGED <<free, next, addr, info, status, avail, used, fetched, busy, head, pc>>
        /\ irq' \in BOOLEAN /\ inIntr' \in BOOLEAN
      BY <1>1 DEF IntrStart, IntrEnd, DriverInv, QueueType
  <2> QED
      BY <2>1, DriverQuiet DEF DriverInv, QueueType, NobodyWaitsInVain, InFlight
<1>2. ASSUME NEW p \in Proc, virtio_disk_rw(p) \/ AllocFail(p) \/ SleepAgain(p) \/ Kill(p)
      PROVE  DriverInv'
  <2>1. UNCHANGED <<free, next, addr, info, status, avail, used, fetched, busy, head, irq, inIntr>>
      BY <1>2 DEF virtio_disk_rw, AllocFail, SleepAgain, Kill
  <2>2. pc' \in [Proc -> {"idle", "alloc", "nodesc", "asleep", "awake"}]
      BY <1>2 DEF virtio_disk_rw, AllocFail, SleepAgain, Kill, WakeFree, DriverInv, QueueType
  <2>3. \A q \in Proc : /\ pc'[q] \in {"asleep", "awake"} <=> pc[q] \in {"asleep", "awake"}
                        /\ pc'[q] = "nodesc" => pc[q] = "nodesc" \/ Cardinality(free) < 3
      BY <1>2 DEF virtio_disk_rw, AllocFail, SleepAgain, Kill, WakeFree, DriverInv, QueueType
  <2>4. InFlight' = InFlight
      BY <2>3 DEF InFlight
  <2> QED
      BY <2>1, <2>2, <2>3, <2>4, DriverQuiet DEF DriverInv, QueueType, NobodyWaitsInVain
<1> QED
    BY <1>1, <1>2

\* alloc3_desc() finds three different free descriptors when there are three.
LEMMA AllocFinds ==
  ASSUME free \subseteq Desc, Cardinality(free) >= 3
  PROVE  \E i, j, k \in free :
           /\ alloc3_desc = <<i, j, k>>
           /\ i # j /\ i # k /\ j # k
           /\ Cardinality(free \ {i, j, k}) = Cardinality(free) - 3
<1>1. IsFiniteSet(free) /\ free \subseteq Nat
  <2>1. IsFiniteSet(Desc) /\ Desc \subseteq Nat
      BY FS_Interval, VirtioAssumption DEF Desc
  <2> QED
      BY <2>1, FS_Subset
<1>2. Cardinality(free) \in Nat /\ free # {}
    BY <1>1, FS_CardinalityType, FS_EmptySet
<1>3. PICK i \in free : i = Min(free)
    BY <1>1, <1>2, MinIn
<1>4. IsFiniteSet(free \ {i}) /\ Cardinality(free \ {i}) = Cardinality(free) - 1
    BY <1>1, FS_RemoveElement
<1>5. free \ {i} # {} /\ free \ {i} \subseteq Nat
    BY <1>1, <1>2, <1>4, FS_EmptySet
<1>6. PICK j \in free \ {i} : j = Min(free \ {i})
    BY <1>5, MinIn
<1>7. free \ {i, j} = (free \ {i}) \ {j}
    OBVIOUS
<1>8. IsFiniteSet(free \ {i, j}) /\ Cardinality(free \ {i, j}) = Cardinality(free) - 2
    BY <1>2, <1>4, <1>7, FS_RemoveElement
<1>9. free \ {i, j} # {} /\ free \ {i, j} \subseteq Nat
    BY <1>1, <1>2, <1>8, FS_EmptySet
<1>10. PICK k \in free \ {i, j} : k = Min(free \ {i, j})
    BY <1>9, MinIn
<1>11. free \ {i, j, k} = (free \ {i, j}) \ {k}
    OBVIOUS
<1>12. Cardinality(free \ {i, j, k}) = Cardinality(free) - 3
  <2>0. k \in free \ {i, j}
      BY <1>10
  <2>1. Cardinality((free \ {i, j}) \ {k}) = Cardinality(free \ {i, j}) - 1
      BY <1>8, <2>0, FS_RemoveElement
  <2>2. Cardinality(free \ {i, j, k}) = Cardinality((free \ {i, j}) \ {k})
      BY <1>11, Zenon
  <2>3. Cardinality(free \ {i, j, k}) = Cardinality(free \ {i, j}) - 1
      BY <2>1, <2>2, Zenon
  <2> HIDE <1>11
  <2>4. ASSUME NEW x, NEW y, NEW z \in Nat, x = y - 1, y = z - 2 PROVE x = z - 3
      BY <2>4
  <2> QED
      BY <1>2, <1>8, <2>3, <2>4, Zenon
<1>13. alloc3_desc = <<i, j, k>>
    BY <1>3, <1>6, <1>10 DEF alloc3_desc
<1>14. j \in free /\ k \in free /\ i # j /\ i # k /\ j # k
    BY <1>6, <1>10
<1> QED
    BY <1>12, <1>13, <1>14

LEMMA FreeFinite == ASSUME QueueType PROVE IsFiniteSet(free) /\ Cardinality(free) \in Nat
<1>1. IsFiniteSet(Desc)
    BY FS_Interval, VirtioAssumption DEF Desc
<1>2. IsFiniteSet(free)
    BY <1>1, FS_Subset DEF QueueType
<1> QED
    BY <1>2, FS_CardinalityType

LEMMA DriverSubmit ==
  ASSUME DriverInv, NEW p \in Proc, Submit(p)
  PROVE  DriverInv'
<1> DEFINE StillRequested(c) == \E q \in InFlight' : head'[q] = c /\ busy'[q]
<1>1. PICK i, j, k \in free :
        /\ alloc3_desc = <<i, j, k>>
        /\ i # j /\ i # k /\ j # k
        /\ Cardinality(free \ {i, j, k}) = Cardinality(free) - 3
    BY AllocFinds DEF Submit, DriverInv, QueueType
<1>2. /\ free' = free \ {i, j, k}
      /\ next' = [next EXCEPT ![i] = j, ![j] = k, ![k] = NoDesc]
      /\ addr' = [addr EXCEPT ![j] = p]
      /\ status' = [status EXCEPT ![i] = FALSE]
      /\ info' = [info EXCEPT ![i] = p]
      /\ busy' = [busy EXCEPT ![p] = TRUE]
      /\ head' = [head EXCEPT ![p] = i]
      /\ avail' = Append(avail, i)
      /\ pc' = [pc EXCEPT ![p] = "asleep"]
      /\ UNCHANGED <<used, fetched, irq, inIntr>> /\ pc[p] = "alloc"
    BY <1>1 DEF Submit, deviceVars
<1>3. QueueType
    BY DEF DriverInv
<1>4. i \in Desc /\ j \in Desc /\ k \in Desc
    BY <1>3 DEF QueueType
<1>5. QueueType'
    BY <1>2, <1>3, <1>4 DEF QueueType
<1>6. InFlight' = InFlight \cup {p} /\ p \notin InFlight
    BY <1>2, <1>3 DEF InFlight, QueueType
<1>7. /\ \A q \in InFlight :
           /\ q # p /\ Members(q)' = Members(q) /\ head'[q] = head[q]
           /\ Second(q)' = Second(q) /\ Third(q)' = Third(q)
           /\ info'[head[q]] = info[head[q]] /\ addr'[Second(q)] = addr[Second(q)]
           /\ status'[head[q]] = status[head[q]] /\ busy'[q] = busy[q]
      /\ head'[p] = i /\ Second(p)' = j /\ Third(p)' = k /\ info'[i] = p /\ addr'[j] = p
      /\ busy'[p] /\ Members(p)' = {i, j, k}
  <2>1. ASSUME NEW q \in InFlight
        PROVE  /\ q \in Proc /\ q # p /\ head[q] \in Desc \ {i, j, k} /\ Second(q) \in Desc \ {i, j, k}
               /\ Third(q) \in Desc \ {i, j, k}
      BY <1>6 DEF DriverInv, ChainsValid, InFlight
  <2>2. ASSUME NEW q \in InFlight
        PROVE  head'[q] = head[q] /\ Second(q)' = Second(q) /\ Third(q)' = Third(q)
      BY <1>2, <1>3, <2>1 DEF Second, Third, QueueType
  <2>3. ASSUME NEW q \in InFlight
        PROVE  /\ info'[head[q]] = info[head[q]] /\ addr'[Second(q)] = addr[Second(q)]
               /\ status'[head[q]] = status[head[q]] /\ busy'[q] = busy[q]
      BY <1>2, <1>3, <2>1 DEF QueueType
  <2>4. head'[p] = i /\ next'[i] = j /\ next'[j] = k /\ info'[i] = p /\ addr'[j] = p /\ busy'[p]
      BY <1>1, <1>2, <1>3, <1>4 DEF QueueType
  <2> QED
      BY <2>1, <2>2, <2>3, <2>4 DEF Members, Second, Third
<1>8. ChainsValid'
  <2>1. ASSUME NEW q \in InFlight
        PROVE  /\ head[q] \in Desc /\ Second(q) \in Desc /\ Third(q) \in Desc
               /\ head[q] # Second(q) /\ head[q] # Third(q) /\ Second(q) # Third(q)
               /\ head[q] \notin free' /\ Second(q) \notin free' /\ Third(q) \notin free'
               /\ info[head[q]] = q /\ addr[Second(q)] = q
      BY <1>2 DEF DriverInv, ChainsValid
  <2>2. /\ i \notin free' /\ j \notin free' /\ k \notin free'
      BY <1>2
  <2> SUFFICES ASSUME NEW q \in InFlight'
               PROVE  /\ head'[q] \in Desc /\ Second(q)' \in Desc /\ Third(q)' \in Desc
                      /\ head'[q] # Second(q)' /\ head'[q] # Third(q)' /\ Second(q)' # Third(q)'
                      /\ head'[q] \notin free' /\ Second(q)' \notin free' /\ Third(q)' \notin free'
                      /\ info'[head'[q]] = q /\ addr'[Second(q)'] = q
      BY DEF ChainsValid
  <2>3. CASE q = p
      BY <1>1, <1>4, <1>7, <2>2, <2>3
  <2>4. CASE q \in InFlight
      BY <1>7, <2>1, <2>4
  <2> QED
      BY <1>6, <2>3, <2>4
<1>9. ChainsDisjoint'
  <2>1. \A q \in InFlight : Members(q) \cap {i, j, k} = {}
      BY DEF DriverInv, ChainsValid, Members
  <2> QED
      BY <1>6, <1>7, <2>1 DEF DriverInv, ChainsDisjoint
<1>10. AllCounted'
  <2>1. IsFiniteSet(InFlight) /\ Cardinality(InFlight) \in Nat
      BY FS_CardinalityType DEF DriverInv, AllCounted
  <2>2. IsFiniteSet(InFlight \cup {p}) /\ Cardinality(InFlight \cup {p}) = Cardinality(InFlight) + 1
      BY <1>6, <2>1, FS_AddElement
  <2>3. Cardinality(free) \in Nat
      BY <1>3, FreeFinite
  <2> QED
      BY <1>1, <1>2, <1>6, <2>1, <2>2, <2>3 DEF DriverInv, AllCounted
<1>11. \A c \in Desc : Requested(c) => StillRequested(c) /\ c # i /\ status'[c] = status[c]
  <2> SUFFICES ASSUME NEW c \in Desc, Requested(c)
               PROVE  StillRequested(c) /\ c # i /\ status'[c] = status[c]
      OBVIOUS
  <2>1. PICK q \in InFlight : head[q] = c /\ busy[q]
      BY DEF Requested
  <2>2. c \notin free
      BY <2>1 DEF DriverInv, ChainsValid
  <2>3. status'[c] = status[c]
      BY <1>7, <2>1
  <2>4. head'[q] = c /\ busy'[q] /\ q \in InFlight'
      BY <1>6, <1>7, <2>1
  <2> QED
      BY <2>2, <2>3, <2>4
<1>12. StillRequested(i)
    BY <1>6, <1>7
<1> HIDE DEF StillRequested
<1>13. QueuesValid'
  <2>1. /\ Len(avail') = Len(avail) + 1 /\ avail'[Len(avail) + 1] = i
        /\ \A n \in 1 .. Len(avail) : avail'[n] = avail[n] /\ avail[n] \in Desc
        /\ Len(avail) \in Nat
      BY <1>2, <1>3, <1>4 DEF QueueType
  <2>0. QueuesValid
      BY DEF DriverInv
  <2>2. i \notin fetched /\ \A n \in 1 .. Len(used) : used[n] # i /\ used[n] \in Desc
    <3>1. i \notin fetched
        BY <1>4, <1>11, <2>0 DEF QueuesValid
    <3>2. \A n \in 1 .. Len(used) : used[n] \in Desc
        BY <1>3 DEF QueueType
    <3> QED
        BY <1>11, <2>0, <3>1, <3>2 DEF QueuesValid
  <2>8. \A n \in 1 .. Len(avail') : n \in 1 .. Len(avail) \/ n = Len(avail) + 1
      BY <2>1
  <2>9. \A n \in 1 .. Len(avail) : StillRequested(avail[n]) /\ avail[n] \notin fetched /\ avail[n] # i
      BY <1>11, <2>0, <2>1 DEF QueuesValid
  <2>3. \A n \in 1 .. Len(avail') : StillRequested(avail'[n]) /\ avail'[n] \notin fetched
    <3> SUFFICES ASSUME NEW n \in 1 .. Len(avail')
                 PROVE  StillRequested(avail'[n]) /\ avail'[n] \notin fetched
        OBVIOUS
    <3>1. CASE n = Len(avail) + 1
        BY <1>12, <2>1, <2>2, <3>1
    <3>2. CASE n \in 1 .. Len(avail)
        BY <2>1, <2>9, <3>2
    <3> QED
        BY <2>8, <3>1, <3>2
  <2>4. \A n \in 1 .. Len(used) : StillRequested(used[n]) /\ status'[used[n]]
      BY <1>11, <2>0, <2>2 DEF QueuesValid
  <2>5. \A c \in fetched : StillRequested(c)
      BY <1>3, <1>11, <2>0 DEF QueuesValid, QueueType
  <2>6. \A m \in 1 .. Len(avail'), n \in 1 .. Len(used) : avail'[m] # used[n]
      BY <2>0, <2>1, <2>2, <2>8 DEF QueuesValid
  <2>7. \A m, n \in 1 .. Len(avail') : avail'[m] = avail'[n] => m = n
      BY <2>0, <2>1, <2>8, <2>9 DEF QueuesValid
  <2>10. \A m, n \in 1 .. Len(used) : used[m] = used[n] => m = n
      BY <2>0 DEF QueuesValid
  <2>11. \A n \in 1 .. Len(used) : used[n] \notin fetched
      BY <2>0 DEF QueuesValid
  <2> QED
      BY <1>2, <2>3, <2>4, <2>5, <2>6, <2>7, <2>10, <2>11 DEF QueuesValid, Requested, StillRequested
<1>14. FinishedDone'
    BY <1>6, <1>7 DEF DriverInv, FinishedDone
<1>15. NobodyWaitsInVain'
  <2>1. Cardinality(free') < Cardinality(free) /\ Cardinality(free') \in Int
      BY <1>1, <1>2, <1>3, FreeFinite
  <2>2. \A q \in Proc : pc'[q] = "nodesc" => pc[q] = "nodesc"
      BY <1>2, <1>3 DEF QueueType
  <2> QED
      BY <1>3, <2>1, <2>2, FreeFinite DEF DriverInv, NobodyWaitsInVain
<1> QED
    BY <1>5, <1>8, <1>9, <1>10, <1>13, <1>14, <1>15 DEF DriverInv

\* Steps of the device leave the descriptors and the calls alone.
LEMMA DriverDevice ==
  ASSUME DriverInv, UNCHANGED <<free, next, addr, info, busy, head, pc, inIntr>>,
         avail' \in Seq(Desc), used' \in Seq(Desc), fetched' \in SUBSET Desc,
         status' \in [Desc -> BOOLEAN], irq' \in BOOLEAN,
         \A i \in Desc : status[i] => status'[i],
         QueuesValid'
  PROVE  DriverInv'
<1>1. QueueType' /\ NobodyWaitsInVain'
    BY DEF DriverInv, QueueType, NobodyWaitsInVain
<1>2. ChainsValid' /\ ChainsDisjoint' /\ AllCounted'
    BY DEF DriverInv, ChainsValid, ChainsDisjoint, Members, Second, Third, AllCounted, InFlight
<1>3. FinishedDone'
    BY DEF DriverInv, FinishedDone, ChainsValid, InFlight
<1> QED
    BY <1>1, <1>2, <1>3 DEF DriverInv

LEMMA DriverFetch == ASSUME DriverInv, DeviceFetch PROVE DriverInv'
<1>1. QueueType /\ QueuesValid
    BY DEF DriverInv
<1>2. /\ avail # <<>> /\ avail' = Tail(avail) /\ fetched' = fetched \cup {Head(avail)}
      /\ UNCHANGED <<free, next, addr, info, status, used, irq, inIntr, busy, head, pc>>
    BY DEF DeviceFetch
<1>3. /\ Len(avail) \in Nat /\ Len(avail) > 0 /\ Head(avail) = avail[1] /\ avail[1] \in Desc
      /\ avail' \in Seq(Desc) /\ Len(avail') = Len(avail) - 1
      /\ \A n \in 1 .. Len(avail') : avail'[n] = avail[n + 1]
    BY <1>1, <1>2 DEF QueueType
<1>4. \A n \in 1 .. Len(avail') : n + 1 \in 1 .. Len(avail) /\ n + 1 # 1
    BY <1>3
<1>5. 1 \in 1 .. Len(avail)
    BY <1>3
<1> DEFINE StillRequested(c) == \E q \in InFlight' : head'[q] = c /\ busy'[q]
<1>7. \A i : Requested(i) <=> StillRequested(i)
    BY <1>2 DEF Requested, InFlight
<1>8. QueuesValid'
  <2> HIDE DEF StillRequested
  <2>1. \A n \in 1 .. Len(avail') : StillRequested(avail'[n]) /\ avail'[n] \notin fetched'
      BY <1>1, <1>2, <1>3, <1>4, <1>5, <1>7 DEF QueuesValid
  <2>2. \A n \in 1 .. Len(used) : StillRequested(used[n]) /\ used[n] \notin fetched' /\ status[used[n]]
      BY <1>1, <1>2, <1>3, <1>5, <1>7 DEF QueuesValid
  <2>3. \A i \in fetched' : StillRequested(i)
      BY <1>1, <1>2, <1>3, <1>5, <1>7 DEF QueuesValid
  <2>4. \A m \in 1 .. Len(avail'), n \in 1 .. Len(used) : avail'[m] # used[n]
      BY <1>1, <1>3, <1>4 DEF QueuesValid
  <2>5. \A m, n \in 1 .. Len(avail') : avail'[m] = avail'[n] => m = n
      BY <1>1, <1>3, <1>4 DEF QueuesValid
  <2> QED
      BY <1>1, <1>2, <2>1, <2>2, <2>3, <2>4, <2>5 DEF QueuesValid, Requested, StillRequested
<1>9. fetched' \in SUBSET Desc /\ irq' \in BOOLEAN /\ status' \in [Desc -> BOOLEAN] /\ used' \in Seq(Desc)
    BY <1>1, <1>2, <1>3 DEF QueueType
<1> QED
    BY <1>2, <1>3, <1>8, <1>9, DriverDevice

LEMMA DriverTransfer ==
  ASSUME DriverInv, NEW i \in Desc, DeviceTransfer(i)
  PROVE  DriverInv'
<1>1. QueueType /\ QueuesValid
    BY DEF DriverInv
<1>2. /\ status' = [status EXCEPT ![i] = TRUE]
      /\ UNCHANGED <<free, next, addr, info, avail, used, fetched, irq, inIntr, busy, head, pc>>
    BY DEF DeviceTransfer, deviceVars
<1>3. status' \in [Desc -> BOOLEAN] /\ \A c \in Desc : status[c] => status'[c]
    BY <1>1, <1>2 DEF QueueType
<1>4. \A n \in 1 .. Len(used) : used[n] \in Desc
    BY <1>1 DEF QueueType
<1>5. QueuesValid'
    BY <1>1, <1>2, <1>3, <1>4 DEF QueuesValid, Requested, InFlight
<1> QED
    BY <1>1, <1>2, <1>3, <1>5, DriverDevice DEF QueueType

LEMMA DriverUsed ==
  ASSUME DriverInv, NEW i \in Desc, DeviceUsed(i)
  PROVE  DriverInv'
<1>1. QueueType /\ QueuesValid
    BY DEF DriverInv
<1>2. /\ i \in fetched /\ status[i] /\ fetched' = fetched \ {i} /\ used' = Append(used, i) /\ irq' = TRUE
      /\ UNCHANGED <<free, next, addr, info, status, avail, inIntr, busy, head, pc>>
    BY DEF DeviceUsed, queueVars
<1>3. /\ Len(used) \in Nat /\ Len(used') = Len(used) + 1 /\ used'[Len(used) + 1] = i
      /\ used' \in Seq(Desc)
      /\ \A n \in 1 .. Len(used) : used'[n] = used[n]
    BY <1>1, <1>2 DEF QueueType
<1>4. \A n \in 1 .. Len(used') : n \in 1 .. Len(used) \/ n = Len(used) + 1
    BY <1>3
<1> DEFINE StillRequested(c) == \E q \in InFlight' : head'[q] = c /\ busy'[q]
<1>5. \A c : Requested(c) <=> StillRequested(c)
    BY <1>2 DEF Requested, InFlight
<1>6. \A n \in 1 .. Len(avail) : avail[n] # i
    BY <1>1, <1>2 DEF QueuesValid
<1>7. \A n \in 1 .. Len(used) : used[n] # i
    BY <1>1, <1>2 DEF QueuesValid
<1>8. QueuesValid'
  <2> HIDE DEF StillRequested
  <2>1. \A n \in 1 .. Len(avail) : StillRequested(avail[n]) /\ avail[n] \notin fetched'
      BY <1>1, <1>2, <1>5 DEF QueuesValid
  <2>2. \A n \in 1 .. Len(used') : StillRequested(used'[n]) /\ used'[n] \notin fetched' /\ status[used'[n]]
      BY <1>1, <1>2, <1>3, <1>4, <1>5 DEF QueuesValid
  <2>3. \A c \in fetched' : StillRequested(c)
      BY <1>1, <1>2, <1>5 DEF QueuesValid
  <2>4. \A m \in 1 .. Len(avail), n \in 1 .. Len(used') : avail[m] # used'[n]
      BY <1>1, <1>3, <1>4, <1>6 DEF QueuesValid
  <2>5. \A m, n \in 1 .. Len(used') : used'[m] = used'[n] => m = n
      BY <1>1, <1>3, <1>4, <1>7 DEF QueuesValid
  <2> QED
      BY <1>1, <1>2, <2>1, <2>2, <2>3, <2>4, <2>5 DEF QueuesValid, Requested, StillRequested
<1> QED
    BY <1>1, <1>2, <1>3, <1>8, DriverDevice DEF QueueType

LEMMA DriverIntrOne == ASSUME DriverInv, IntrOne PROVE DriverInv'
<1>1. QueueType /\ QueuesValid /\ ChainsValid
    BY DEF DriverInv
<1>2. /\ used # <<>> /\ used' = Tail(used) /\ status[Head(used)]
      /\ busy' = [busy EXCEPT ![info[Head(used)]] = FALSE]
      /\ pc' = [pc EXCEPT ![info[Head(used)]] = IF @ = "asleep" THEN "awake" ELSE @]
      /\ UNCHANGED <<free, next, addr, info, status, avail, fetched, irq, inIntr, head>>
    BY DEF IntrOne, queueVars
<1>3. /\ Len(used) \in Nat /\ Len(used) > 0 /\ Head(used) = used[1] /\ used[1] \in Desc
      /\ used' \in Seq(Desc) /\ Len(used') = Len(used) - 1
      /\ \A n \in 1 .. Len(used') : used'[n] = used[n + 1]
    BY <1>1, <1>2 DEF QueueType
<1>4. 1 \in 1 .. Len(used) /\ \A n \in 1 .. Len(used') : n + 1 \in 1 .. Len(used) /\ n + 1 # 1
    BY <1>3
<1>5. PICK p \in InFlight : head[p] = used[1] /\ busy[p]
    BY <1>1, <1>4 DEF QueuesValid, Requested
<1>6. info[Head(used)] = p /\ p \in Proc
    BY <1>1, <1>3, <1>5 DEF ChainsValid, InFlight
<1>7. /\ pc' \in [Proc -> {"idle", "alloc", "nodesc", "asleep", "awake"}]
      /\ \A q \in Proc : /\ pc'[q] \in {"asleep", "awake"} <=> pc[q] \in {"asleep", "awake"}
                         /\ pc'[q] = "nodesc" => pc[q] = "nodesc"
    BY <1>1, <1>2, <1>6 DEF QueueType
<1>8. InFlight' = InFlight
    BY <1>7 DEF InFlight
<1>9. busy' \in [Proc -> BOOLEAN] /\ ~busy'[p] /\ \A q \in Proc \ {p} : busy'[q] = busy[q]
    BY <1>1, <1>2, <1>6 DEF QueueType
<1>10. QueueType' /\ NobodyWaitsInVain'
    BY <1>1, <1>2, <1>3, <1>7, <1>9 DEF QueueType, DriverInv, NobodyWaitsInVain
<1>11. ChainsValid' /\ ChainsDisjoint' /\ AllCounted'
    BY <1>2, <1>8 DEF DriverInv, ChainsValid, ChainsDisjoint, Members, Second, Third, AllCounted
<1>12. FinishedDone'
    BY <1>2, <1>3, <1>5, <1>8, <1>9 DEF DriverInv, FinishedDone, InFlight
<1> DEFINE StillRequested(c) == \E q \in InFlight' : head'[q] = c /\ busy'[q]
<1>13. ASSUME NEW c, Requested(c), c # used[1] PROVE StillRequested(c)
  <2>1. PICK q \in InFlight : head[q] = c /\ busy[q]
      BY <1>13 DEF Requested
  <2>2. q # p /\ q \in Proc
      BY <1>5, <1>13, <2>1 DEF InFlight
  <2> QED
      BY <1>2, <1>8, <1>9, <2>1, <2>2
<1>14. QueuesValid'
  <2> HIDE DEF StillRequested
  <2>1. \A n \in 1 .. Len(avail) : StillRequested(avail[n]) /\ avail[n] \notin fetched
      BY <1>1, <1>4, <1>13 DEF QueuesValid
  <2>2. \A n \in 1 .. Len(used') : StillRequested(used'[n]) /\ used'[n] \notin fetched /\ status[used'[n]]
    <3> SUFFICES ASSUME NEW n \in 1 .. Len(used')
                 PROVE  StillRequested(used'[n]) /\ used'[n] \notin fetched /\ status[used'[n]]
        OBVIOUS
    <3>1. used'[n] = used[n + 1] /\ n + 1 \in 1 .. Len(used) /\ n + 1 # 1
        BY <1>3, <1>4
    <3>2. used[n + 1] # used[1]
        BY <1>1, <1>4, <3>1 DEF QueuesValid
    <3> QED
        BY <1>1, <1>13, <3>1, <3>2 DEF QueuesValid
  <2>3. \A c \in fetched : StillRequested(c)
      BY <1>1, <1>4, <1>13 DEF QueuesValid
  <2>4. \A m \in 1 .. Len(avail), n \in 1 .. Len(used') : avail[m] # used'[n]
      BY <1>1, <1>3, <1>4 DEF QueuesValid
  <2>5. \A m, n \in 1 .. Len(used') : used'[m] = used'[n] => m = n
      BY <1>1, <1>3, <1>4 DEF QueuesValid
  <2> QED
      BY <1>1, <1>2, <2>1, <2>2, <2>3, <2>4, <2>5 DEF QueuesValid, Requested, StillRequested
<1> QED
    BY <1>10, <1>11, <1>12, <1>14 DEF DriverInv

\* free_chain() frees the three descriptors of the request.
LEMMA ChainMembers ==
  ASSUME ChainsValid, NEW p \in InFlight
  PROVE  Chain(head[p]) = Members(p) /\ Cardinality(Members(p)) = 3 /\ IsFiniteSet(Members(p))
<1> DEFINE i == head[p]  j == Second(p)  k == Third(p)
<1>1. i \in Desc /\ j \in Desc /\ k \in Desc /\ i # j /\ i # k /\ j # k
    BY DEF ChainsValid
<1>2. next[head[p]] # NoDesc /\ next[next[head[p]]] # NoDesc
    BY <1>1, VirtioAssumption DEF Second, Third
<1>3. Chain(head[p]) = Members(p)
    BY <1>2 DEF Chain, Members, Second, Third
<1> HIDE DEF i, j, k
<1>4. IsFiniteSet({i}) /\ Cardinality({i}) = 1
    BY FS_Singleton
<1>5. IsFiniteSet({i} \cup {j}) /\ Cardinality({i} \cup {j}) = 2
  <2>1. j \notin {i}
      BY <1>1
  <2>2. IsFiniteSet({i} \cup {j}) /\ Cardinality({i} \cup {j}) = Cardinality({i}) + 1
      BY <1>4, <2>1, FS_AddElement
  <2> QED
      BY <1>4, <2>2
<1>6. IsFiniteSet(({i} \cup {j}) \cup {k}) /\ Cardinality(({i} \cup {j}) \cup {k}) = 3
  <2>1. k \notin {i} \cup {j}
      BY <1>1
  <2>2. /\ IsFiniteSet(({i} \cup {j}) \cup {k})
        /\ Cardinality(({i} \cup {j}) \cup {k}) = Cardinality({i} \cup {j}) + 1
      BY <1>5, <2>1, FS_AddElement
  <2> QED
      BY <1>5, <2>2
<1>7. Members(p) = ({i} \cup {j}) \cup {k}
    BY DEF Members, i, j, k
<1> QED
    BY <1>3, <1>6, <1>7

LEMMA DriverFinish ==
  ASSUME DriverInv, NEW p \in Proc, Finish(p)
  PROVE  DriverInv'
<1>1. QueueType /\ QueuesValid /\ ChainsValid /\ ChainsDisjoint
    BY DEF DriverInv
<1>2. p \in InFlight /\ ~busy[p]
    BY DEF Finish, InFlight
<1>3. Chain(head[p]) = Members(p) /\ Cardinality(Members(p)) = 3 /\ IsFiniteSet(Members(p))
    BY <1>1, <1>2, ChainMembers
<1>4. /\ info' = [info EXCEPT ![head[p]] = NoProc]
      /\ free' = free \cup Members(p)
      /\ next' = [i \in Desc |-> IF i \in Members(p) THEN NoDesc ELSE next[i]]
      /\ addr' = [i \in Desc |-> IF i \in Members(p) THEN NoProc ELSE addr[i]]
      /\ pc' = [q \in Proc |-> IF q = p THEN "idle" ELSE IF pc[q] = "nodesc" THEN "alloc" ELSE pc[q]]
      /\ head' = [head EXCEPT ![p] = NoDesc]
      /\ UNCHANGED <<status, avail, used, fetched, irq, inIntr, busy>>
    BY <1>3 DEF Finish, WakeFree, deviceVars
<1>5. Members(p) \subseteq Desc /\ Members(p) \cap free = {} /\ head[p] \in Desc
    BY <1>1, <1>2 DEF ChainsValid, Members
<1>6. QueueType'
    BY <1>1, <1>4, <1>5 DEF QueueType
<1>7. InFlight' = InFlight \ {p}
    BY <1>1, <1>4 DEF InFlight, QueueType
<1>8. \A q \in InFlight \ {p} :
        /\ head'[q] = head[q] /\ Second(q)' = Second(q) /\ Third(q)' = Third(q)
        /\ Members(q)' = Members(q)
        /\ info'[head[q]] = info[head[q]] /\ addr'[Second(q)] = addr[Second(q)]
        /\ head[q] \notin Members(p) /\ Second(q) \notin Members(p) /\ Third(q) \notin Members(p)
  <2> SUFFICES ASSUME NEW q \in InFlight \ {p}
               PROVE  /\ head'[q] = head[q] /\ Second(q)' = Second(q) /\ Third(q)' = Third(q)
                      /\ info'[head[q]] = info[head[q]] /\ addr'[Second(q)] = addr[Second(q)]
                      /\ head[q] \notin Members(p) /\ Second(q) \notin Members(p)
                      /\ Third(q) \notin Members(p)
      BY DEF Members
  <2>1. head[q] \notin Members(p) /\ Second(q) \notin Members(p) /\ Third(q) \notin Members(p)
      BY <1>1, <1>2 DEF ChainsDisjoint, Members
  <2>2. q \in Proc /\ head[q] \in Desc /\ Second(q) \in Desc /\ Third(q) \in Desc
      BY <1>1 DEF ChainsValid, InFlight
  <2>3. head'[q] = head[q]
      BY <1>1, <1>4, <2>2 DEF QueueType
  <2>4. next'[head[q]] = next[head[q]] /\ next'[Second(q)] = next[Second(q)]
      BY <1>4, <2>1, <2>2
  <2>5. Second(q)' = Second(q) /\ Third(q)' = Third(q)
      BY <2>3, <2>4 DEF Second, Third
  <2>6. head[q] # head[p]
      BY <2>1 DEF Members
  <2>7. info'[head[q]] = info[head[q]] /\ addr'[Second(q)] = addr[Second(q)]
      BY <1>1, <1>4, <1>5, <2>1, <2>2, <2>6 DEF QueueType
  <2> QED
      BY <2>1, <2>3, <2>5, <2>7
<1>9. ChainsValid'
  <2> SUFFICES ASSUME NEW q \in InFlight \ {p}
               PROVE  /\ head'[q] \in Desc /\ Second(q)' \in Desc /\ Third(q)' \in Desc
                      /\ head'[q] # Second(q)' /\ head'[q] # Third(q)' /\ Second(q)' # Third(q)'
                      /\ head'[q] \notin free' /\ Second(q)' \notin free' /\ Third(q)' \notin free'
                      /\ info'[head'[q]] = q /\ addr'[Second(q)'] = q
      BY <1>7 DEF ChainsValid
  <2>1. /\ head[q] \in Desc /\ Second(q) \in Desc /\ Third(q) \in Desc
        /\ head[q] # Second(q) /\ head[q] # Third(q) /\ Second(q) # Third(q)
        /\ head[q] \notin free /\ Second(q) \notin free /\ Third(q) \notin free
        /\ info[head[q]] = q /\ addr[Second(q)] = q
      BY <1>1 DEF ChainsValid
  <2>2. head[q] \notin free' /\ Second(q) \notin free' /\ Third(q) \notin free'
      BY <1>4, <1>8, <2>1
  <2> QED
      BY <1>8, <2>1, <2>2
<1>10. ChainsDisjoint'
    BY <1>1, <1>7, <1>8 DEF ChainsDisjoint
<1>11. AllCounted'
  <2>1. IsFiniteSet(InFlight) /\ Cardinality(InFlight) \in Nat
      BY FS_CardinalityType DEF DriverInv, AllCounted
  <2>2. IsFiniteSet(InFlight \ {p}) /\ Cardinality(InFlight \ {p}) = Cardinality(InFlight) - 1
      BY <1>2, <2>1, FS_RemoveElement
  <2>3. IsFiniteSet(free) /\ Cardinality(free) \in Nat
      BY <1>1, FreeFinite
  <2>4. Cardinality(free \cup Members(p)) = Cardinality(free) + 3
    <3>1. Cardinality(free \cup Members(p)) =
            Cardinality(free) + Cardinality(Members(p)) - Cardinality(free \cap Members(p))
        BY <1>3, <2>3, FS_Union
    <3>2. Cardinality(free \cap Members(p)) = 0
        BY <1>5, FS_EmptySet
    <3> QED
        BY <1>3, <2>3, <3>1, <3>2
  <2> QED
      BY <1>4, <1>7, <2>1, <2>2, <2>3, <2>4 DEF DriverInv, AllCounted
<1> DEFINE StillRequested(c) == \E q \in InFlight' : head'[q] = c /\ busy'[q]
<1>12. ASSUME NEW c, Requested(c) PROVE StillRequested(c)
  <2>1. PICK q \in InFlight : head[q] = c /\ busy[q]
      BY <1>12 DEF Requested
  <2>2. q \in InFlight \ {p}
      BY <1>2, <2>1
  <2> QED
      BY <1>4, <1>7, <1>8, <2>1, <2>2
<1>13. QueuesValid'
  <2> HIDE DEF StillRequested
  <2>1. \A n \in 1 .. Len(avail) : StillRequested(avail[n])
      BY <1>1, <1>12 DEF QueuesValid
  <2>2. \A n \in 1 .. Len(used) : StillRequested(used[n])
      BY <1>1, <1>12 DEF QueuesValid
  <2>3. \A i \in fetched : StillRequested(i)
      BY <1>1, <1>12 DEF QueuesValid
  <2> QED
      BY <1>1, <1>4, <2>1, <2>2, <2>3 DEF QueuesValid, Requested, StillRequested
<1>14. FinishedDone'
    BY <1>4, <1>7, <1>8 DEF DriverInv, FinishedDone
<1>15. NobodyWaitsInVain'
    BY <1>1, <1>4 DEF NobodyWaitsInVain, QueueType
<1> QED
    BY <1>6, <1>9, <1>10, <1>11, <1>13, <1>14, <1>15 DEF DriverInv

-----------------------------------------------------------------------------
(* The driver.                                                             *)

LEMMA DriverStep == DriverInv /\ [Next]_vars => DriverInv'
<1> SUFFICES ASSUME DriverInv, [Next]_vars PROVE DriverInv'
    OBVIOUS
<1>1. CASE UNCHANGED vars
  <2>1. /\ UNCHANGED <<free, next, addr, info, status, avail, used, fetched, busy, head, irq, inIntr, pc>>
        /\ irq \in BOOLEAN /\ inIntr \in BOOLEAN
      BY <1>1 DEF vars, DriverInv, QueueType
  <2> QED
      BY <2>1, DriverQuiet DEF DriverInv, QueueType, NobodyWaitsInVain, InFlight
<1>2. ASSUME NEW p \in Proc, virtio_disk_rw(p) \/ Driver(p) \/ Kill(p) PROVE DriverInv'
    BY <1>2, DriverQuietStep, DriverSubmit, DriverFinish DEF Driver
<1>3. CASE Device
    BY <1>3, DriverFetch, DriverTransfer, DriverUsed DEF Device
<1>4. CASE Intr
    BY <1>4, DriverQuietStep, DriverIntrOne DEF Intr
<1> QED
    BY <1>1, <1>2, <1>3, <1>4 DEF Next

LEMMA DriverImplies == DriverInv => DescriptorsOwned /\ NobodyWaitsInVain
<1> SUFFICES ASSUME DriverInv PROVE DescriptorsOwned
    BY DEF DriverInv
<1>1. ChainsValid /\ ChainsDisjoint /\ AllCounted /\ QueuesValid
    BY DEF DriverInv
<1>2. \A p \in InFlight : Chain(head[p]) = Members(p) /\ Cardinality(Members(p)) = 3
    BY <1>1, ChainMembers
<1>3. \A p \in InFlight : Members(p) \cap free = {}
    BY <1>1 DEF ChainsValid, Members
<1>4. \A i \in fetched : \E p \in InFlight : head[p] = i /\ info[i] = p /\ busy[p]
    BY <1>1 DEF QueuesValid, Requested, ChainsValid
<1> QED
    BY <1>1, <1>2, <1>3, <1>4 DEF DescriptorsOwned, ChainsDisjoint, AllCounted

LEMMA DriverInductive == Spec => []DriverInv
<1> QED
    BY DriverInit, DriverStep, PTL DEF Spec

\* Whatever the order in which requests are submitted, finished and taken back,
\* every descriptor is free or in the chain of one request (alloc3_desc(),
\* free_chain(), virtio_disk_intr()), for any number of processes and descriptors.
THEOREM DiskDescriptorsOwned == Spec => []DescriptorsOwned
<1> QED
    BY DriverInductive, DriverImplies, PTL

\* Nobody sleeps on disk.free[0] while three descriptors are free: free_desc()
\* wakes all of them, and alloc3_desc() that fails wakes them again.
THEOREM DiskNobodyWaitsInVain == Spec => []NobodyWaitsInVain
<1> QED
    BY DriverInductive, DriverImplies, PTL

-----------------------------------------------------------------------------
(* The buffer cache.                                                       *)

Holding == {"read", "have", "changed", "write", "written"}

CacheType ==
  /\ lru \in Seq(Buf) /\ (\A b \in Buf : \E i \in 1 .. Len(lru) : lru[i] = b)
  /\ blockno \in [Buf -> Block \cup {NoBlock}]
  /\ refcnt \in [Buf -> Nat]
  /\ valid \in [Buf -> BOOLEAN]
  /\ data \in [Buf -> Value]
  /\ holder \in [Buf -> Proc \cup {NoProc}]
  /\ pins \in [Buf -> {0, 1}]
  /\ bpc \in [Proc -> {"idle", "lock", "read", "have", "changed", "write", "written", "release"}]
  /\ buf \in [Proc -> Buf \cup {NoBuf}]
  /\ disk \in [Block -> Value] /\ latest \in [Block -> Value]

\* A call has a buffer, which holds a block; it is in the driver while it reads
\* or writes; and it holds the buffer's lock from bread() to brelse().
CallsKept ==
  \A p \in Proc :
    /\ buf[p] \in Buf <=> bpc[p] # "idle"
    /\ bpc[p] # "idle" => blockno[buf[p]] \in Block
    /\ pc[p] # "idle" <=> bpc[p] \in {"read", "write"}
    /\ bpc[p] \in Holding => holder[buf[p]] = p

Users(b) == {p \in Proc : buf[p] = b}

UsersFinite == \A b \in Buf : IsFiniteSet(Users(b))

\* The device has moved the buffer of p's request.
Moved(p) == p \in InFlight /\ status[head[p]]

Clean(n) == disk[n] = latest[n]

\* A buffer that is valid holds what was stored last; one that is not valid may be
\* read, because the disk holds it.
ValidCurrent ==
  /\ \A b \in Buf : blockno[b] \in Block =>
       IF valid[b] THEN data[b] = latest[blockno[b]] ELSE Clean(blockno[b])
  /\ \A p \in Proc : /\ bpc[p] = "read" => ~valid[buf[p]]
                     /\ bpc[p] \in {"have", "changed", "write", "written"} => valid[buf[p]]

\* What the disk does not have yet is in a buffer that cannot be recycled.
DirtyKept ==
  /\ \A b \in Buf : blockno[b] \in Block /\ ~Clean(blockno[b]) =>
       pins[b] = 1 \/ \E p \in Proc : buf[p] = b /\ bpc[p] \in {"changed", "write"}
  /\ \A n \in Block : (\A b \in Buf : blockno[b] # n) => Clean(n)

\* What a request does is done when it has finished.
RequestsDone ==
  \A p \in Proc :
    /\ bpc[p] = "read" /\ Moved(p) => data[buf[p]] = disk[blockno[buf[p]]]
    /\ bpc[p] = "write" /\ Moved(p) => data[buf[p]] = disk[blockno[buf[p]]]
    /\ bpc[p] = "written" => Clean(blockno[buf[p]])

CacheInv ==
  /\ CacheType /\ CallsKept /\ UsersFinite /\ OneBuffer
  /\ ValidCurrent /\ DirtyKept /\ RequestsDone

\* The list starts with every buffer in it.
LEMMA ListInit ==
  /\ SetToSeq(Buf) \in Seq(Buf)
  /\ \A b \in Buf : \E i \in 1 .. Len(SetToSeq(Buf)) : SetToSeq(Buf)[i] = b
<1> DEFINE n == Cardinality(Buf)
           f == SetToSeq(Buf)
<1>1. n \in Nat /\ ExistsBijection(1 .. n, Buf)
    BY BcacheAssumption, FS_CardinalityType
<1>2. \E g \in [1 .. n -> Buf] : IsInjective(g)
    BY <1>1 DEF ExistsBijection, Bijection, Injection
<1>3. f \in [1 .. n -> Buf] /\ IsInjective(f)
    BY <1>2 DEF SetToSeq
<1> HIDE DEF f
<1>4. f \in Seq(Buf) /\ Len(f) = n
    BY <1>1, <1>3
<1>5. IsFiniteSet(1 .. n) /\ Cardinality(1 .. n) = n
    BY <1>1, FS_Interval
<1>6. f \in Injection(1 .. n, Buf)
    BY <1>3 DEF Injection
<1>7. f \in Surjection(1 .. n, Buf)
    BY <1>5, <1>6, BcacheAssumption, FS_Injection
<1> QED
    BY <1>4, <1>7 DEF Surjection, f

\* Moving a buffer to the head loses none.
LEMMA ToFrontKeeps ==
  ASSUME NEW l \in Seq(Buf), NEW i \in 1 .. Len(l)
  PROVE  /\ ToFront(l, i) \in Seq(Buf)
         /\ \A j \in 1 .. Len(l) : \E k \in 1 .. Len(ToFront(l, i)) : ToFront(l, i)[k] = l[j]
<1> DEFINE a == SubSeq(l, 1, i - 1)
           c == SubSeq(l, i + 1, Len(l))
<1>0. Len(l) \in Nat /\ i \in Nat /\ l[i] \in Buf
    OBVIOUS
<1>1. a \in Seq(Buf) /\ Len(a) = i - 1 /\ \A j \in 1 .. i - 1 : a[j] = l[j]
    BY <1>0
<1>2. c \in Seq(Buf) /\ Len(c) = Len(l) - i /\ \A j \in 1 .. Len(l) - i : c[j] = l[i + j]
    BY <1>0
<1>3. <<l[i]>> \in Seq(Buf) /\ Len(<<l[i]>>) = 1 /\ <<l[i]>>[1] = l[i]
    BY <1>0
<1> DEFINE t == ToFront(l, i)
<1>4. t = <<l[i]>> \o (a \o c)
    BY DEF ToFront, RemoveAt
<1> HIDE DEF a, c, t
<1>5. a \o c \in Seq(Buf) /\ Len(a \o c) = Len(l) - 1
  <2>1. a \o c \in Seq(Buf) /\ Len(a \o c) = Len(a) + Len(c)
      BY <1>1, <1>2, ConcatProperties
  <2> QED
      BY <1>0, <1>1, <1>2, <2>1
<1>6. t \in Seq(Buf) /\ Len(t) = Len(l)
    BY <1>0, <1>3, <1>4, <1>5
<1>7. t[1] = l[i]
    BY <1>0, <1>3, <1>4, <1>5
<1>8. \A j \in 1 .. Len(l) - 1 : t[j + 1] = (a \o c)[j]
    BY <1>0, <1>3, <1>4, <1>5
<1>9. \A j \in 1 .. i - 1 : (a \o c)[j] = l[j]
    BY <1>0, <1>1, <1>2
<1>10. \A j \in i .. Len(l) - 1 : (a \o c)[j] = l[j + 1]
  <2> SUFFICES ASSUME NEW j \in i .. Len(l) - 1 PROVE (a \o c)[j] = l[j + 1]
      OBVIOUS
  <2>1. j - (i - 1) \in 1 .. Len(l) - i /\ i + (j - (i - 1)) = j + 1 /\ j \in Nat
      BY <1>0
  <2>2. (a \o c)[j] = c[j - Len(a)]
      BY <1>0, <1>1, <1>2, <2>1
  <2> QED
      BY <1>1, <1>2, <2>1, <2>2
<1>11. ASSUME NEW j \in 1 .. Len(l) PROVE \E k \in 1 .. Len(t) : t[k] = l[j]
  <2>1. CASE j = i
      BY <1>0, <1>6, <1>7, <2>1
  <2>2. CASE j < i
    <3>1. j \in 1 .. i - 1 /\ j \in 1 .. Len(l) - 1 /\ j + 1 \in 1 .. Len(l)
        BY <1>0, <2>2
    <3> QED
        BY <1>6, <1>8, <1>9, <3>1
  <2>3. CASE j > i
    <3>1. j - 1 \in i .. Len(l) - 1 /\ j - 1 \in 1 .. Len(l) - 1 /\ (j - 1) + 1 = j
        BY <1>0, <2>3
    <3>2. t[j] = l[j]
        BY <1>8, <1>10, <3>1
    <3> QED
        BY <1>6, <3>2
  <2> QED
      BY <1>0, <2>1, <2>2, <2>3
<1> QED
    BY <1>6, <1>11 DEF t

\* bget() finds an unused buffer when there is one.
LEMMA OldestUnused ==
  ASSUME CacheType, Unused # {}
  PROVE  Oldest \in Buf /\ refcnt[Oldest] = 0
<1> DEFINE S == {i \in 1 .. Len(lru) : refcnt[lru[i]] = 0}
<1>1. Len(lru) \in Nat /\ S \subseteq 1 .. Len(lru)
    BY DEF CacheType
<1>2. S # {}
    BY DEF CacheType, Unused
<1>3. Max(S) \in S
  <2> HIDE DEF S
  <2> QED
      BY <1>1, <1>2, MaxIn
<1>4. lru[Max(S)] \in Buf
    BY <1>3 DEF CacheType
<1> QED
    BY <1>3, <1>4 DEF Oldest

LEMMA CacheInitInv == CacheInit => CacheInv
<1> SUFFICES ASSUME CacheInit PROVE CacheInv
    OBVIOUS
<1>1. lru \in Seq(Buf) /\ (\A b \in Buf : \E i \in 1 .. Len(lru) : lru[i] = b)
    BY ListInit DEF CacheInit
<1>2. CacheType
  <2>1. blockno \in [Buf -> Block \cup {NoBlock}] /\ refcnt \in [Buf -> Nat] /\ valid \in [Buf -> BOOLEAN]
      BY DEF CacheInit
  <2>2. holder \in [Buf -> Proc \cup {NoProc}] /\ pins \in [Buf -> {0, 1}]
      BY DEF CacheInit
  <2>3. bpc \in [Proc -> {"idle", "lock", "read", "have", "changed", "write", "written", "release"}]
      BY DEF CacheInit
  <2>4. buf \in [Proc -> Buf \cup {NoBuf}] /\ data \in [Buf -> Value]
      BY DEF CacheInit
  <2>5. disk \in [Block -> Value] /\ latest \in [Block -> Value]
      BY DEF CacheInit
  <2> QED
      BY <1>1, <2>1, <2>2, <2>3, <2>4, <2>5 DEF CacheType
<1>3. /\ \A p \in Proc : bpc[p] = "idle" /\ buf[p] = NoBuf /\ pc[p] = "idle"
      /\ \A b \in Buf : blockno[b] = NoBlock /\ refcnt[b] = 0 /\ pins[b] = 0
      /\ latest = disk
    BY DEF CacheInit, Init
<1>4. CallsKept
    BY <1>3, BcacheAssumption DEF CallsKept, Holding
<1>5. \A b \in Buf : Users(b) = {}
    BY <1>3, BcacheAssumption DEF Users
<1>6. UsersFinite /\ OneBuffer
    BY <1>3, <1>5, FS_EmptySet DEF UsersFinite, OneBuffer, Users
<1>7. ValidCurrent /\ DirtyKept /\ RequestsDone
    BY <1>3, BcacheAssumption DEF ValidCurrent, DirtyKept, RequestsDone, Clean
<1> QED
    BY <1>2, <1>4, <1>6, <1>7 DEF CacheInv

\* The cache drives the disk the way the driver's specification says.
LEMMA CacheDrives == [CacheNext]_allVars => [Next]_vars
<1> SUFFICES ASSUME [CacheNext]_allVars PROVE [Next]_vars
    OBVIOUS
<1>1. CASE UNCHANGED allVars
    BY <1>1 DEF allVars
<1>2. ASSUME NEW p \in Proc, NEW n \in Block, Hit(p, n) \/ Recycle(p, n) \/ NoBuffers(p, n)
      PROVE  UNCHANGED vars
    BY <1>2 DEF Hit, Recycle, NoBuffers
<1>3. ASSUME NEW p \in Proc, CacheStep(p) \/ Store(p) \/ bwrite(p) \/ bpin(p) \/ bunpin(p)
      PROVE  UNCHANGED vars \/ virtio_disk_rw(p) \/ Finish(p)
    BY <1>3 DEF CacheStep, LockBuf, Returned, brelse, Unref, Store, bwrite, bpin, bunpin
<1>4. ASSUME NEW i \in Desc, Transfer(i) PROVE DeviceTransfer(i)
    BY <1>4 DEF Transfer
<1>5. CASE DiskStep
    BY <1>5 DEF DiskStep, Next, Driver, Device
<1> QED
    BY <1>1, <1>2, <1>3, <1>4, <1>5 DEF CacheNext, Next, Driver, Device

\* What a step of the driver does to requests and calls.
LEMMA MovedQuiet ==
  ASSUME DriverInv, DiskStep
  PROVE  \A q \in Proc : (Moved(q)' => Moved(q)) /\ (pc'[q] = "idle" <=> pc[q] = "idle")
<1>1. QueueType /\ ChainsValid
    BY DEF DriverInv
<1>2. ASSUME NEW p \in Proc, AllocFail(p) \/ SleepAgain(p) \/ Kill(p)
      PROVE  \A q \in Proc : (Moved(q)' => Moved(q)) /\ (pc'[q] = "idle" <=> pc[q] = "idle")
    BY <1>1, <1>2 DEF AllocFail, SleepAgain, Kill, WakeFree, Moved, InFlight, QueueType, queueVars
<1>3. ASSUME NEW p \in Proc, Submit(p)
      PROVE  \A q \in Proc : (Moved(q)' => Moved(q)) /\ (pc'[q] = "idle" <=> pc[q] = "idle")
  <2>1. PICK i \in free : /\ status' = [status EXCEPT ![i] = FALSE]
                          /\ head' = [head EXCEPT ![p] = i]
                          /\ pc' = [pc EXCEPT ![p] = "asleep"] /\ pc[p] = "alloc"
    <3>1. PICK i, j, k \in free : alloc3_desc = <<i, j, k>>
        BY <1>1, <1>3, AllocFinds DEF Submit, QueueType
    <3> QED
        BY <1>3, <3>1 DEF Submit
  <2>2. i \in Desc /\ ~status'[i] /\ head'[p] = i
      BY <1>1, <2>1 DEF QueueType
  <2>3. ASSUME NEW q \in Proc, q # p, q \in InFlight' PROVE Moved(q)' => Moved(q)
    <3>1. q \in InFlight /\ head'[q] = head[q]
        BY <1>1, <2>1, <2>3 DEF InFlight, QueueType
    <3>2. head[q] \in Desc /\ head[q] # i
        BY <1>1, <2>1, <3>1 DEF ChainsValid
    <3>3. status'[head[q]] = status[head[q]]
        BY <1>1, <2>1, <3>2 DEF QueueType
    <3> QED
        BY <3>1, <3>3 DEF Moved
  <2>4. ~Moved(p)'
      BY <2>2 DEF Moved
  <2>5. \A q \in Proc : pc'[q] = "idle" <=> pc[q] = "idle"
      BY <1>1, <2>1 DEF QueueType
  <2> QED
      BY <2>3, <2>4, <2>5 DEF Moved
<1>4. CASE DeviceFetch \/ \E i \in Desc : DeviceUsed(i)
    BY <1>4 DEF DeviceFetch, DeviceUsed, Moved, InFlight, queueVars
<1>5. CASE IntrStart \/ IntrEnd
    BY <1>5 DEF IntrStart, IntrEnd, Moved, InFlight, queueVars
<1>6. CASE IntrOne
    BY <1>1, <1>6 DEF IntrOne, Moved, InFlight, queueVars, QueueType
<1> QED
    BY <1>2, <1>3, <1>4, <1>5, <1>6 DEF DiskStep, Intr

LEMMA MovedCall ==
  ASSUME DriverInv, NEW p \in Proc, virtio_disk_rw(p)
  PROVE  /\ \A q \in Proc : Moved(q)' <=> Moved(q)
         /\ ~Moved(p) /\ pc'[p] # "idle" /\ pc[p] = "idle"
         /\ \A q \in Proc \ {p} : pc'[q] = pc[q]
<1>1. QueueType
    BY DEF DriverInv
<1> QED
    BY <1>1 DEF virtio_disk_rw, Moved, InFlight, queueVars, QueueType

LEMMA MovedReturn ==
  ASSUME DriverInv, NEW p \in Proc, Finish(p)
  PROVE  /\ Moved(p) /\ pc[p] # "idle" /\ pc'[p] = "idle"
         /\ \A q \in Proc : Moved(q)' => Moved(q)
         /\ \A q \in Proc \ {p} : pc'[q] = "idle" <=> pc[q] = "idle"
<1>1. QueueType /\ FinishedDone
    BY DEF DriverInv
<1>2. pc' = [q \in Proc |-> IF q = p THEN "idle" ELSE IF pc[q] = "nodesc" THEN "alloc" ELSE pc[q]]
    BY DEF Finish, WakeFree
<1>3. pc[p] = "awake" /\ ~busy[p] /\ status' = status /\ head' = [head EXCEPT ![p] = NoDesc]
    BY DEF Finish
<1>4. Moved(p)
    BY <1>1, <1>3 DEF FinishedDone, Moved, InFlight
<1>5. \A q \in Proc \ {p} : head'[q] = head[q] /\ (pc'[q] = "idle" <=> pc[q] = "idle")
                            /\ (q \in InFlight' <=> q \in InFlight)
    BY <1>1, <1>2, <1>3 DEF QueueType, InFlight
<1>6. pc'[p] = "idle" /\ p \notin InFlight'
    BY <1>2 DEF InFlight
<1> QED
    BY <1>3, <1>4, <1>5, <1>6 DEF Moved

\* The device moves the buffer of the process whose request it is.
LEMMA MovedTransfer ==
  ASSUME DriverInv, NEW i \in Desc, DeviceTransfer(i)
  PROVE  \E p \in Proc : /\ addr[next[i]] = p /\ pc[p] # "idle"
                         /\ \A q \in Proc \ {p} : Moved(q)' => Moved(q)
<1>1. QueueType /\ ChainsValid /\ ChainsDisjoint /\ QueuesValid
    BY DEF DriverInv
<1>2. i \in fetched /\ status' = [status EXCEPT ![i] = TRUE] /\ UNCHANGED <<head, pc>>
    BY DEF DeviceTransfer
<1>3. PICK p \in InFlight : head[p] = i
    BY <1>1, <1>2 DEF QueuesValid, Requested
<1>4. p \in Proc /\ pc[p] # "idle" /\ addr[next[i]] = p
    BY <1>1, <1>3 DEF ChainsValid, Second, InFlight
<1>5. \A q \in InFlight \ {p} : head[q] # i
    BY <1>1, <1>3 DEF ChainsDisjoint, Members
<1>6. \A q \in Proc \ {p} : Moved(q)' => Moved(q)
    BY <1>1, <1>2, <1>5 DEF Moved, InFlight, QueueType, ChainsValid
<1> QED
    BY <1>4, <1>6

-----------------------------------------------------------------------------
(* The steps of the cache.                                                 *)

\* Who holds a buffer holds it alone, and its block is in no other buffer.
LEMMA HoldsAlone ==
  ASSUME CacheInv, NEW p \in Proc, bpc[p] # "idle"
  PROVE  /\ buf[p] \in Buf /\ blockno[buf[p]] \in Block
         /\ \A c \in Buf \ {buf[p]} : blockno[c] # blockno[buf[p]]
         /\ bpc[p] \in Holding => \A q \in Proc \ {p} : bpc[q] \in Holding => buf[q] # buf[p]
<1>1. CallsKept /\ OneBuffer
    BY DEF CacheInv
<1>2. buf[p] \in Buf /\ blockno[buf[p]] \in Block
    BY <1>1 DEF CallsKept
<1>3. \A c \in Buf \ {buf[p]} : blockno[c] # blockno[buf[p]]
    BY <1>1, <1>2, BcacheAssumption DEF OneBuffer
<1>4. bpc[p] \in Holding => \A q \in Proc \ {p} : bpc[q] \in Holding => buf[q] # buf[p]
    BY <1>1 DEF CallsKept
<1> QED
    BY <1>2, <1>3, <1>4

\* Steps that give nobody a buffer and take none.
LEMMA RefsKept ==
  ASSUME UsersFinite, OneBuffer, UNCHANGED <<blockno, refcnt, pins, buf>>
  PROVE  UsersFinite' /\ OneBuffer'
BY DEF UsersFinite, OneBuffer, Users

\* Steps of the driver and the device alone.
LEMMA CacheDisk == ASSUME DriverInv, CacheInv, DiskStep PROVE CacheInv'
<1>1. \A q \in Proc : (Moved(q)' => Moved(q)) /\ (pc'[q] = "idle" <=> pc[q] = "idle")
    BY MovedQuiet
<1>2. UNCHANGED cacheVars
    BY DEF DiskStep
<1>3. CacheType' /\ UsersFinite' /\ OneBuffer' /\ ValidCurrent' /\ DirtyKept'
    BY <1>2 DEF cacheVars, CacheInv, CacheType, UsersFinite, OneBuffer, Users, ValidCurrent, DirtyKept, Clean
<1>4. CallsKept'
    BY <1>1, <1>2 DEF cacheVars, CacheInv, CallsKept
<1>5. RequestsDone'
    BY <1>1, <1>2 DEF cacheVars, CacheInv, RequestsDone, Clean
<1> QED
    BY <1>3, <1>4, <1>5 DEF CacheInv

LEMMA CacheUnchanged == ASSUME CacheInv, UNCHANGED <<vars, cacheVars>> PROVE CacheInv'
<1>1. UNCHANGED cacheVars /\ UNCHANGED <<status, head, pc>>
    BY DEF vars
<1>2. CacheType' /\ UsersFinite' /\ OneBuffer' /\ ValidCurrent' /\ DirtyKept'
    BY <1>1 DEF cacheVars, CacheInv, CacheType, UsersFinite, OneBuffer, Users, ValidCurrent, DirtyKept, Clean
<1>3. CallsKept' /\ RequestsDone'
    BY <1>1 DEF cacheVars, CacheInv, CallsKept, RequestsDone, Clean, Moved, InFlight
<1> QED
    BY <1>2, <1>3 DEF CacheInv

\* p gets buffer b.
LEMMA RefTaken ==
  ASSUME UsersFinite, CacheType, NEW p \in Proc, NEW b \in Buf, buf[p] = NoBuf,
         buf' = [buf EXCEPT ![p] = b]
  PROVE  /\ UsersFinite'
         /\ Cardinality(Users(b)') = Cardinality(Users(b)) + 1 /\ Cardinality(Users(b)) \in Nat
         /\ \A c \in Buf \ {b} : Users(c)' = Users(c)
<1>0. buf'[p] = b /\ \A q \in Proc \ {p} : buf'[q] = buf[q]
    BY DEF CacheType
<1>1. p \notin Users(b) /\ Users(b)' = Users(b) \cup {p}
    BY <1>0, BcacheAssumption DEF Users
<1>2. \A c \in Buf \ {b} : Users(c)' = Users(c)
    BY <1>0, BcacheAssumption DEF Users
<1>3. IsFiniteSet(Users(b))
    BY DEF UsersFinite
<1>4. /\ IsFiniteSet(Users(b) \cup {p}) /\ Cardinality(Users(b) \cup {p}) = Cardinality(Users(b)) + 1
      /\ Cardinality(Users(b)) \in Nat
    BY <1>1, <1>3, FS_AddElement, FS_CardinalityType
<1>5. ASSUME NEW c \in Buf PROVE IsFiniteSet(Users(c)')
    BY <1>1, <1>2, <1>4 DEF UsersFinite
<1>6. UsersFinite'
    BY <1>5 DEF UsersFinite
<1> QED
    BY <1>1, <1>2, <1>4, <1>6

\* p gives up its buffer.
LEMMA RefDropped ==
  ASSUME UsersFinite, CacheType, NEW p \in Proc, NEW b \in Buf, buf[p] = b,
         buf' = [buf EXCEPT ![p] = NoBuf]
  PROVE  /\ UsersFinite'
         /\ Cardinality(Users(b)') = Cardinality(Users(b)) - 1
         /\ Cardinality(Users(b)) \in Nat /\ Cardinality(Users(b)) > 0
         /\ \A c \in Buf \ {b} : Users(c)' = Users(c)
<1>0. buf'[p] = NoBuf /\ \A q \in Proc \ {p} : buf'[q] = buf[q]
    BY DEF CacheType
<1>1. p \in Users(b) /\ Users(b)' = Users(b) \ {p}
    BY <1>0, BcacheAssumption DEF Users
<1>2. \A c \in Buf \ {b} : Users(c)' = Users(c)
    BY <1>0, BcacheAssumption DEF Users
<1>3. IsFiniteSet(Users(b))
    BY DEF UsersFinite
<1>4. /\ IsFiniteSet(Users(b) \ {p}) /\ Cardinality(Users(b) \ {p}) = Cardinality(Users(b)) - 1
      /\ Cardinality(Users(b)) \in Nat /\ Cardinality(Users(b) \ {p}) \in Nat
    BY <1>1, <1>3, FS_RemoveElement, FS_CardinalityType
<1>5. ASSUME NEW c \in Buf PROVE IsFiniteSet(Users(c)')
    BY <1>1, <1>2, <1>4 DEF UsersFinite
<1>6. UsersFinite'
    BY <1>5 DEF UsersFinite
<1> QED
    BY <1>1, <1>2, <1>4, <1>6

LEMMA CacheHit ==
  ASSUME DriverInv, CacheInv, NEW p \in Proc, NEW n \in Block, Hit(p, n)
  PROVE  CacheInv'
<1>1. CacheType /\ CallsKept /\ UsersFinite /\ OneBuffer /\ ValidCurrent /\ DirtyKept /\ RequestsDone
    BY DEF CacheInv
<1>2. PICK b \in Buf : /\ blockno[b] = n
                       /\ refcnt' = [refcnt EXCEPT ![b] = @ + 1]
                       /\ buf' = [buf EXCEPT ![p] = b]
    BY DEF Hit, Cached
<1>3. /\ bpc[p] = "idle" /\ bpc' = [bpc EXCEPT ![p] = "lock"]
      /\ UNCHANGED <<lru, blockno, valid, data, holder, pins, disk, latest, status, head, pc>>
    BY DEF Hit, GoTo, vars
<1>4. buf[p] = NoBuf /\ pc[p] = "idle"
  <2>1. buf[p] \in Buf \cup {NoBuf}
      BY <1>1 DEF CacheType
  <2> QED
      BY <1>1, <1>3, <2>1 DEF CallsKept
<1>5. CacheType'
    BY <1>1, <1>2, <1>3 DEF CacheType
<1>6. /\ \A q \in Proc \ {p} : buf'[q] = buf[q] /\ bpc'[q] = bpc[q]
      /\ buf'[p] = b /\ bpc'[p] = "lock"
      /\ \A q \in Proc : Moved(q)' <=> Moved(q)
    BY <1>1, <1>2, <1>3 DEF CacheType, Moved, InFlight
<1>7. CallsKept'
    BY <1>1, <1>2, <1>3, <1>4, <1>6 DEF CallsKept, Holding
<1>8. UsersFinite' /\ OneBuffer'
  <2>1. /\ UsersFinite'
        /\ Cardinality(Users(b)') = Cardinality(Users(b)) + 1 /\ Cardinality(Users(b)) \in Nat
        /\ \A c \in Buf \ {b} : Users(c)' = Users(c)
      BY <1>1, <1>2, <1>4, RefTaken
  <2>2. \A c \in Buf : refcnt[c] = Cardinality(Users(c)) + pins[c]
      BY <1>1 DEF OneBuffer, Users
  <2>6. refcnt'[b] = refcnt[b] + 1
      BY <1>1, <1>2 DEF CacheType
  <2>7. pins[b] \in {0, 1}
      BY <1>1 DEF CacheType
  <2>3. refcnt'[b] = Cardinality(Users(b)') + pins[b]
      BY <2>1, <2>2, <2>6, <2>7
  <2>4. \A c \in Buf \ {b} : refcnt'[c] = Cardinality(Users(c)') + pins[c]
      BY <1>1, <1>2, <2>1, <2>2 DEF CacheType
  <2>5. \A c \in Buf : refcnt'[c] = Cardinality(Users(c)') + pins'[c]
      BY <1>3, <2>3, <2>4
  <2> QED
      BY <1>1, <1>3, <2>1, <2>5 DEF OneBuffer, Users
<1>9. ValidCurrent'
    BY <1>1, <1>3, <1>6 DEF ValidCurrent, Clean
<1>10. DirtyKept'
    BY <1>1, <1>3, <1>6 DEF DirtyKept, Clean
<1>11. RequestsDone'
    BY <1>1, <1>3, <1>6 DEF RequestsDone, Clean
<1> QED
    BY <1>5, <1>7, <1>8, <1>9, <1>10, <1>11 DEF CacheInv

LEMMA CacheRecycle ==
  ASSUME DriverInv, CacheInv, NEW p \in Proc, NEW n \in Block, Recycle(p, n)
  PROVE  CacheInv'
<1>1. CacheType /\ CallsKept /\ UsersFinite /\ OneBuffer /\ ValidCurrent /\ DirtyKept /\ RequestsDone
    BY DEF CacheInv
<1>2. PICK b \in Buf : b = Oldest /\ refcnt[b] = 0
    BY <1>1, OldestUnused DEF Recycle
<1>3. /\ blockno' = [blockno EXCEPT ![b] = n]
      /\ valid' = [valid EXCEPT ![b] = FALSE]
      /\ refcnt' = [refcnt EXCEPT ![b] = 1]
      /\ buf' = [buf EXCEPT ![p] = b]
      /\ bpc[p] = "idle" /\ bpc' = [bpc EXCEPT ![p] = "lock"]
      /\ \A c \in Buf : blockno[c] # n
      /\ UNCHANGED <<lru, data, holder, pins, disk, latest, status, head, pc>>
    BY <1>2 DEF Recycle, GoTo, vars, Cached
<1>4. buf[p] = NoBuf /\ pc[p] = "idle"
  <2>1. buf[p] \in Buf \cup {NoBuf}
      BY <1>1 DEF CacheType
  <2> QED
      BY <1>1, <1>3, <2>1 DEF CallsKept
<1>5. CacheType'
    BY <1>1, <1>2, <1>3 DEF CacheType
<1>6. /\ \A q \in Proc \ {p} : buf'[q] = buf[q] /\ bpc'[q] = bpc[q]
      /\ buf'[p] = b /\ bpc'[p] = "lock"
      /\ \A q \in Proc : Moved(q)' <=> Moved(q)
      /\ \A c \in Buf \ {b} : blockno'[c] = blockno[c] /\ valid'[c] = valid[c] /\ refcnt'[c] = refcnt[c]
      /\ blockno'[b] = n /\ ~valid'[b] /\ refcnt'[b] = 1
    BY <1>1, <1>2, <1>3 DEF CacheType, Moved, InFlight
<1>7. /\ UsersFinite'
      /\ Cardinality(Users(b)') = Cardinality(Users(b)) + 1 /\ Cardinality(Users(b)) \in Nat
      /\ \A c \in Buf \ {b} : Users(c)' = Users(c)
    BY <1>1, <1>3, <1>4, RefTaken
<1>8. \A c \in Buf : refcnt[c] = Cardinality(Users(c)) + pins[c]
    BY <1>1 DEF OneBuffer, Users
<1>9. pins[b] \in {0, 1}
    BY <1>1 DEF CacheType
<1>10. Cardinality(Users(b)) = 0 /\ pins[b] = 0
    BY <1>2, <1>7, <1>8, <1>9
<1>11. \A q \in Proc : buf[q] # b
  <2>1. IsFiniteSet(Users(b))
      BY <1>1 DEF UsersFinite
  <2>2. Users(b) = {}
      BY <1>10, <2>1, FS_EmptySet
  <2> QED
      BY <2>2 DEF Users
<1>12. CallsKept'
    BY <1>1, <1>3, <1>4, <1>6, <1>11 DEF CallsKept, Holding
<1>13. OneBuffer'
  <2>1. \A c, d \in Buf : c # d /\ blockno'[c] # NoBlock => blockno'[c] # blockno'[d]
      BY <1>1, <1>3, <1>6 DEF OneBuffer
  <2>2. refcnt'[b] = Cardinality(Users(b)') + pins'[b]
      BY <1>3, <1>6, <1>7, <1>10
  <2>3. \A c \in Buf \ {b} : refcnt'[c] = Cardinality(Users(c)') + pins'[c]
      BY <1>3, <1>6, <1>7, <1>8
  <2>4. \A c \in Buf : refcnt'[c] = Cardinality(Users(c)') + pins'[c]
      BY <2>2, <2>3
  <2> QED
      BY <2>1, <2>4 DEF OneBuffer, Users
<1>14. Clean(n)
    BY <1>1, <1>3 DEF DirtyKept
<1>15. blockno[b] \in Block => Clean(blockno[b])
    BY <1>1, <1>10, <1>11 DEF DirtyKept
<1>16. ValidCurrent'
  <2>1. ASSUME NEW c \in Buf, blockno'[c] \in Block
        PROVE  IF valid'[c] THEN data'[c] = latest'[blockno'[c]]
                            ELSE disk'[blockno'[c]] = latest'[blockno'[c]]
    <3>1. CASE c = b
        BY <1>3, <1>6, <1>14, <3>1 DEF Clean
    <3>2. CASE c # b
        BY <1>1, <1>3, <1>6, <2>1, <3>2 DEF ValidCurrent, Clean
    <3> QED
        BY <3>1, <3>2
  <2>2. \A q \in Proc \ {p} : bpc[q] # "idle" => buf[q] \in Buf \ {b}
      BY <1>1, <1>11 DEF CallsKept
  <2>3. \A q \in Proc : /\ bpc'[q] = "read" => ~valid'[buf'[q]]
                        /\ bpc'[q] \in {"have", "changed", "write", "written"} => valid'[buf'[q]]
      BY <1>1, <1>6, <2>2 DEF ValidCurrent
  <2> QED
      BY <2>1, <2>3 DEF ValidCurrent, Clean
<1>17. DirtyKept'
  <2>1. ASSUME NEW c \in Buf, blockno'[c] \in Block, disk'[blockno'[c]] # latest'[blockno'[c]]
        PROVE  pins'[c] = 1 \/ \E q \in Proc : buf'[q] = c /\ bpc'[q] \in {"changed", "write"}
    <3>1. c # b
        BY <1>3, <1>6, <1>14, <2>1 DEF Clean
    <3>2. pins[c] = 1 \/ \E q \in Proc : buf[q] = c /\ bpc[q] \in {"changed", "write"}
        BY <1>1, <1>3, <1>6, <2>1, <3>1 DEF DirtyKept, Clean
    <3> QED
        BY <1>3, <1>6, <3>2
  <2>2. ASSUME NEW m \in Block, \A c \in Buf : blockno'[c] # m PROVE disk'[m] = latest'[m]
    <3>1. CASE m = blockno[b]
        BY <1>3, <1>15, <3>1 DEF Clean
    <3>2. CASE m # blockno[b]
        BY <1>1, <1>3, <1>6, <2>2, <3>2 DEF DirtyKept, Clean
    <3> QED
        BY <3>1, <3>2
  <2> QED
      BY <2>1, <2>2 DEF DirtyKept, Clean
<1>18. RequestsDone'
  <2> SUFFICES ASSUME NEW q \in Proc
               PROVE  /\ bpc'[q] = "read" /\ Moved(q)' => data'[buf'[q]] = disk'[blockno'[buf'[q]]]
                      /\ bpc'[q] = "write" /\ Moved(q)' => data'[buf'[q]] = disk'[blockno'[buf'[q]]]
                      /\ bpc'[q] = "written" => disk'[blockno'[buf'[q]]] = latest'[blockno'[buf'[q]]]
      BY DEF RequestsDone, Clean
  <2>1. CASE q = p
      BY <1>6, <2>1
  <2>2. CASE q # p /\ bpc[q] # "idle"
    <3>1. buf[q] \in Buf \ {b} /\ buf'[q] = buf[q] /\ bpc'[q] = bpc[q]
        BY <1>1, <1>6, <1>11, <2>2 DEF CallsKept
    <3>2. blockno'[buf[q]] = blockno[buf[q]]
        BY <1>6, <3>1
    <3> QED
        BY <1>1, <1>3, <1>6, <3>1, <3>2 DEF RequestsDone, Clean
  <2>3. CASE q # p /\ bpc[q] = "idle"
      BY <1>6, <2>3
  <2> QED
      BY <2>1, <2>2, <2>3
<1> QED
    BY <1>5, <1>7, <1>12, <1>13, <1>16, <1>17, <1>18 DEF CacheInv

LEMMA CacheLockBuf ==
  ASSUME DriverInv, CacheInv, NEW p \in Proc, LockBuf(p)
  PROVE  CacheInv'
<1> DEFINE b == buf[p]
<1>1. CacheType /\ CallsKept /\ UsersFinite /\ OneBuffer /\ ValidCurrent /\ DirtyKept /\ RequestsDone
    BY DEF CacheInv
<1>2. /\ bpc[p] = "lock" /\ holder[b] = NoProc
      /\ holder' = [holder EXCEPT ![b] = p]
      /\ UNCHANGED <<lru, blockno, refcnt, valid, data, pins, buf, disk, latest>>
    BY DEF LockBuf
<1>3. b \in Buf /\ pc[p] = "idle"
    BY <1>1, <1>2 DEF CallsKept
<1>4. PICK l \in {"have", "read"} : /\ bpc' = [bpc EXCEPT ![p] = l]
                                    /\ l = "have" => valid[b] /\ UNCHANGED vars
                                    /\ l = "read" => ~valid[b] /\ virtio_disk_rw(p)
    BY DEF LockBuf, GoTo
<1>5. /\ ~Moved(p) /\ \A q \in Proc : Moved(q)' <=> Moved(q)
      /\ l = "have" => pc'[p] = "idle"
      /\ l = "read" => pc'[p] # "idle"
      /\ \A q \in Proc \ {p} : pc'[q] = pc[q]
  <2>1. CASE l = "have"
      BY <1>3, <1>4, <2>1 DEF vars, Moved, InFlight
  <2>2. CASE l = "read"
      BY <1>4, <2>2, MovedCall
  <2> QED
      BY <2>1, <2>2
<1>6. CacheType'
    BY <1>1, <1>2, <1>3, <1>4 DEF CacheType
<1>7. /\ bpc'[p] = l /\ \A q \in Proc \ {p} : bpc'[q] = bpc[q]
      /\ holder'[b] = p /\ \A c \in Buf \ {b} : holder'[c] = holder[c]
    BY <1>1, <1>2, <1>3, <1>4 DEF CacheType
<1>8. CallsKept'
  <2> SUFFICES ASSUME NEW q \in Proc
               PROVE  /\ buf'[q] \in Buf <=> bpc'[q] # "idle"
                      /\ bpc'[q] # "idle" => blockno'[buf'[q]] \in Block
                      /\ pc'[q] # "idle" <=> bpc'[q] \in {"read", "write"}
                      /\ bpc'[q] \in Holding => holder'[buf'[q]] = q
      BY DEF CallsKept
  <2>1. CASE q = p
      BY <1>1, <1>2, <1>3, <1>5, <1>7, <2>1 DEF CallsKept, Holding
  <2>2. CASE q # p
    <3>1. bpc[q] \in Holding => buf[q] \in Buf \ {b}
        BY <1>1, <1>2, <2>2, VirtioAssumption DEF CallsKept, Holding
    <3> QED
        BY <1>1, <1>2, <1>5, <1>7, <2>2, <3>1 DEF CallsKept
  <2> QED
      BY <2>1, <2>2
<1>9. UsersFinite' /\ OneBuffer'
    BY <1>1, <1>2, RefsKept
<1>10. ValidCurrent'
    BY <1>1, <1>2, <1>4, <1>7 DEF ValidCurrent, Clean
<1>11. DirtyKept'
    BY <1>1, <1>2, <1>4, <1>7 DEF DirtyKept, Clean
<1>12. RequestsDone'
    BY <1>1, <1>2, <1>4, <1>5, <1>7 DEF RequestsDone, Clean
<1> QED
    BY <1>6, <1>8, <1>9, <1>10, <1>11, <1>12 DEF CacheInv

LEMMA CacheStore ==
  ASSUME DriverInv, CacheInv, NEW p \in Proc, Store(p)
  PROVE  CacheInv'
<1> DEFINE b == buf[p]
           n == blockno[buf[p]]
<1>1. CacheType /\ CallsKept /\ UsersFinite /\ OneBuffer /\ ValidCurrent /\ DirtyKept /\ RequestsDone
    BY DEF CacheInv
<1>2. PICK v \in Value : data' = [data EXCEPT ![b] = v] /\ latest' = [latest EXCEPT ![n] = v]
    BY DEF Store
<1>3. /\ bpc[p] = "have" /\ bpc' = [bpc EXCEPT ![p] = "changed"]
      /\ UNCHANGED <<lru, blockno, refcnt, valid, holder, pins, buf, disk, status, head, pc>>
    BY DEF Store, GoTo, vars
<1>4. /\ b \in Buf /\ n \in Block
      /\ \A c \in Buf \ {b} : blockno[c] # n
      /\ \A q \in Proc \ {p} : bpc[q] \in Holding => buf[q] # b
    BY <1>3, HoldsAlone DEF Holding
<1>5. CacheType'
    BY <1>1, <1>2, <1>3, <1>4 DEF CacheType
<1>6. /\ bpc'[p] = "changed" /\ \A q \in Proc \ {p} : bpc'[q] = bpc[q]
      /\ data'[b] = v /\ latest'[n] = v
      /\ \A c \in Buf \ {b} : data'[c] = data[c]
      /\ \A m \in Block \ {n} : latest'[m] = latest[m]
      /\ \A q \in Proc : Moved(q)' <=> Moved(q)
    BY <1>1, <1>2, <1>3, <1>4 DEF CacheType, Moved, InFlight
<1>7. CallsKept'
    BY <1>1, <1>3, <1>6 DEF CallsKept, Holding
<1>8. UsersFinite' /\ OneBuffer'
    BY <1>1, <1>3, RefsKept
<1>9. valid[b]
    BY <1>1, <1>3 DEF ValidCurrent
<1>10. ValidCurrent'
  <2>1. ASSUME NEW c \in Buf, blockno[c] \in Block
        PROVE  IF valid[c] THEN data'[c] = latest'[blockno[c]] ELSE disk[blockno[c]] = latest'[blockno[c]]
    <3>1. CASE c = b
        BY <1>6, <1>9, <3>1
    <3>2. CASE c # b
        BY <1>1, <1>4, <1>6, <2>1, <3>2 DEF ValidCurrent, Clean
    <3> QED
        BY <3>1, <3>2
  <2> QED
      BY <1>1, <1>3, <1>6, <1>9, <2>1 DEF ValidCurrent, Clean
<1>11. DirtyKept'
  <2>1. ASSUME NEW c \in Buf, blockno[c] \in Block, disk[blockno[c]] # latest'[blockno[c]]
        PROVE  pins[c] = 1 \/ \E q \in Proc : buf[q] = c /\ bpc'[q] \in {"changed", "write"}
    <3>1. CASE c = b
        BY <1>6, <3>1
    <3>2. CASE c # b
      <4>1. pins[c] = 1 \/ \E q \in Proc : buf[q] = c /\ bpc[q] \in {"changed", "write"}
          BY <1>1, <1>4, <1>6, <2>1, <3>2 DEF DirtyKept, Clean
      <4> QED
          BY <1>6, <3>2, <4>1
    <3> QED
        BY <3>1, <3>2
  <2>2. ASSUME NEW m \in Block, \A c \in Buf : blockno[c] # m PROVE disk[m] = latest'[m]
      BY <1>1, <1>4, <1>6, <2>2 DEF DirtyKept, Clean
  <2> QED
      BY <1>3, <2>1, <2>2 DEF DirtyKept, Clean
<1>12. RequestsDone'
  <2> SUFFICES ASSUME NEW q \in Proc
               PROVE  /\ bpc'[q] = "read" /\ Moved(q)' => data'[buf[q]] = disk[blockno[buf[q]]]
                      /\ bpc'[q] = "write" /\ Moved(q)' => data'[buf[q]] = disk[blockno[buf[q]]]
                      /\ bpc'[q] = "written" => disk[blockno[buf[q]]] = latest'[blockno[buf[q]]]
      BY <1>3 DEF RequestsDone, Clean
  <2>1. CASE q = p
      BY <1>6, <2>1
  <2>2. CASE q # p /\ bpc[q] \in {"read", "write", "written"}
    <3>1. buf[q] \in Buf \ {b} /\ blockno[buf[q]] \in Block \ {n}
        BY <1>1, <1>4, <2>2 DEF CallsKept, Holding
    <3> QED
        BY <1>1, <1>6, <2>2, <3>1 DEF RequestsDone, Clean
  <2> QED
      BY <1>6, <2>1, <2>2
<1> QED
    BY <1>5, <1>7, <1>8, <1>10, <1>11, <1>12 DEF CacheInv

LEMMA CacheBwrite ==
  ASSUME DriverInv, CacheInv, NEW p \in Proc, bwrite(p)
  PROVE  CacheInv'
<1>1. CacheType /\ CallsKept /\ UsersFinite /\ OneBuffer /\ ValidCurrent /\ DirtyKept /\ RequestsDone
    BY DEF CacheInv
<1>2. /\ bpc[p] \in {"have", "changed"} /\ bpc' = [bpc EXCEPT ![p] = "write"] /\ virtio_disk_rw(p)
      /\ UNCHANGED <<lru, blockno, refcnt, valid, data, holder, pins, buf, disk, latest>>
    BY DEF bwrite, GoTo
<1>3. /\ \A q \in Proc : Moved(q)' <=> Moved(q)
      /\ ~Moved(p) /\ pc'[p] # "idle" /\ pc[p] = "idle"
      /\ \A q \in Proc \ {p} : pc'[q] = pc[q]
    BY <1>2, MovedCall
<1>4. CacheType'
    BY <1>1, <1>2 DEF CacheType
<1>5. bpc'[p] = "write" /\ \A q \in Proc \ {p} : bpc'[q] = bpc[q]
    BY <1>1, <1>2 DEF CacheType
<1>6. CallsKept'
    BY <1>1, <1>2, <1>3, <1>5 DEF CallsKept, Holding
<1>7. UsersFinite' /\ OneBuffer'
    BY <1>1, <1>2, RefsKept
<1>8. ValidCurrent'
    BY <1>1, <1>2, <1>5 DEF ValidCurrent, Clean
<1>9. DirtyKept'
    BY <1>1, <1>2, <1>5 DEF DirtyKept, Clean
<1>10. RequestsDone'
    BY <1>1, <1>2, <1>3, <1>5 DEF RequestsDone, Clean
<1> QED
    BY <1>4, <1>6, <1>7, <1>8, <1>9, <1>10 DEF CacheInv

LEMMA CacheReturned ==
  ASSUME DriverInv, CacheInv, NEW p \in Proc, Returned(p)
  PROVE  CacheInv'
<1> DEFINE b == buf[p]
           n == blockno[buf[p]]
<1>1. CacheType /\ CallsKept /\ UsersFinite /\ OneBuffer /\ ValidCurrent /\ DirtyKept /\ RequestsDone
    BY DEF CacheInv
<1>2. Finish(p) /\ UNCHANGED <<lru, blockno, refcnt, data, holder, pins, buf, disk, latest>>
    BY DEF Returned
<1>3. /\ Moved(p) /\ pc[p] # "idle" /\ pc'[p] = "idle"
      /\ \A q \in Proc : Moved(q)' => Moved(q)
      /\ \A q \in Proc \ {p} : pc'[q] = "idle" <=> pc[q] = "idle"
    BY <1>2, MovedReturn
<1>4. bpc[p] \in {"read", "write"}
    BY <1>1, <1>3 DEF CallsKept
<1>5. /\ b \in Buf /\ n \in Block
      /\ \A c \in Buf \ {b} : blockno[c] # n
      /\ \A q \in Proc \ {p} : bpc[q] \in Holding => buf[q] # b
    BY <1>4, HoldsAlone DEF Holding
<1>6. data[b] = latest[n] /\ disk[n] = latest[n]
    BY <1>1, <1>3, <1>4, <1>5 DEF RequestsDone, ValidCurrent, Clean
<1>7. /\ bpc[p] = "read" => bpc' = [bpc EXCEPT ![p] = "have"] /\ valid' = [valid EXCEPT ![b] = TRUE]
      /\ bpc[p] = "write" => bpc' = [bpc EXCEPT ![p] = "written"] /\ valid' = valid
    BY DEF Returned, GoTo
<1>8. CacheType'
    BY <1>1, <1>2, <1>4, <1>5, <1>7 DEF CacheType
<1>9. /\ bpc[p] = "read" => bpc'[p] = "have"
      /\ bpc[p] = "write" => bpc'[p] = "written"
      /\ \A q \in Proc \ {p} : bpc'[q] = bpc[q]
      /\ valid'[b] /\ \A c \in Buf \ {b} : valid'[c] = valid[c]
  <2>1. CASE bpc[p] = "read"
      BY <1>1, <1>5, <1>7, <2>1 DEF CacheType
  <2>2. CASE bpc[p] = "write"
      BY <1>1, <1>5, <1>7, <2>2 DEF CacheType, ValidCurrent
  <2> QED
      BY <1>4, <2>1, <2>2
<1>10. CallsKept'
    BY <1>1, <1>2, <1>3, <1>4, <1>9 DEF CallsKept, Holding
<1>11. UsersFinite' /\ OneBuffer'
    BY <1>1, <1>2, RefsKept
<1>12. ValidCurrent'
  <2>1. ASSUME NEW c \in Buf, blockno[c] \in Block
        PROVE  IF valid'[c] THEN data[c] = latest[blockno[c]] ELSE disk[blockno[c]] = latest[blockno[c]]
    <3>1. CASE c = b
        BY <1>6, <1>9, <3>1
    <3>2. CASE c # b
        BY <1>1, <1>9, <2>1, <3>2 DEF ValidCurrent, Clean
    <3> QED
        BY <3>1, <3>2
  <2>2. ASSUME NEW q \in Proc
        PROVE  /\ bpc'[q] = "read" => ~valid'[buf[q]]
               /\ bpc'[q] \in {"have", "changed", "write", "written"} => valid'[buf[q]]
    <3>1. CASE q = p
        BY <1>4, <1>9, <3>1
    <3>2. CASE q # p
      <4>1. bpc[q] \in Holding => buf[q] \in Buf \ {b}
          BY <1>1, <1>5, <3>2 DEF CallsKept, Holding
      <4> QED
          BY <1>1, <1>9, <3>2, <4>1 DEF ValidCurrent, Holding
    <3> QED
        BY <3>1, <3>2
  <2> QED
      BY <1>2, <2>1, <2>2 DEF ValidCurrent, Clean
<1>13. DirtyKept'
  <2>1. ASSUME NEW c \in Buf, blockno[c] \in Block, disk[blockno[c]] # latest[blockno[c]]
        PROVE  pins[c] = 1 \/ \E q \in Proc : buf[q] = c /\ bpc'[q] \in {"changed", "write"}
    <3>1. c # b
        BY <1>6, <2>1
    <3>2. pins[c] = 1 \/ \E q \in Proc : buf[q] = c /\ bpc[q] \in {"changed", "write"}
        BY <1>1, <2>1 DEF DirtyKept, Clean
    <3> QED
        BY <1>9, <3>1, <3>2
  <2> QED
      BY <1>1, <1>2, <2>1 DEF DirtyKept, Clean
<1>14. RequestsDone'
    BY <1>1, <1>2, <1>3, <1>4, <1>6, <1>9 DEF RequestsDone, Clean
<1> QED
    BY <1>8, <1>10, <1>11, <1>12, <1>13, <1>14 DEF CacheInv

LEMMA CacheTransfer ==
  ASSUME DriverInv, CacheInv, NEW i \in Desc, Transfer(i)
  PROVE  CacheInv'
<1>1. CacheType /\ CallsKept /\ UsersFinite /\ OneBuffer /\ ValidCurrent /\ DirtyKept /\ RequestsDone
    BY DEF CacheInv
<1>2. DeviceTransfer(i) /\ pc' = pc
    BY DEF Transfer, DeviceTransfer
<1>3. PICK p \in Proc : /\ addr[next[i]] = p /\ pc[p] # "idle"
                        /\ \A q \in Proc \ {p} : Moved(q)' => Moved(q)
    BY <1>2, MovedTransfer
<1> DEFINE b == buf[p]
           n == blockno[buf[p]]
<1>4. bpc[p] \in {"read", "write"}
    BY <1>1, <1>3 DEF CallsKept
<1>5. /\ b \in Buf /\ n \in Block
      /\ \A c \in Buf \ {b} : blockno[c] # n
      /\ \A q \in Proc \ {p} : bpc[q] \in Holding => buf[q] # b
    BY <1>4, HoldsAlone DEF Holding
<1>6. /\ bpc[p] = "write" => disk' = [disk EXCEPT ![n] = data[b]] /\ data' = data
      /\ bpc[p] = "read" => data' = [data EXCEPT ![b] = disk[n]] /\ disk' = disk
      /\ UNCHANGED <<lru, blockno, refcnt, valid, holder, pins, bpc, buf, latest>>
    BY <1>3, <1>4 DEF Transfer
<1>7. CacheType'
  <2>1. CASE bpc[p] = "read"
      BY <1>1, <1>5, <1>6, <2>1 DEF CacheType
  <2>2. CASE bpc[p] = "write"
      BY <1>1, <1>5, <1>6, <2>2 DEF CacheType
  <2> QED
      BY <1>4, <2>1, <2>2
<1>8. /\ data'[b] = disk'[n]
      /\ \A c \in Buf \ {b} : data'[c] = data[c]
      /\ \A m \in Block \ {n} : disk'[m] = disk[m]
      /\ bpc[p] = "write" => data'[b] = data[b]
      /\ bpc[p] = "read" => disk'[n] = disk[n]
  <2>1. CASE bpc[p] = "read"
      BY <1>1, <1>5, <1>6, <2>1 DEF CacheType
  <2>2. CASE bpc[p] = "write"
      BY <1>1, <1>5, <1>6, <2>2 DEF CacheType
  <2> QED
      BY <1>4, <2>1, <2>2
<1>9. disk'[n] = latest[n]
    BY <1>1, <1>4, <1>5, <1>8 DEF ValidCurrent, Clean
<1>10. CallsKept'
    BY <1>1, <1>2, <1>6 DEF CallsKept
<1>11. UsersFinite' /\ OneBuffer'
    BY <1>1, <1>6, RefsKept
<1>12. ValidCurrent'
  <2>1. ASSUME NEW c \in Buf, blockno[c] \in Block
        PROVE  IF valid[c] THEN data'[c] = latest[blockno[c]] ELSE disk'[blockno[c]] = latest[blockno[c]]
    <3>1. CASE c = b
        BY <1>8, <1>9, <3>1
    <3>2. CASE c # b
        BY <1>1, <1>5, <1>8, <2>1, <3>2 DEF ValidCurrent, Clean
    <3> QED
        BY <3>1, <3>2
  <2> QED
      BY <1>1, <1>6, <2>1 DEF ValidCurrent, Clean
<1>13. DirtyKept'
  <2>1. \A m \in Block : disk'[m] # latest[m] => disk[m] # latest[m]
      BY <1>8, <1>9
  <2> QED
      BY <1>1, <1>6, <2>1 DEF DirtyKept, Clean
<1>14. RequestsDone'
  <2> SUFFICES ASSUME NEW q \in Proc
               PROVE  /\ bpc[q] = "read" /\ Moved(q)' => data'[buf[q]] = disk'[blockno[buf[q]]]
                      /\ bpc[q] = "write" /\ Moved(q)' => data'[buf[q]] = disk'[blockno[buf[q]]]
                      /\ bpc[q] = "written" => disk'[blockno[buf[q]]] = latest[blockno[buf[q]]]
      BY <1>6 DEF RequestsDone, Clean
  <2>1. CASE q = p
      BY <1>4, <1>8, <2>1
  <2>2. CASE q # p /\ bpc[q] \in {"read", "write", "written"}
    <3>1. buf[q] \in Buf \ {b} /\ blockno[buf[q]] \in Block \ {n}
        BY <1>1, <1>5, <2>2 DEF CallsKept, Holding
    <3> QED
        BY <1>1, <1>3, <1>8, <2>2, <3>1 DEF RequestsDone, Clean
  <2> QED
      BY <2>1, <2>2
<1> QED
    BY <1>7, <1>10, <1>11, <1>12, <1>13, <1>14 DEF CacheInv

LEMMA CacheBpin ==
  ASSUME DriverInv, CacheInv, NEW p \in Proc, bpin(p) \/ bunpin(p)
  PROVE  CacheInv'
<1> DEFINE b == buf[p]
<1>1. CacheType /\ CallsKept /\ UsersFinite /\ OneBuffer /\ ValidCurrent /\ DirtyKept /\ RequestsDone
    BY DEF CacheInv
<1>2. UNCHANGED <<lru, blockno, valid, data, holder, buf, disk, latest, status, head, pc>>
    BY DEF bpin, bunpin, vars
<1>3. bpc[p] \in {"changed", "written"}
    BY DEF bpin, bunpin
<1>4. b \in Buf /\ blockno[b] \in Block /\ \A q \in Proc \ {p} : bpc[q] \in Holding => buf[q] # b
    BY <1>3, HoldsAlone DEF Holding
<1>5. PICK x \in {0, 1}, l \in {"have", "written"} :
        /\ pins' = [pins EXCEPT ![b] = x]
        /\ refcnt' = [refcnt EXCEPT ![b] = (@ + x) - pins[b]]
        /\ bpc' = [bpc EXCEPT ![p] = l]
        /\ l = "have" => bpc[p] = "changed" /\ x = 1
        /\ l = "written" => bpc[p] = "written" /\ x = 0
  <2>1. /\ refcnt[b] \in Nat /\ pins[b] \in {0, 1}
        /\ bpc \in [Proc -> {"idle", "lock", "read", "have", "changed", "write", "written", "release"}]
      BY <1>1, <1>4 DEF CacheType
  <2>2. CASE bpin(p)
    <3>1. (refcnt[b] + 1) - pins[b] = refcnt[b] + 1 - pins[b]
        BY <2>1
    <3> QED
        BY <2>2, <3>1 DEF bpin, GoTo
  <2>3. CASE bunpin(p)
    <3>1. refcnt[b] - 1 = (refcnt[b] + 0) - pins[b] /\ bpc = [bpc EXCEPT ![p] = "written"]
        BY <2>1, <2>3 DEF bunpin
    <3>2. pins' = [pins EXCEPT ![b] = 0] /\ refcnt' = [refcnt EXCEPT ![b] = (@ + 0) - pins[b]]
        BY <2>3, <3>1 DEF bunpin
    <3> QED
        BY <2>3, <3>1, <3>2 DEF bunpin
  <2> QED
      BY <2>2, <2>3
<1>6. \A c \in Buf : refcnt[c] = Cardinality(Users(c)) + pins[c] /\ Cardinality(Users(c)) \in Nat
  <2>1. \A c \in Buf : IsFiniteSet(Users(c))
      BY <1>1 DEF UsersFinite
  <2> QED
      BY <1>1, <2>1, FS_CardinalityType DEF OneBuffer, Users
<1>7. /\ pins'[b] = x /\ refcnt'[b] = Cardinality(Users(b)) + x
      /\ \A c \in Buf \ {b} : pins'[c] = pins[c] /\ refcnt'[c] = refcnt[c]
      /\ bpc'[p] = l /\ \A q \in Proc \ {p} : bpc'[q] = bpc[q]
      /\ \A q \in Proc : Moved(q)' <=> Moved(q)
  <2>1. pins[b] \in {0, 1} /\ refcnt'[b] = (refcnt[b] + x) - pins[b] /\ pins'[b] = x
      BY <1>1, <1>4, <1>5 DEF CacheType
  <2>2. refcnt'[b] = Cardinality(Users(b)) + x
      BY <1>4, <1>6, <2>1
  <2>3. /\ \A c \in Buf \ {b} : pins'[c] = pins[c] /\ refcnt'[c] = refcnt[c]
        /\ bpc'[p] = l /\ \A q \in Proc \ {p} : bpc'[q] = bpc[q]
      BY <1>1, <1>5 DEF CacheType
  <2> QED
      BY <1>2, <2>1, <2>2, <2>3 DEF Moved, InFlight
<1>8. CacheType'
  <2>1. refcnt' \in [Buf -> Nat]
    <3>1. Cardinality(Users(b)) + x \in Nat
        BY <1>4, <1>6
    <3>3. \A c \in Buf : refcnt[c] \in Nat
        BY <1>1 DEF CacheType
    <3>2. \A c \in Buf : refcnt'[c] \in Nat
        BY <1>7, <3>1, <3>3
    <3> QED
        BY <1>1, <1>5, <3>2 DEF CacheType
  <2> QED
      BY <1>1, <1>2, <1>5, <2>1 DEF CacheType
<1>9. CallsKept'
    BY <1>1, <1>2, <1>3, <1>5, <1>7 DEF CallsKept, Holding
<1>10. UsersFinite' /\ OneBuffer'
  <2>1. \A c \in Buf : Users(c)' = Users(c)
      BY <1>2 DEF Users
  <2>2. \A c \in Buf : refcnt'[c] = Cardinality(Users(c)') + pins'[c]
      BY <1>6, <1>7, <2>1
  <2> QED
      BY <1>1, <1>2, <2>1, <2>2 DEF UsersFinite, OneBuffer, Users
<1>11. ValidCurrent'
    BY <1>1, <1>2, <1>3, <1>7 DEF ValidCurrent, Clean
<1>12. DirtyKept'
  <2>1. ASSUME NEW c \in Buf, blockno[c] \in Block, ~Clean(blockno[c])
        PROVE  pins'[c] = 1 \/ \E q \in Proc : buf[q] = c /\ bpc'[q] \in {"changed", "write"}
    <3>1. pins[c] = 1 \/ \E q \in Proc : buf[q] = c /\ bpc[q] \in {"changed", "write"}
        BY <1>1, <2>1 DEF DirtyKept
    <3>2. CASE c = b
        BY <1>1, <1>5, <1>7, <2>1, <3>2 DEF RequestsDone
    <3>3. CASE c # b
        BY <1>7, <3>1, <3>3
    <3> QED
        BY <3>2, <3>3
  <2> QED
      BY <1>1, <1>2, <2>1 DEF DirtyKept, Clean
<1>13. RequestsDone'
    BY <1>1, <1>2, <1>5, <1>7 DEF RequestsDone, Clean
<1> QED
    BY <1>8, <1>9, <1>10, <1>11, <1>12, <1>13 DEF CacheInv

LEMMA CacheBrelse ==
  ASSUME DriverInv, CacheInv, NEW p \in Proc, brelse(p)
  PROVE  CacheInv'
<1> DEFINE b == buf[p]
<1>1. CacheType /\ CallsKept /\ UsersFinite /\ OneBuffer /\ ValidCurrent /\ DirtyKept /\ RequestsDone
    BY DEF CacheInv
<1>2. /\ bpc[p] \in {"have", "written"} /\ holder' = [holder EXCEPT ![b] = NoProc]
      /\ bpc' = [bpc EXCEPT ![p] = "release"]
      /\ UNCHANGED <<lru, blockno, refcnt, valid, data, pins, buf, disk, latest, status, head, pc>>
    BY DEF brelse, GoTo, vars
<1>3. b \in Buf /\ \A q \in Proc \ {p} : bpc[q] \in Holding => buf[q] # b
    BY <1>2, HoldsAlone DEF Holding
<1>4. CacheType'
    BY <1>1, <1>2 DEF CacheType
<1>5. /\ bpc'[p] = "release" /\ \A q \in Proc \ {p} : bpc'[q] = bpc[q]
      /\ \A c \in Buf \ {b} : holder'[c] = holder[c]
      /\ \A q \in Proc : Moved(q)' <=> Moved(q)
    BY <1>1, <1>2, <1>3 DEF CacheType, Moved, InFlight
<1>6. CallsKept'
  <2> SUFFICES ASSUME NEW q \in Proc
               PROVE  /\ buf[q] \in Buf <=> bpc'[q] # "idle"
                      /\ bpc'[q] # "idle" => blockno[buf[q]] \in Block
                      /\ pc[q] # "idle" <=> bpc'[q] \in {"read", "write"}
                      /\ bpc'[q] \in Holding => holder'[buf[q]] = q
      BY <1>2 DEF CallsKept
  <2>1. CASE q = p
      BY <1>1, <1>2, <1>5, <2>1 DEF CallsKept, Holding
  <2>2. CASE q # p
    <3>1. bpc[q] \in Holding => buf[q] \in Buf \ {b}
        BY <1>1, <1>3, <2>2 DEF CallsKept, Holding
    <3> QED
        BY <1>1, <1>5, <2>2, <3>1 DEF CallsKept
  <2> QED
      BY <2>1, <2>2
<1>7. UsersFinite' /\ OneBuffer'
    BY <1>1, <1>2, RefsKept
<1>8. ValidCurrent' /\ RequestsDone'
    BY <1>1, <1>2, <1>5 DEF ValidCurrent, RequestsDone, Clean
<1>9. DirtyKept'
    BY <1>1, <1>2, <1>5 DEF DirtyKept, Clean
<1> QED
    BY <1>4, <1>6, <1>7, <1>8, <1>9 DEF CacheInv

LEMMA CacheUnref ==
  ASSUME DriverInv, CacheInv, NEW p \in Proc, Unref(p)
  PROVE  CacheInv'
<1>1. CacheType /\ CallsKept /\ UsersFinite /\ OneBuffer /\ ValidCurrent /\ DirtyKept /\ RequestsDone
    BY DEF CacheInv
<1>3. PICK b \in Buf : b = buf[p]
    BY <1>1 DEF CallsKept, Unref
<1>2. /\ bpc[p] = "release" /\ refcnt' = [refcnt EXCEPT ![b] = @ - 1]
      /\ buf' = [buf EXCEPT ![p] = NoBuf] /\ bpc' = [bpc EXCEPT ![p] = "idle"]
      /\ lru' = IF refcnt[b] = 1 THEN ToFront(lru, CHOOSE i \in 1 .. Len(lru) : lru[i] = b) ELSE lru
      /\ UNCHANGED <<blockno, valid, data, holder, pins, disk, latest, status, head, pc>>
    BY <1>3 DEF Unref, GoTo, vars
<1>4. lru' \in Seq(Buf) /\ (\A c \in Buf : \E i \in 1 .. Len(lru') : lru'[i] = c)
  <2>1. PICK j \in 1 .. Len(lru) : j = CHOOSE i \in 1 .. Len(lru) : lru[i] = b
      BY <1>1, <1>3 DEF CacheType
  <2>2. lru \in Seq(Buf) /\ (\A c \in Buf : \E i \in 1 .. Len(lru) : lru[i] = c)
      BY <1>1 DEF CacheType
  <2>3. /\ ToFront(lru, j) \in Seq(Buf)
        /\ \A m \in 1 .. Len(lru) : \E k \in 1 .. Len(ToFront(lru, j)) : ToFront(lru, j)[k] = lru[m]
      BY <2>2, ToFrontKeeps
  <2>4. CASE lru' = ToFront(lru, j)
    <3> DEFINE t == ToFront(lru, j)
    <3> HIDE DEF t
    <3>1. t \in Seq(Buf) /\ \A m \in 1 .. Len(lru) : \E k \in 1 .. Len(t) : t[k] = lru[m]
        BY <2>3 DEF t
    <3>2. \A c \in Buf : \E k \in 1 .. Len(t) : t[k] = c
        BY <2>2, <3>1
    <3> QED
        BY <2>4, <3>1, <3>2 DEF t
  <2>5. CASE lru' = lru
      BY <2>2, <2>5
  <2> QED
      BY <1>2, <2>1, <2>4, <2>5
<1>5. /\ UsersFinite'
      /\ Cardinality(Users(b)') = Cardinality(Users(b)) - 1
      /\ Cardinality(Users(b)) \in Nat /\ Cardinality(Users(b)) > 0
      /\ \A c \in Buf \ {b} : Users(c)' = Users(c)
    BY <1>1, <1>2, <1>3, RefDropped
<1>6. \A c \in Buf : refcnt[c] = Cardinality(Users(c)) + pins[c]
    BY <1>1 DEF OneBuffer, Users
<1>7. /\ refcnt'[b] = Cardinality(Users(b)') + pins[b] /\ refcnt'[b] \in Nat
      /\ \A c \in Buf \ {b} : refcnt'[c] = refcnt[c]
  <2>1. refcnt'[b] = refcnt[b] - 1 /\ \A c \in Buf \ {b} : refcnt'[c] = refcnt[c]
      BY <1>1, <1>2, <1>3 DEF CacheType
  <2>2. pins[b] \in {0, 1}
      BY <1>1, <1>3 DEF CacheType
  <2> QED
      BY <1>3, <1>5, <1>6, <2>1, <2>2
<1>8. CacheType'
  <2>1. refcnt' \in [Buf -> Nat]
      BY <1>1, <1>2, <1>7 DEF CacheType
  <2> QED
      BY <1>1, <1>2, <1>4, <2>1 DEF CacheType
<1>9. /\ buf'[p] = NoBuf /\ bpc'[p] = "idle"
      /\ \A q \in Proc \ {p} : buf'[q] = buf[q] /\ bpc'[q] = bpc[q]
      /\ \A q \in Proc : Moved(q)' <=> Moved(q)
    BY <1>1, <1>2 DEF CacheType, Moved, InFlight
<1>10. CallsKept'
    BY <1>1, <1>2, <1>9, BcacheAssumption DEF CallsKept, Holding
<1>11. OneBuffer'
  <2>1. ASSUME NEW c \in Buf PROVE refcnt'[c] = Cardinality(Users(c)') + pins'[c]
    <3>1. CASE c = b
        BY <1>2, <1>7, <3>1
    <3>2. CASE c # b
        BY <1>2, <1>5, <1>6, <1>7, <3>2
    <3> QED
        BY <3>1, <3>2
  <2> QED
      BY <1>1, <1>2, <2>1 DEF OneBuffer, Users
<1>12. ValidCurrent' /\ RequestsDone'
    BY <1>1, <1>2, <1>9 DEF ValidCurrent, RequestsDone, Clean
<1>13. DirtyKept'
    BY <1>1, <1>2, <1>9 DEF DirtyKept, Clean
<1> QED
    BY <1>5, <1>8, <1>10, <1>11, <1>12, <1>13 DEF CacheInv

LEMMA CacheInductive == CacheSpec => [](DriverInv /\ CacheInv)
<1>1. CacheInit => DriverInv /\ CacheInv
    BY DriverInit, CacheInitInv DEF CacheInit
<1>2. DriverInv /\ CacheInv /\ [CacheNext]_allVars => (DriverInv /\ CacheInv)'
  <2> SUFFICES ASSUME DriverInv, CacheInv, [CacheNext]_allVars PROVE CacheInv'
      BY CacheDrives, DriverStep
  <2>1. CASE UNCHANGED allVars
      BY <2>1, CacheUnchanged DEF allVars
  <2>2. ASSUME NEW p \in Proc, NEW n \in Block, NoBuffers(p, n) PROVE CacheInv'
    <3>1. /\ UNCHANGED <<lru, blockno, refcnt, valid, data, holder, pins, bpc, buf, disk, latest>>
          /\ UNCHANGED <<status, head, pc>>
        BY <2>2 DEF NoBuffers, vars
    <3>2. CacheType' /\ UsersFinite' /\ OneBuffer' /\ ValidCurrent' /\ DirtyKept'
        BY <3>1 DEF CacheInv, CacheType, UsersFinite, OneBuffer, Users, ValidCurrent, DirtyKept, Clean
    <3>3. CallsKept' /\ RequestsDone'
        BY <3>1 DEF CacheInv, CallsKept, RequestsDone, Clean, Moved, InFlight
    <3> QED
        BY <3>2, <3>3 DEF CacheInv
  <2>3. ASSUME NEW p \in Proc, CacheStep(p) \/ Store(p) \/ bwrite(p) \/ bpin(p) \/ bunpin(p)
        PROVE  CacheInv'
      BY <2>3, CacheLockBuf, CacheReturned, CacheBrelse, CacheUnref, CacheStore, CacheBwrite, CacheBpin
      DEF CacheStep
  <2> QED
      BY <2>1, <2>2, <2>3, CacheHit, CacheRecycle, CacheTransfer, CacheDisk DEF CacheNext
<1> QED
    BY <1>1, <1>2, PTL DEF CacheSpec

\* A block is in one buffer at most, and refcnt counts the calls and the pins of a
\* buffer (bget(), brelse(), bpin(), bunpin()), for any number of processes,
\* buffers and blocks.
THEOREM CacheOneBuffer == CacheSpec => []OneBuffer
<1>1. CacheInv => OneBuffer
    BY DEF CacheInv
<1> QED
    BY <1>1, CacheInductive, PTL

\* From the return of bread() to brelse(), the buffer holds what was stored in the
\* block last: no recycling and no order of the disk's requests loses a change.
THEOREM CacheCoherentReads == CacheSpec => []CoherentReads
<1>1. CacheInv => CoherentReads
  <2> SUFFICES ASSUME CacheInv, NEW p \in Proc, bpc[p] \in {"have", "changed", "write", "written"}
               PROVE  data[buf[p]] = latest[blockno[buf[p]]]
      BY DEF CoherentReads
  <2>1. buf[p] \in Buf /\ blockno[buf[p]] \in Block
      BY HoldsAlone
  <2> QED
      BY <2>1 DEF CacheInv, ValidCurrent
<1> QED
    BY <1>1, CacheInductive, PTL
=============================================================================
