------------------------------- MODULE Inodes -------------------------------
(***************************************************************************)
(* The inode table, directories, path names and the system calls on them   *)
(* (kernel/fs.c, kernel/sysfile.c), with the open files that hold inodes   *)
(* (kernel/file.c) and the inode that exec() reads (kernel/exec.c).        *)
(*                                                                         *)
(* A step is what a process does from taking an inode's sleep-lock to      *)
(* giving it up, or to taking the next one; iput() has the steps at which  *)
(* itable.lock and the sleep-lock change hands.  A table entry is named by *)
(* its inode number: iget() never has two for one number.  What a file     *)
(* holds is the subject of Blocks; here a directory is a function from     *)
(* names to inode numbers, 0 where the entry is free, and a write to it    *)
(* may fail for want of a block.  A process is in a transaction            *)
(* whenever it is in a call that reaches begin_op().                       *)
(***************************************************************************)
EXTENDS Naturals, Sequences, FiniteSets

CONSTANTS
  Proc, NoProc,
  First,       \* the process that runs when the model starts
  NInode,      \* inodes 1 .. NInode; 1 is the root directory
  NFILE, NOFILE,
  Name,        \* the names programs use, without ".."
  Requests     \* the calls on path names each process makes: records [call, path, new]

ASSUME InodesAssumption ==
  /\ First \in Proc /\ NoProc \notin Proc
  /\ NInode \in Nat \ {0} /\ NFILE \in Nat \ {0} /\ NOFILE \in Nat \ {0}
  /\ IsFiniteSet(Proc) /\ IsFiniteSet(Name)
  /\ Name \cap {"/", ".."} = {}

VARIABLES
  dinode,   \* the inodes on disk: type and nlink
  dir,      \* the entries of the directories
  itable,   \* the table in memory: ref, valid, lock, type, nlink
  file,     \* ftable: ref and ip
  ofile,    \* the open files of the processes
  cwd,      \* their current directories, 0 for a process that does not exist
  th,       \* where each process is in its call
  lost      \* auxiliary: entries that vanished with the directory they were in

inodeVars == <<dinode, dir, itable, file, ofile, cwd, th, lost>>

ROOTINO == 1
Inode == 1 .. NInode
File == 1 .. NFILE
Fd == 0 .. NOFILE - 1
Entry == Name \cup {".."}
Type == {"none", "dir", "file", "dev"}
PathCall == {"open", "openw", "creat", "mkdir", "mknod", "unlink", "link", "chdir", "exec"}
ParentCall == {"creat", "mkdir", "mknod", "unlink"}
Pc == {"user", "walk", "got", "parent", "exists", "create", "open", "dropip", "dropdp",
       "unlink", "unlinked", "linkbad", "put", "trunc", "freed", "unref", "exit"}

\* A path is names with "/" before them or not.  Programs that walk through ".."
\* can meet an inode that is free (see the README).
ASSUME RequestsAssumption ==
  \A p \in Proc : \A r \in Requests[p] :
    /\ r.call \in PathCall
    /\ \A s \in {r.path, r.new} :
         s \in Seq(Name \cup {"/"}) /\ (s # <<>> => Tail(s) \in Seq(Name))

NoCall == [call |-> "none", path |-> <<>>, new |-> <<>>]
Idle == [pc |-> "user", req |-> NoCall, path |-> <<>>, at |-> 0, ip |-> 0, drop |-> 0,
         then |-> "user"]
NoEntries == [n \in Entry |-> 0]
Dinode(type, nlink) == [type |-> type, nlink |-> nlink]

InodeTypeOK ==
  /\ dinode \in [Inode -> [type : Type, nlink : Nat]]
  /\ dir \in [Inode -> [Entry -> Inode \cup {0}]]
  /\ itable \in [Inode -> [ref : Nat, valid : BOOLEAN, lock : Proc \cup {NoProc},
                           type : Type, nlink : Nat]]
  /\ file \in [File -> [ref : Nat, ip : Inode \cup {0}]]
  /\ ofile \in [Proc -> [Fd -> File \cup {0}]]
  /\ cwd \in [Proc -> Inode \cup {0}]
  /\ th \in [Proc -> [pc : Pc, req : (UNION {Requests[q] : q \in Proc}) \cup {NoCall},
                      path : Seq(Entry \cup {"/"}),
                      at : Inode \cup {0}, ip : Inode \cup {0}, drop : Inode \cup {0},
                      then : Pc]]
  /\ lost \in [Inode -> Nat]

\* The disk that mkfs leaves: a root directory that is its own parent.
InodeInit ==
  /\ dinode = [i \in Inode |-> IF i = ROOTINO THEN Dinode("dir", 1) ELSE Dinode("none", 0)]
  /\ dir = [i \in Inode |-> IF i = ROOTINO THEN [NoEntries EXCEPT ![".."] = ROOTINO]
                                           ELSE NoEntries]
  /\ itable = [i \in Inode |-> [ref |-> IF i = ROOTINO THEN 1 ELSE 0, valid |-> FALSE,
                                lock |-> NoProc, type |-> "none", nlink |-> 0]]
  /\ file = [f \in File |-> [ref |-> 0, ip |-> 0]]
  /\ ofile = [p \in Proc |-> [d \in Fd |-> 0]]
  /\ cwd = [p \in Proc |-> IF p = First THEN ROOTINO ELSE 0]
  /\ th = [p \in Proc |-> Idle]
  /\ lost = [i \in Inode |-> 0]

-----------------------------------------------------------------------------
(* iget() on the table tab: an entry nobody refers to is recycled, and     *)
(* what it held is forgotten; another one gains a reference, as in idup(). *)
iget(tab, i) ==
  [tab EXCEPT ![i].ref = @ + 1, ![i].valid = @ /\ tab[i].ref > 0]

\* Entry i as ilock() leaves it, read from the disk unless it is valid.
ilock(i) ==
  IF itable[i].valid THEN itable[i]
  ELSE [itable[i] EXCEPT !.valid = TRUE, !.type = dinode[i].type, !.nlink = dinode[i].nlink]

Unlocked(i) == itable[i].lock = NoProc

\* The disk's inode i after iupdate() of the entry e.
iupdate(e) == Dinode(e.type, e.nlink)

\* ialloc(): the first inode that is free on disk.
FreeInodes == {i \in Inode : dinode[i].type = "none"}
ialloc == CHOOSE i \in FreeInodes : \A j \in FreeInodes : i <= j

filealloc == CHOOSE f \in File : file[f].ref = 0 /\ \A g \in 1 .. f - 1 : file[g].ref > 0
fdalloc(p) == CHOOSE d \in Fd : ofile[p][d] = 0 /\ \A e \in 0 .. d - 1 : ofile[p][e] # 0

isdirempty(i) == \A n \in Name : dir[i][n] = 0

\* Where namex() starts for a path, and what is left of the path then.
WalkFrom(p, path) == IF path # <<>> /\ Head(path) = "/" THEN ROOTINO ELSE cwd[p]
WalkPath(path) == IF path # <<>> /\ Head(path) = "/" THEN Tail(path) ELSE path

\* The process goes on at pc; or it drops i first and goes on at pc then.
GoesTo(p, pc) == th' = [th EXCEPT ![p].pc = pc]
After(t, i, pc) == [t EXCEPT !.pc = "put", !.drop = i, !.then = pc]

\* link() looks for a second path once it has the inode of the first in ip.
Second(p) == th[p].req.call = "link" /\ th[p].ip # 0
nameiparent(p) == th[p].req.call \in ParentCall \/ Second(p)
Failed(p) == IF Second(p) THEN "linkbad" ELSE "user"

-----------------------------------------------------------------------------
(* namex()                                                                 *)

\* A call on a path begins: begin_op(), and the reference namex() starts from.
Start(p, r) ==
  /\ th[p].pc = "user" /\ cwd[p] # 0
  /\ LET i == WalkFrom(p, r.path) IN
       /\ itable' = iget(itable, i)
       /\ th' = [th EXCEPT ![p] = [Idle EXCEPT !.pc = "walk", !.req = r,
                                               !.path = WalkPath(r.path), !.at = i]]
  /\ UNCHANGED <<dinode, dir, file, ofile, cwd, lost>>

\* One turn of the loop of namex(): lock the directory and look the next
\* element up.
Walk(p) ==
  LET t == th[p]
      i == t.at
      e == ilock(i)
      next == dir[i][Head(t.path)] IN
  /\ t.pc = "walk" /\ t.path # <<>> /\ Unlocked(i)
  /\ \/ /\ e.type = "dir" /\ nameiparent(p) /\ Len(t.path) = 1
        /\ itable' = [itable EXCEPT ![i] = e]
        /\ GoesTo(p, "parent")
     \/ /\ e.type = "dir" /\ ~ (nameiparent(p) /\ Len(t.path) = 1) /\ next # 0
        /\ itable' = iget([itable EXCEPT ![i] = e], next)
        /\ th' = [th EXCEPT ![p] = After([t EXCEPT !.at = next, !.path = Tail(t.path)],
                                         i, "walk")]
     \/ /\ e.type # "dir" \/ (next = 0 /\ ~ (nameiparent(p) /\ Len(t.path) = 1))
        /\ itable' = [itable EXCEPT ![i] = e]
        /\ th' = [th EXCEPT ![p] = After([t EXCEPT !.at = 0], i, Failed(p))]
  /\ UNCHANGED <<dinode, dir, file, ofile, cwd, lost>>

\* No element is left: namei() has its inode, and nameiparent() fails.
WalkEnd(p) ==
  /\ th[p].pc = "walk" /\ th[p].path = <<>>
  /\ IF nameiparent(p)
     THEN th' = [th EXCEPT ![p] = After([@ EXCEPT !.at = 0], th[p].at, Failed(p))]
     ELSE GoesTo(p, "got")
  /\ UNCHANGED <<dinode, dir, itable, file, ofile, cwd, lost>>

-----------------------------------------------------------------------------
(* iput()                                                                  *)

\* A mutant of LastOfUnlinked: iput() forgets that others may hold the inode.
UnlinkedOnly(i) == itable[i].valid /\ itable[i].nlink = 0

\* Under itable.lock: the last reference to an inode without links also takes
\* the sleep-lock, to free the inode; otherwise the reference is given up.
LastOfUnlinked(i) == itable[i].ref = 1 /\ itable[i].valid /\ itable[i].nlink = 0

Dropped(t) == IF t.then = "user" THEN Idle ELSE [t EXCEPT !.pc = t.then, !.drop = 0]

Put(p) ==
  LET i == th[p].drop IN
  /\ th[p].pc = "put"
  /\ IF LastOfUnlinked(i)
     THEN /\ Unlocked(i)
          /\ itable' = [itable EXCEPT ![i].lock = p]
          /\ GoesTo(p, "trunc")
     ELSE /\ itable' = [itable EXCEPT ![i].ref = @ - 1]
          /\ th' = [th EXCEPT ![p] = Dropped(@)]
  /\ UNCHANGED <<dinode, dir, file, ofile, cwd, lost>>

\* itrunc(), type = 0, iupdate(): the inode is free on disk.
Trunc(p) ==
  LET i == th[p].drop IN
  /\ th[p].pc = "trunc"
  /\ itable' = [itable EXCEPT ![i].type = "none"]
  /\ dinode' = [dinode EXCEPT ![i] = Dinode("none", 0)]
  /\ dir' = [dir EXCEPT ![i] = NoEntries]
  /\ lost' = [j \in Inode |-> lost[j] + Cardinality({n \in Name : dir[i][n] = j})]
  /\ GoesTo(p, "freed")
  /\ UNCHANGED <<file, ofile, cwd>>

\* valid = 0, releasesleep()
Freed(p) ==
  /\ th[p].pc = "freed"
  /\ itable' = [itable EXCEPT ![th[p].drop].valid = FALSE, ![th[p].drop].lock = NoProc]
  /\ GoesTo(p, "unref")
  /\ UNCHANGED <<dinode, dir, file, ofile, cwd, lost>>

\* itable.lock again, and ref--
Unref(p) ==
  /\ th[p].pc = "unref"
  /\ itable' = [itable EXCEPT ![th[p].drop].ref = @ - 1]
  /\ th' = [th EXCEPT ![p] = Dropped(@)]
  /\ UNCHANGED <<dinode, dir, file, ofile, cwd, lost>>

\* iunlockput() of the inode that create() returned, or of dp when a call gives
\* up.
DropIp(p) ==
  /\ th[p].pc = "dropip"
  /\ itable' = [itable EXCEPT ![th[p].ip].lock = IF @ = p THEN NoProc ELSE @]
  /\ th' = [th EXCEPT ![p] = After([@ EXCEPT !.ip = 0], th[p].ip, "user")]
  /\ UNCHANGED <<dinode, dir, file, ofile, cwd, lost>>

DropDp(p) ==
  /\ th[p].pc = "dropdp"
  /\ itable' = [itable EXCEPT ![th[p].at].lock = NoProc]
  /\ th' = [th EXCEPT ![p] = After([@ EXCEPT !.at = 0], th[p].at, "user")]
  /\ UNCHANGED <<dinode, dir, file, ofile, cwd, lost>>

-----------------------------------------------------------------------------
(* create(), called by open() with O_CREATE, mkdir() and mknod()           *)

Creates(p) == th[p].req.call \in ParentCall \ {"unlink"}
NewType(p) == CASE th[p].req.call = "mkdir" -> "dir"
                [] th[p].req.call = "mknod" -> "dev"
                [] OTHER -> "file"
name(p) == Head(th[p].path)

\* The parent is locked.  The name exists: let go of the parent and look at the
\* inode; it does not: take a free inode if there is one, and keep the parent
\* locked.
Create(p) ==
  LET dp == th[p].at
      e == ilock(dp)
      ip == dir[dp][name(p)] IN
  /\ th[p].pc = "parent" /\ Creates(p) /\ Unlocked(dp)
  /\ \/ /\ ip # 0
        /\ itable' = iget([itable EXCEPT ![dp] = e], ip)
        /\ th' = [th EXCEPT ![p] = After([@ EXCEPT !.at = ip], dp, "exists")]
        /\ UNCHANGED dinode
     \/ /\ ip = 0 /\ FreeInodes = {}
        /\ itable' = [itable EXCEPT ![dp] = e]
        /\ th' = [th EXCEPT ![p] = After([@ EXCEPT !.at = 0], dp, "user")]
        /\ UNCHANGED dinode
     \/ /\ ip = 0 /\ FreeInodes # {}
        /\ dinode' = [dinode EXCEPT ![ialloc] = Dinode(NewType(p), 0)]
        /\ itable' = iget([itable EXCEPT ![dp] = [e EXCEPT !.lock = p]], ialloc)
        /\ th' = [th EXCEPT ![p].pc = "create", ![p].ip = ialloc]
  /\ UNCHANGED <<dir, file, ofile, cwd, lost>>

\* A mutant of CreateExists: the inode that is not accepted is not put.
CreateExistsKeepsRef(p) ==
  LET ip == th[p].at
      e == ilock(ip) IN
  /\ th[p].pc = "exists" /\ Unlocked(ip)
  /\ IF NewType(p) = "file" /\ e.type \in {"file", "dev"}
     THEN /\ itable' = [itable EXCEPT ![ip] = [e EXCEPT !.lock = p]]
          /\ GoesTo(p, "open")
     ELSE /\ itable' = [itable EXCEPT ![ip] = e]
          /\ th' = [th EXCEPT ![p] = Idle]
  /\ UNCHANGED <<dinode, dir, file, ofile, cwd, lost>>

\* The inode the name has: only open() accepts it, and only if it is no
\* directory.
CreateExists(p) ==
  LET ip == th[p].at
      e == ilock(ip) IN
  /\ th[p].pc = "exists" /\ Unlocked(ip)
  /\ IF NewType(p) = "file" /\ e.type \in {"file", "dev"}
     THEN /\ itable' = [itable EXCEPT ![ip] = [e EXCEPT !.lock = p]]
          /\ GoesTo(p, "open")
     ELSE /\ itable' = [itable EXCEPT ![ip] = e]
          /\ th' = [th EXCEPT ![p] = After([@ EXCEPT !.at = 0], ip, "user")]
  /\ UNCHANGED <<dinode, dir, file, ofile, cwd, lost>>

\* The new inode gets its link, the entries of a directory and its own entry in
\* the parent, whose link count grows by the ".." of a directory.
CreateLink(p) ==
  LET dp == th[p].at
      ip == th[p].ip
      e == [ilock(ip) EXCEPT !.nlink = 1, !.lock = p]
      isdir == NewType(p) = "dir"
      d == [itable[dp] EXCEPT !.nlink = IF isdir THEN @ + 1 ELSE @, !.lock = NoProc] IN
  /\ th[p].pc = "create" /\ Unlocked(ip)
  /\ itable' = [itable EXCEPT ![ip] = e, ![dp] = d]
  /\ dinode' = [dinode EXCEPT ![ip] = iupdate(e), ![dp] = iupdate(d)]
  /\ dir' = [dir EXCEPT ![ip][".."] = IF isdir THEN dp ELSE 0, ![dp][name(p)] = ip]
  /\ th' = [th EXCEPT ![p] = IF NewType(p) = "file"
                             THEN After([@ EXCEPT !.at = ip, !.ip = 0], dp, "open")
                             ELSE After([@ EXCEPT !.at = 0], dp, "dropip")]
  /\ UNCHANGED <<file, ofile, cwd, lost>>

\* A dirlink() fails: the new inode loses its link and is put, the parent after
\* it.
CreateFail(p) ==
  LET ip == th[p].ip
      e == [ilock(ip) EXCEPT !.nlink = 0] IN
  /\ th[p].pc = "create" /\ Unlocked(ip)
  /\ itable' = [itable EXCEPT ![ip] = e]
  /\ dinode' = [dinode EXCEPT ![ip] = iupdate(e)]
  /\ th' = [th EXCEPT ![p] = After([@ EXCEPT !.ip = 0], ip, "dropdp")]
  /\ UNCHANGED <<dir, file, ofile, cwd, lost>>

-----------------------------------------------------------------------------
(* open()                                                                  *)

\* A mutant of OpenLock: a directory opened for writing is put and stays
\* locked.
OpenLockKeepsLock(p) ==
  LET ip == th[p].at
      e == [ilock(ip) EXCEPT !.lock = p] IN
  /\ th[p].pc = "got" /\ th[p].req.call \in {"open", "openw"} /\ Unlocked(ip)
  /\ itable' = [itable EXCEPT ![ip] = e]
  /\ IF e.type = "dir" /\ th[p].req.call = "openw"
     THEN th' = [th EXCEPT ![p] = After([@ EXCEPT !.at = 0], ip, "user")]
     ELSE GoesTo(p, "open")
  /\ UNCHANGED <<dinode, dir, file, ofile, cwd, lost>>

\* Without O_CREATE a directory can only be opened for reading.
OpenLock(p) ==
  LET ip == th[p].at
      e == ilock(ip) IN
  /\ th[p].pc = "got" /\ th[p].req.call \in {"open", "openw"} /\ Unlocked(ip)
  /\ IF e.type = "dir" /\ th[p].req.call = "openw"
     THEN /\ itable' = [itable EXCEPT ![ip] = e]
          /\ th' = [th EXCEPT ![p] = After([@ EXCEPT !.at = 0], ip, "user")]
     ELSE /\ itable' = [itable EXCEPT ![ip] = [e EXCEPT !.lock = p]]
          /\ GoesTo(p, "open")
  /\ UNCHANGED <<dinode, dir, file, ofile, cwd, lost>>

\* The locked inode becomes an open file, if a file and a descriptor are free.
OpenFile(p) ==
  LET ip == th[p].at IN
  /\ th[p].pc = "open"
  /\ itable' = [itable EXCEPT ![ip].lock = NoProc]
  /\ IF (\E f \in File : file[f].ref = 0) /\ (\E d \in Fd : ofile[p][d] = 0)
     THEN /\ file' = [file EXCEPT ![filealloc] = [ref |-> 1, ip |-> ip]]
          /\ ofile' = [ofile EXCEPT ![p][fdalloc(p)] = filealloc]
          /\ th' = [th EXCEPT ![p] = Idle]
     ELSE /\ th' = [th EXCEPT ![p] = After([@ EXCEPT !.at = 0], ip, "user")]
          /\ UNCHANGED <<file, ofile>>
  /\ UNCHANGED <<dinode, dir, cwd, lost>>

-----------------------------------------------------------------------------
(* unlink()                                                                *)

\* The parent is locked and stays so if the name has an inode.
Unlink(p) ==
  LET dp == th[p].at
      e == ilock(dp)
      ip == dir[dp][name(p)] IN
  /\ th[p].pc = "parent" /\ th[p].req.call = "unlink" /\ Unlocked(dp)
  /\ IF name(p) = ".." \/ ip = 0
     THEN /\ itable' = [itable EXCEPT ![dp] = e]
          /\ th' = [th EXCEPT ![p] = After([@ EXCEPT !.at = 0], dp, "user")]
     ELSE /\ itable' = iget([itable EXCEPT ![dp] = [e EXCEPT !.lock = p]], ip)
          /\ th' = [th EXCEPT ![p].pc = "unlink", ![p].ip = ip]
  /\ UNCHANGED <<dinode, dir, file, ofile, cwd, lost>>

\* The inode is locked too: a directory must be empty.  The entry goes, and
\* with it the link that a directory's ".." is to the parent, which is put
\* before the inode.
UnlinkEntry(p) ==
  LET dp == th[p].at
      ip == th[p].ip
      e == ilock(ip)
      d == [itable[dp] EXCEPT !.nlink = IF e.type = "dir" THEN @ - 1 ELSE @,
                              !.lock = NoProc] IN
  /\ th[p].pc = "unlink" /\ Unlocked(ip)
  /\ IF e.type = "dir" /\ ~ isdirempty(ip)
     THEN /\ itable' = [itable EXCEPT ![ip] = e]
          /\ th' = [th EXCEPT ![p] = After([@ EXCEPT !.ip = 0], ip, "dropdp")]
          /\ UNCHANGED <<dinode, dir>>
     ELSE /\ itable' = [itable EXCEPT ![ip] = [e EXCEPT !.lock = p], ![dp] = d]
          /\ dinode' = [dinode EXCEPT ![dp] = iupdate(d)]
          /\ dir' = [dir EXCEPT ![dp][name(p)] = 0]
          /\ th' = [th EXCEPT ![p] = After([@ EXCEPT !.at = 0], dp, "unlinked")]
  /\ UNCHANGED <<file, ofile, cwd, lost>>

\* The inode loses its link and is put.
Unlinked(p) ==
  LET ip == th[p].ip
      e == [itable[ip] EXCEPT !.nlink = @ - 1, !.lock = NoProc] IN
  /\ th[p].pc = "unlinked"
  /\ itable' = [itable EXCEPT ![ip] = e]
  /\ dinode' = [dinode EXCEPT ![ip] = iupdate(e)]
  /\ th' = [th EXCEPT ![p] = After([@ EXCEPT !.ip = 0], ip, "user")]
  /\ UNCHANGED <<dir, file, ofile, cwd, lost>>

-----------------------------------------------------------------------------
(* link()                                                                  *)

\* The old inode counts the new link before there is one, and is unlocked while
\* the parent of the new name is looked for.
Link(p) ==
  LET ip == th[p].at
      e == ilock(ip)
      up == [e EXCEPT !.nlink = @ + 1]
      new == th[p].req.new IN
  /\ th[p].pc = "got" /\ th[p].req.call = "link" /\ Unlocked(ip)
  /\ IF e.type = "dir"
     THEN /\ itable' = [itable EXCEPT ![ip] = e]
          /\ th' = [th EXCEPT ![p] = After([@ EXCEPT !.at = 0], ip, "user")]
          /\ UNCHANGED dinode
     ELSE /\ itable' = iget([itable EXCEPT ![ip] = up], WalkFrom(p, new))
          /\ dinode' = [dinode EXCEPT ![ip] = iupdate(up)]
          /\ th' = [th EXCEPT ![p].pc = "walk", ![p].ip = ip, ![p].at = WalkFrom(p, new),
                              ![p].path = WalkPath(new)]
  /\ UNCHANGED <<dir, file, ofile, cwd, lost>>

\* A mutant of LinkBad: the link that was counted in advance is not taken back.
LinkBadKeeps(p) ==
  LET ip == th[p].ip IN
  /\ th[p].pc = "linkbad" /\ Unlocked(ip)
  /\ itable' = [itable EXCEPT ![ip] = ilock(ip)]
  /\ th' = [th EXCEPT ![p] = After([@ EXCEPT !.ip = 0], ip, "user")]
  /\ UNCHANGED <<dinode, dir, file, ofile, cwd, lost>>

\* dirlink() in the parent; it fails if the name exists or no block is left.
LinkEntry(p) ==
  LET dp == th[p].at
      e == ilock(dp) IN
  /\ th[p].pc = "parent" /\ Second(p) /\ Unlocked(dp)
  /\ itable' = [itable EXCEPT ![dp] = e]
  /\ \/ /\ dir[dp][name(p)] = 0
        /\ dir' = [dir EXCEPT ![dp][name(p)] = th[p].ip]
        /\ th' = [th EXCEPT ![p] = After([@ EXCEPT !.at = 0], dp, "dropip")]
     \/ /\ th' = [th EXCEPT ![p] = After([@ EXCEPT !.at = 0], dp, "linkbad")]
        /\ UNCHANGED dir
  /\ UNCHANGED <<dinode, file, ofile, cwd, lost>>

\* The new name could not be made: the link is taken back.
LinkBad(p) ==
  LET ip == th[p].ip
      e == [ilock(ip) EXCEPT !.nlink = @ - 1] IN
  /\ th[p].pc = "linkbad" /\ Unlocked(ip)
  /\ itable' = [itable EXCEPT ![ip] = e]
  /\ dinode' = [dinode EXCEPT ![ip] = iupdate(e)]
  /\ th' = [th EXCEPT ![p] = After([@ EXCEPT !.ip = 0], ip, "user")]
  /\ UNCHANGED <<dir, file, ofile, cwd, lost>>

-----------------------------------------------------------------------------
(* chdir() and exec()                                                      *)

\* The old directory is put.  The code assigns cwd after that; only p reads it.
Chdir(p) ==
  LET ip == th[p].at
      e == ilock(ip)
      ok == e.type = "dir" IN
  /\ th[p].pc = "got" /\ th[p].req.call = "chdir" /\ Unlocked(ip)
  /\ itable' = [itable EXCEPT ![ip] = e]
  /\ cwd' = [cwd EXCEPT ![p] = IF ok THEN ip ELSE @]
  /\ th' = [th EXCEPT ![p] = After([@ EXCEPT !.at = 0], IF ok THEN cwd[p] ELSE ip, "user")]
  /\ UNCHANGED <<dinode, dir, file, ofile, lost>>

\* exec() reads the program, or fails to, and puts the inode.
Exec(p) ==
  LET ip == th[p].at IN
  /\ th[p].pc = "got" /\ th[p].req.call = "exec" /\ Unlocked(ip)
  /\ itable' = [itable EXCEPT ![ip] = ilock(ip)]
  /\ th' = [th EXCEPT ![p] = After([@ EXCEPT !.at = 0], ip, "user")]
  /\ UNCHANGED <<dinode, dir, file, ofile, cwd, lost>>

-----------------------------------------------------------------------------
(* Open files: dup(), close(), fork(), exit()                              *)

Dup(p, d) ==
  LET f == ofile[p][d] IN
  /\ th[p].pc = "user" /\ f # 0 /\ \E e \in Fd : ofile[p][e] = 0
  /\ ofile' = [ofile EXCEPT ![p][fdalloc(p)] = f]
  /\ file' = [file EXCEPT ![f].ref = @ + 1]
  /\ UNCHANGED <<dinode, dir, itable, cwd, th, lost>>

\* fileclose() of descriptor d: the last reference to the file puts its inode.
fileclose(p, d, pc) ==
  LET f == ofile[p][d] IN
  /\ ofile' = [ofile EXCEPT ![p][d] = 0]
  /\ IF file[f].ref > 1
     THEN /\ file' = [file EXCEPT ![f].ref = @ - 1]
          /\ GoesTo(p, pc)
     ELSE /\ file' = [file EXCEPT ![f] = [ref |-> 0, ip |-> 0]]
          /\ th' = [th EXCEPT ![p] = After(@, file[f].ip, pc)]

Close(p, d) ==
  /\ th[p].pc = "user" /\ ofile[p][d] # 0
  /\ fileclose(p, d, "user")
  /\ UNCHANGED <<dinode, dir, itable, cwd, lost>>

Fork(p, q) ==
  /\ th[p].pc = "user" /\ cwd[p] # 0
  /\ cwd[q] = 0 /\ th[q].pc = "user"
  /\ ofile' = [ofile EXCEPT ![q] = ofile[p]]
  /\ file' = [f \in File |-> [file[f] EXCEPT
                !.ref = @ + Cardinality({d \in Fd : ofile[p][d] = f})]]
  /\ cwd' = [cwd EXCEPT ![q] = cwd[p]]
  /\ itable' = iget(itable, cwd[p])
  /\ UNCHANGED <<dinode, dir, th, lost>>

\* exit() closes the files in turn and puts the current directory.
Exit(p) ==
  /\ \/ th[p].pc = "user" /\ cwd[p] # 0 /\ p # First
     \/ th[p].pc = "exit"
  /\ \/ \E d \in Fd : /\ ofile[p][d] # 0 /\ \A e \in 0 .. d - 1 : ofile[p][e] = 0
                      /\ fileclose(p, d, "exit")
                      /\ UNCHANGED cwd
     \/ /\ \A d \in Fd : ofile[p][d] = 0
        /\ th' = [th EXCEPT ![p] = After(@, cwd[p], "user")]
        /\ cwd' = [cwd EXCEPT ![p] = 0]
        /\ UNCHANGED <<file, ofile>>
  /\ UNCHANGED <<dinode, dir, itable, lost>>

-----------------------------------------------------------------------------
Step(p) ==
  \/ Walk(p) \/ WalkEnd(p)
  \/ Put(p) \/ Trunc(p) \/ Freed(p) \/ Unref(p) \/ DropIp(p) \/ DropDp(p)
  \/ Create(p) \/ CreateExists(p) \/ CreateLink(p) \/ CreateFail(p)
  \/ OpenLock(p) \/ OpenFile(p)
  \/ Unlink(p) \/ UnlinkEntry(p) \/ Unlinked(p)
  \/ Link(p) \/ LinkEntry(p) \/ LinkBad(p)
  \/ Chdir(p) \/ Exec(p)

InodeNext ==
  \E p \in Proc :
    \/ Step(p) \/ Exit(p)
    \/ \E r \in Requests[p] : Start(p, r)
    \/ \E d \in Fd : Dup(p, d) \/ Close(p, d)
    \/ \E q \in Proc : Fork(p, q)

InodeSpec == InodeInit /\ [][InodeNext]_inodeVars

-----------------------------------------------------------------------------
(* Properties                                                              *)

Quiet == \A p \in Proc : th[p].pc = "user"

NameEntries(i) == {x \in Inode \X Name : dir[x[1]][x[2]] = i}

\* The directories whose ".." is a link to i: those that have a name.
Subdirs(i) == {d \in Inode \ {ROOTINO} : dir[d][".."] = i /\ NameEntries(d) # {}}

\* Between calls, the link count of every inode is the number of entries that
\* name it, the ".." of its named subdirectories included (fs.c's and
\* sysfile.c's nlink++ and nlink--, in memory and on disk, over all the ways a
\* call can fail), and no name leads to a free inode.
TreeConsistent ==
  Quiet => \A i \in Inode :
    /\ dinode[i].nlink = Cardinality(NameEntries(i)) + Cardinality(Subdirs(i)) + lost[i]
                           + (IF i = ROOTINO THEN 1 ELSE 0)
    /\ NameEntries(i) # {} => dinode[i].type # "none"

\* ip->ref counts the current directories, the open files and the pointers that
\* calls in progress hold, on every error path: an entry is recycled only when
\* nobody uses it.
Pointers(i) ==
  Cardinality({p \in Proc : cwd[p] = i}) + Cardinality({f \in File : file[f].ip = i})
    + Cardinality({p \in Proc : th[p].at = i}) + Cardinality({p \in Proc : th[p].ip = i})
    + Cardinality({p \in Proc : th[p].drop = i})
RefCounts ==
  /\ \A i \in Inode : itable[i].ref = Pointers(i)
  /\ \A f \in File :
       file[f].ref = Cardinality({x \in Proc \X Fd : ofile[x[1]][x[2]] = f})

\* An inode that a process can still reach through a pointer is allocated, and
\* what the table holds of it is what the disk holds: ilock() never panics with
\* "no type", and iput() decides on the true link count, though it frees an
\* inode outside itable.lock.
Held(i) ==
  \/ \E p \in Proc : cwd[p] = i \/ th[p].at = i \/ th[p].ip = i
  \/ \E f \in File : file[f].ip = i
ReferencedCurrent ==
  \A i \in Inode : Held(i) =>
    /\ dinode[i].type # "none"
    /\ itable[i].valid /\ Unlocked(i) => Dinode(itable[i].type, itable[i].nlink) = dinode[i]

\* "ip->ref == 1 means no other process can have ip locked, so this
\* acquiresleep() won't block" (fs.c:344), and a lock is held only by a process
\* that is in a call and is not itself waiting for a process that waits:
\* unlink() and create() hold two locks.
Wants(p) ==
  CASE th[p].pc \in {"walk", "parent", "got", "exists"} -> th[p].at
    [] th[p].pc \in {"create", "unlink", "linkbad"} -> th[p].ip
    [] th[p].pc = "put" /\ LastOfUnlinked(th[p].drop) -> th[p].drop
    [] OTHER -> 0
Holder(p) == IF Wants(p) = 0 THEN NoProc ELSE itable[Wants(p)].lock
NeverStuck ==
  /\ \A p \in Proc : th[p].pc = "put" => Holder(p) = NoProc
  /\ \A i \in Inode : itable[i].lock # NoProc => th[itable[i].lock].pc # "user"
  /\ \A S \in SUBSET Proc : S # {} => \E p \in S : Holder(p) \notin S

\* "If that was the last reference and the inode has no links to it, free the
\* inode" (fs.c:332): between calls an inode without links is open or
\* somebody's directory.
UnlinkedFreed ==
  Quiet => \A i \in Inode :
    dinode[i].type # "none" /\ dinode[i].nlink = 0 => itable[i].ref > 0
=============================================================================
