----------------------------- MODULE ProcessLock -----------------------------
(***************************************************************************)
(* org.core.common.util.ProcessLock: a read/write lock by name, made of a  *)
(* map of the locks each process holds (LOCK_MAP, also its monitor) and of *)
(* an operating system lock on a file that is created and deleted on the   *)
(* way.  The module describes one lock name, hence one file.               *)
(*                                                                         *)
(* The monitor lets one thread of a process into tryLock or release at a   *)
(* time: inside[p] is that thread's frame.  Each step in a frame makes one *)
(* system call, so the processes interleave at every call.                 *)
(*                                                                         *)
(* Outside src/: file locks are POSIX record locks, one per process and    *)
(* inode, dropped when the process closes any descriptor of the inode.     *)
(* SharedTable says which java.nio runs: TRUE for one that refuses any     *)
(* second lock of the virtual machine on the same file with                *)
(* OverlappingFileLockException, FALSE for one that only looks at the      *)
(* locks of the same channel.                                              *)
(***************************************************************************)
EXTENDS Naturals, FiniteSets

CONSTANTS Procs,        \* the processes of the application
          Clients,      \* ProcessLock objects: who asks for the lock
          Home,         \* Home[c]: the process of client c
          Inodes,       \* bound: files that can exist at once
          None,         \* no file, no client
          SharedTable   \* see above

ASSUME LockAssumption ==
    /\ Home \in [Clients -> Procs]
    /\ None \notin Inodes \cup Clients
    /\ SharedTable \in BOOLEAN

Mode == {"none", "read", "write"}

At == {"idle", "exists", "create", "open", "lock", "refused", "unlock"}

VARIABLES up,       \* up[p]: process p runs and has initialised the class
          path,     \* the inode the lock file's name leads to, or None
          os,       \* os[i][p]: the record lock of process p on inode i
          lock,     \* lock[c]: the ProcessLock object of c
          lockMap,  \* lockMap[p]: the objects in LOCK_MAP of p
          inside    \* inside[p]: the frame of the thread in p's monitor

vars == <<up, path, os, lock, lockMap, inside>>

NoLock == [valid |-> FALSE, write |-> FALSE, inode |-> None]

Frame(at, c, w) == [at |-> at, client |-> c, write |-> w, inode |-> None]

Idle == Frame("idle", None, FALSE)

\* Mutant: the flag is taken for the mode.
ModeOfFlag(write) == IF write THEN "exclusive" ELSE "shared"

\* The third argument of channel.tryLock, shared, is !writeMode.
ModeOf(write) == IF write THEN "write" ELSE "read"

Init ==
    /\ up = [p \in Procs |-> FALSE]
    /\ path = None
    /\ os = [i \in Inodes |-> [p \in Procs |-> "none"]]
    /\ lock = [c \in Clients |-> NoLock]
    /\ lockMap = [p \in Procs |-> {}]
    /\ inside = [p \in Procs |-> Idle]

\* An inode nothing refers to any more.
Unused(i) ==
    /\ path # i
    /\ \A c \in Clients : lock[c].inode # i
    /\ \A p \in Procs : inside[p].inode # i

Goto(p, from, to) ==
    /\ inside[p].at = from
    /\ inside' = [inside EXCEPT ![p].at = to]

GotoWith(p, from, to, i) ==
    /\ inside[p].at = from
    /\ inside' = [inside EXCEPT ![p] = [@ EXCEPT !.at = to, !.inode = i]]

-----------------------------------------------------------------------------
(* tryLockInternal                                                         *)

\* Mutant: a reader is let in beside a writer.
ConflictWriteOnly(p, write) == \E d \in lockMap[p] : lock[d].valid /\ write

\* Some valid entry of the map excludes the new lock.
Conflict(p, write) == \E d \in lockMap[p] : lock[d].valid /\ (write \/ lock[d].write)

\* Entries that are no longer valid are removed on the way.
TryLock(c, write) ==
    LET p == Home[c]
    IN /\ up[p]
       /\ inside[p].at = "idle"
       /\ ~lock[c].valid
       /\ c \notin lockMap[p]
       /\ IF Conflict(p, write)
          THEN /\ inside' = [inside EXCEPT ![p] = Frame("refused", c, write)]
               /\ UNCHANGED lockMap
          ELSE /\ inside' = [inside EXCEPT ![p] = Frame("exists", c, write)]
               /\ lockMap' = [lockMap EXCEPT ![p] = {d \in @ : lock[d].valid}]
       /\ UNCHANGED <<up, path, os, lock>>

Exists(p) ==
    /\ Goto(p, "exists", IF path = None THEN "create" ELSE "open")
    /\ UNCHANGED <<up, path, os, lock, lockMap>>

\* createNewFile() answers false when the file is there by now, and it may throw
\* (the directory is gone, too, after the static initialiser of a process).
Create(p) ==
    /\ \/ /\ path = None
          /\ Goto(p, "create", "open")
          /\ path' \in {i \in Inodes : Unused(i)}
       \/ /\ Goto(p, "create", "refused")
          /\ UNCHANGED path
    /\ UNCHANGED <<up, os, lock, lockMap>>

\* A FileOutputStream creates a file that is gone, a FileInputStream throws;
\* and either may throw because no descriptor or directory is left.
Open(p) ==
    /\ \/ /\ path # None
          /\ GotoWith(p, "open", "lock", path)
          /\ UNCHANGED path
       \/ /\ path = None
          /\ inside[p].write
          /\ path' \in {i \in Inodes : Unused(i)}
          /\ GotoWith(p, "open", "lock", path')
       \/ /\ Goto(p, "open", "refused")
          /\ UNCHANGED path
    /\ UNCHANGED <<up, os, lock, lockMap>>

Overlaps(p, i) ==
    SharedTable /\ \E d \in Clients : Home[d] = p /\ lock[d].valid /\ lock[d].inode = i

OsConflict(p, i, m) ==
    \E q \in Procs \ {p} : os[i][q] = "write" \/ (m = "write" /\ os[i][q] = "read")

SetOs(i, p, m) == os' = [os EXCEPT ![i][p] = m]

\* Mutant: the new lock is not entered into the map.
OsLockUnmapped(p) ==
    LET c == inside[p].client
        i == inside[p].inode
        w == inside[p].write
    IN /\ inside[p].at = "lock"
       /\ IF Overlaps(p, i) \/ OsConflict(p, i, ModeOf(w))
          THEN /\ SetOs(i, p, "none")
               /\ GotoWith(p, "lock", "refused", None)
               /\ UNCHANGED lock
          ELSE /\ SetOs(i, p, ModeOf(w))
               /\ lock' = [lock EXCEPT ![c] = [valid |-> TRUE, write |-> w, inode |-> i]]
               /\ inside' = [inside EXCEPT ![p] = Idle]
       /\ UNCHANGED <<up, path, lockMap>>

\* channel.tryLock: it throws, answers null, or locks.  Either failure closes
\* the stream, and with it every record lock of the process on the inode.
OsLock(p) ==
    LET c == inside[p].client
        i == inside[p].inode
        w == inside[p].write
    IN /\ inside[p].at = "lock"
       /\ IF Overlaps(p, i) \/ OsConflict(p, i, ModeOf(w))
          THEN /\ SetOs(i, p, "none")
               /\ GotoWith(p, "lock", "refused", None)
               /\ UNCHANGED <<lock, lockMap>>
          ELSE /\ SetOs(i, p, ModeOf(w))
               /\ lock' = [lock EXCEPT ![c] = [valid |-> TRUE, write |-> w, inode |-> i]]
               /\ lockMap' = [lockMap EXCEPT ![p] = @ \cup {c}]
               /\ inside' = [inside EXCEPT ![p] = Idle]
       /\ UNCHANGED <<up, path>>

ReturnNull(p) ==
    /\ inside[p].at = "refused"
    /\ inside' = [inside EXCEPT ![p] = Idle]
    /\ UNCHANGED <<up, path, os, lock, lockMap>>

-----------------------------------------------------------------------------
(* release, called by release(), by close() and again by finalize()        *)

\* The file is deleted when the process has no other lock of the name.
Release(c) ==
    LET p == Home[c]
    IN /\ up[p]
       /\ inside[p].at = "idle"
       /\ lock[c].inode # None
       /\ lockMap' = [lockMap EXCEPT ![p] = @ \ {c}]
       /\ path' = IF lockMap'[p] = {} THEN None ELSE path
       /\ inside' = [inside EXCEPT ![p] = Frame("unlock", c, FALSE)]
       /\ UNCHANGED <<up, os, lock>>

\* Mutant: the stream and the file lock are left to the garbage collector.
UnlockForgotten(p) ==
    /\ Goto(p, "unlock", "idle")
    /\ lock' = [lock EXCEPT ![inside[p].client].valid = FALSE]
    /\ UNCHANGED <<up, path, os, lockMap>>

\* Release the file lock, if its channel is still open, and close the stream.
\* The descriptor number of an object already released is not closed again.
Unlock(p) ==
    LET c == inside[p].client
    IN /\ inside[p].at = "unlock"
       /\ inside' = [inside EXCEPT ![p] = Idle]
       /\ IF lock[c].valid
          THEN /\ lock' = [lock EXCEPT ![c].valid = FALSE]
               /\ SetOs(lock[c].inode, p, "none")
          ELSE UNCHANGED <<lock, os>>
       /\ UNCHANGED <<up, path, lockMap>>

\* A released object that nobody refers to is collected.
Forget(c) ==
    /\ lock[c].inode # None
    /\ ~lock[c].valid
    /\ c \notin lockMap[Home[c]]
    /\ inside[Home[c]].client # c
    /\ lock' = [lock EXCEPT ![c] = NoLock]
    /\ UNCHANGED <<up, path, os, lockMap, inside>>

-----------------------------------------------------------------------------
(* A process starts and initialises the class; it is killed.               *)

\* The static initialiser deletes the directory of the lock files.
Start(p) ==
    /\ ~up[p]
    /\ up' = [up EXCEPT ![p] = TRUE]
    /\ path' = None
    /\ UNCHANGED <<os, lock, lockMap, inside>>

Crash(p) ==
    /\ up[p]
    /\ up' = [up EXCEPT ![p] = FALSE]
    /\ os' = [i \in Inodes |-> [os[i] EXCEPT ![p] = "none"]]
    /\ lock' = [c \in Clients |-> IF Home[c] = p THEN NoLock ELSE lock[c]]
    /\ lockMap' = [lockMap EXCEPT ![p] = {}]
    /\ inside' = [inside EXCEPT ![p] = Idle]
    /\ UNCHANGED path

InsideStep(p) ==
    \/ Exists(p) \/ Create(p) \/ Open(p) \/ OsLock(p) \/ ReturnNull(p) \/ Unlock(p)

Next ==
    \/ \E c \in Clients, write \in BOOLEAN : TryLock(c, write)
    \/ \E c \in Clients : Release(c) \/ Forget(c)
    \/ \E p \in Procs : InsideStep(p) \/ Start(p) \/ Crash(p)

Spec == Init /\ [][Next]_vars

-----------------------------------------------------------------------------
\* Every variable keeps its type.
TypeOK ==
    /\ up \in [Procs -> BOOLEAN]
    /\ path \in Inodes \cup {None}
    /\ os \in [Inodes -> [Procs -> Mode]]
    /\ lock \in [Clients -> [valid : BOOLEAN, write : BOOLEAN, inode : Inodes \cup {None}]]
    /\ lockMap \in [Procs -> SUBSET Clients]
    /\ inside \in [Procs -> [at : At, client : Clients \cup {None}, write : BOOLEAN,
                              inode : Inodes \cup {None}]]

\* A client has the lock from the return of tryLock to its call of release.
Holding(c) ==
    /\ lock[c].valid
    /\ ~(inside[Home[c]].at = "unlock" /\ inside[Home[c]].client = c)

\* Inside one process a writer holds the lock alone, whatever the file system
\* and the other processes do (the check of LOCK_MAP under its monitor).
InProcessExclusion ==
    \A c, d \in Clients :
        (c # d /\ Home[c] = Home[d] /\ Holding(c) /\ Holding(d)) => ~lock[c].write

\* LOCK_MAP lists exactly the locks that are held: no entry outlives its lock
\* and blocks the name, none is missing.
MapExact ==
    \A p \in Procs : lockMap[p] = {c \in Clients : Home[c] = p /\ Holding(c)}

\* No record lock stays behind without a ProcessLock that can still release
\* it, on any path through tryLock, release, their failures and crashes.
NoLeakedLock ==
    \A i \in Inodes, p \in Procs :
        os[i][p] # "none" => \E c \in Clients :
            Home[c] = p /\ lock[c].valid /\ lock[c].inode = i

\* The lock between processes the class promises: a writer is alone.
CrossProcessExclusion ==
    \A c, d \in Clients : (c # d /\ Holding(c) /\ Holding(d)) => ~lock[c].write

\* The inductive invariant behind the two: entries are held locks of their
\* process, every held lock is an entry, entries share only as readers, and
\* the frame in the monitor belongs to a client of the process ...
EntriesHeld == \A p \in Procs : \A c \in lockMap[p] : Home[c] = p /\ lock[c].valid

ValidMapped ==
    \A c \in Clients :
        lock[c].valid =>
            \/ c \in lockMap[Home[c]]
            \/ inside[Home[c]].at = "unlock" /\ inside[Home[c]].client = c

EntriesCompatible ==
    \A p \in Procs : \A c, d \in lockMap[p] : c # d => ~lock[c].write

FrameOwner ==
    \A p \in Procs :
        inside[p].at # "idle" =>
            /\ inside[p].client \in Clients
            /\ Home[inside[p].client] = p
            /\ inside[p].client \notin lockMap[p]

\* ... and what tryLock found in the map stays true until it has the lock.
FrameFree ==
    \A p \in Procs :
        inside[p].at \in {"exists", "create", "open", "lock"} =>
            /\ ~Conflict(p, inside[p].write)
            /\ ~lock[inside[p].client].valid

LockInv == EntriesHeld /\ ValidMapped /\ EntriesCompatible /\ FrameOwner /\ FrameFree

\* In each process the class implements a read/write lock, as Download uses it.
RW == INSTANCE RWLock
        WITH mode <- [c \in Clients |-> IF Holding(c) THEN ModeOf(lock[c].write) ELSE "none"]

ImplementsRWLock == RW!Spec
=============================================================================
