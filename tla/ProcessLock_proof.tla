-------------------------- MODULE ProcessLock_proof --------------------------
(***************************************************************************)
(* Proofs about ProcessLock for any processes, clients and inodes and      *)
(* either file-lock table: its types, the exclusion inside a process, and  *)
(* that it implements RWLock in each process.                              *)
(***************************************************************************)
EXTENDS ProcessLock, TLAPS

\* The record sets of TypeOK.
LockRec == [valid : BOOLEAN, write : BOOLEAN, inode : Inodes \cup {None}]

FrameRec == [at : At, client : Clients \cup {None}, write : BOOLEAN,
             inode : Inodes \cup {None}]

\* A frame that moves on stays a frame.
LEMMA GotoType ==
    ASSUME inside \in [Procs -> FrameRec], NEW p \in Procs, NEW from, NEW to \in At,
           Goto(p, from, to)
    PROVE  inside' \in [Procs -> FrameRec]
<1>1. inside[p] \in FrameRec
  OBVIOUS
<1>2. [inside[p] EXCEPT !.at = to] \in FrameRec
  BY <1>1 DEF FrameRec
<1>3. inside' = [inside EXCEPT ![p] = [inside[p] EXCEPT !.at = to]]
  BY DEF Goto
<1> QED
  BY <1>2, <1>3

LEMMA GotoWithType ==
    ASSUME inside \in [Procs -> FrameRec], NEW p \in Procs, NEW from, NEW to \in At,
           NEW i \in Inodes \cup {None}, GotoWith(p, from, to, i)
    PROVE  inside' \in [Procs -> FrameRec]
<1>1. inside[p] \in FrameRec
  OBVIOUS
<1>2. [inside[p] EXCEPT !.at = to, !.inode = i] \in FrameRec
  BY <1>1 DEF FrameRec
<1>3. inside' = [inside EXCEPT ![p] = [inside[p] EXCEPT !.at = to, !.inode = i]]
  BY DEF GotoWith
<1> QED
  BY <1>2, <1>3

\* It keeps its client and mode, and the other frames stay as they are.
LEMMA GotoKeeps ==
    ASSUME inside \in [Procs -> FrameRec], NEW p \in Procs, NEW from, NEW to, NEW i,
           Goto(p, from, to) \/ GotoWith(p, from, to, i)
    PROVE  /\ inside[p].at = from
           /\ inside'[p].at = to
           /\ inside'[p].client = inside[p].client
           /\ inside'[p].write = inside[p].write
           /\ \A q \in Procs \ {p} : inside'[q] = inside[q]
<1>1. inside[p] \in FrameRec
  OBVIOUS
<1>2. CASE Goto(p, from, to)
  <2>1. inside' = [inside EXCEPT ![p] = [inside[p] EXCEPT !.at = to]] /\ inside[p].at = from
    BY <1>2 DEF Goto
  <2> QED
    BY <1>1, <2>1 DEF FrameRec
<1>3. CASE GotoWith(p, from, to, i)
  <2>1. /\ inside' = [inside EXCEPT ![p] = [inside[p] EXCEPT !.at = to, !.inode = i]]
        /\ inside[p].at = from
    BY <1>3 DEF GotoWith
  <2> QED
    BY <1>1, <2>1 DEF FrameRec
<1> QED
  BY <1>2, <1>3

\* The record locks keep their type when one of them changes.
LEMMA SetOsType ==
    ASSUME os \in [Inodes -> [Procs -> Mode]], NEW i, NEW p \in Procs,
           NEW m \in Mode, SetOs(i, p, m)
    PROVE  os' \in [Inodes -> [Procs -> Mode]]
  BY DEF SetOs

\* Every action keeps the types.
LEMMA TypeStep ==
    ASSUME TypeOK, FrameOwner, [Next]_vars
    PROVE  TypeOK'
<1>0. /\ inside \in [Procs -> FrameRec]
      /\ lock \in [Clients -> LockRec]
      /\ os \in [Inodes -> [Procs -> Mode]]
      /\ "none" \in Mode /\ NoLock \in LockRec /\ Idle \in FrameRec
  BY DEF TypeOK, FrameRec, LockRec, Mode, NoLock, Idle, Frame, At
<1>00. SUFFICES /\ up' \in [Procs -> BOOLEAN]
                /\ path' \in Inodes \cup {None}
                /\ os' \in [Inodes -> [Procs -> Mode]]
                /\ lock' \in [Clients -> LockRec]
                /\ lockMap' \in [Procs -> SUBSET Clients]
                /\ inside' \in [Procs -> FrameRec]
  BY DEF TypeOK, FrameRec, LockRec
<1> DEFINE Goal == /\ up' \in [Procs -> BOOLEAN]
                   /\ path' \in Inodes \cup {None}
                   /\ os' \in [Inodes -> [Procs -> Mode]]
                   /\ lock' \in [Clients -> LockRec]
                   /\ lockMap' \in [Procs -> SUBSET Clients]
                   /\ inside' \in [Procs -> FrameRec]
<1>1. ASSUME NEW c \in Clients, NEW w \in BOOLEAN, TryLock(c, w) PROVE Goal
  <2>1. Home[c] \in Procs
    BY LockAssumption
  <2>2. \A a \in At : Frame(a, c, w) \in FrameRec
    BY DEF Frame, FrameRec
  <2>3. inside' \in [Procs -> FrameRec]
    BY <1>0, <1>1, <2>1, <2>2 DEF TryLock, At
  <2>4. lockMap' \in [Procs -> SUBSET Clients]
    BY <1>1, <2>1 DEF TryLock, TypeOK
  <2> QED
    BY <1>0, <1>1, <2>3, <2>4 DEF TryLock, TypeOK
<1>2. ASSUME NEW c \in Clients, Release(c) PROVE Goal
  <2>1. Home[c] \in Procs
    BY LockAssumption
  <2>2. Frame("unlock", c, FALSE) \in FrameRec
    BY DEF Frame, FrameRec, At
  <2> QED
    BY <1>0, <1>2, <2>1, <2>2 DEF Release, TypeOK
<1>3. ASSUME NEW c \in Clients, Forget(c) PROVE Goal
  BY <1>0, <1>3 DEF Forget, TypeOK
<1>4. ASSUME NEW p \in Procs, Exists(p) PROVE Goal
  <2>1. inside' \in [Procs -> FrameRec]
    BY <1>0, <1>4, GotoType DEF Exists, At
  <2> QED
    BY <1>0, <1>4, <2>1 DEF Exists, TypeOK
<1>5. ASSUME NEW p \in Procs, Create(p) PROVE Goal
  <2>1. inside' \in [Procs -> FrameRec]
    BY <1>0, <1>5, GotoType DEF Create, At
  <2> QED
    BY <1>0, <1>5, <2>1 DEF Create, TypeOK
<1>6. ASSUME NEW p \in Procs, Open(p) PROVE Goal
  <2>1. path' \in Inodes \cup {None}
    BY <1>6 DEF Open, TypeOK
  <2>2. path \in Inodes \cup {None}
    BY DEF TypeOK
  <2>3. inside' \in [Procs -> FrameRec]
    <3>1. CASE Goto(p, "open", "refused")
      BY <1>0, <3>1, GotoType DEF At
    <3>2. CASE \E i \in Inodes \cup {None} : GotoWith(p, "open", "lock", i)
      BY <1>0, <3>2, GotoWithType DEF At
    <3> QED
      BY <1>6, <2>1, <2>2, <3>1, <3>2 DEF Open
  <2> QED
    BY <1>0, <1>6, <2>1, <2>3 DEF Open, TypeOK
<1>7. ASSUME NEW p \in Procs, OsLock(p) PROVE Goal
  <2> DEFINE c == inside[p].client
             i == inside[p].inode
             w == inside[p].write
  <2>0. c \in Clients
    BY <1>7 DEF OsLock, FrameOwner
  <2>1. i \in Inodes \cup {None} /\ w \in BOOLEAN
    BY <1>0 DEF FrameRec
  <2>2. ModeOf(w) \in Mode
    BY <2>1 DEF ModeOf, Mode
  <2>3. [valid |-> TRUE, write |-> w, inode |-> i] \in LockRec
    BY <2>1 DEF LockRec
  <2>4. UNCHANGED <<up, path>>
    BY <1>7 DEF OsLock
  <2>5. CASE Overlaps(p, i) \/ OsConflict(p, i, ModeOf(w))
    <3>1. SetOs(i, p, "none") /\ GotoWith(p, "lock", "refused", None) /\ UNCHANGED <<lock, lockMap>>
      BY <1>7, <2>5 DEF OsLock
    <3>2. os' \in [Inodes -> [Procs -> Mode]]
      BY <1>0, <3>1, SetOsType
    <3>3. inside' \in [Procs -> FrameRec]
      BY <1>0, <3>1, GotoWithType DEF At
    <3> QED
      BY <1>0, <2>4, <3>1, <3>2, <3>3 DEF TypeOK
  <2>6. CASE ~(Overlaps(p, i) \/ OsConflict(p, i, ModeOf(w)))
    <3>1. /\ SetOs(i, p, ModeOf(w))
          /\ lock' = [lock EXCEPT ![c] = [valid |-> TRUE, write |-> w, inode |-> i]]
          /\ lockMap' = [lockMap EXCEPT ![p] = @ \cup {c}]
          /\ inside' = [inside EXCEPT ![p] = Idle]
      BY <1>7, <2>6 DEF OsLock
    <3>2. os' \in [Inodes -> [Procs -> Mode]]
      BY <1>0, <2>2, <3>1, SetOsType
    <3>3. lock' \in [Clients -> LockRec] /\ inside' \in [Procs -> FrameRec]
      BY <1>0, <2>3, <3>1
    <3>4. lockMap' \in [Procs -> SUBSET Clients]
      BY <2>0, <3>1 DEF TypeOK
    <3> QED
      BY <2>4, <3>2, <3>3, <3>4 DEF TypeOK
  <2> QED
    BY <2>5, <2>6
<1>8. ASSUME NEW p \in Procs, ReturnNull(p) PROVE Goal
  BY <1>0, <1>8 DEF ReturnNull, TypeOK
<1>9. ASSUME NEW p \in Procs, Unlock(p) PROVE Goal
  <2> DEFINE c == inside[p].client
  <2>1. inside' \in [Procs -> FrameRec]
    BY <1>0, <1>9 DEF Unlock
  <2>2. CASE lock[c].valid
    <3>1. lock' = [lock EXCEPT ![c].valid = FALSE] /\ SetOs(lock[c].inode, p, "none")
      BY <1>9, <2>2 DEF Unlock
    <3>2. lock' \in [Clients -> LockRec]
      BY <1>0, <3>1 DEF LockRec
    <3> QED
      BY <1>0, <1>9, <2>1, <3>1, <3>2, SetOsType DEF Unlock, TypeOK
  <2>3. CASE ~lock[c].valid
    BY <1>0, <1>9, <2>1, <2>3 DEF Unlock, TypeOK
  <2> QED
    BY <2>2, <2>3
<1>10. ASSUME NEW p \in Procs, Start(p) PROVE Goal
  BY <1>0, <1>10 DEF Start, TypeOK
<1>11. ASSUME NEW p \in Procs, Crash(p) PROVE Goal
  BY <1>0, <1>11 DEF Crash, TypeOK
<1>12. CASE UNCHANGED vars
  BY <1>0, <1>12 DEF vars, TypeOK
<1> QED
  BY <1>1, <1>2, <1>3, <1>4, <1>5, <1>6, <1>7, <1>8, <1>9, <1>10, <1>11, <1>12
  DEF Next, InsideStep

-----------------------------------------------------------------------------
(* The inductive invariant.  Each action gets the conjuncts it can disturb. *)

\* What the exclusion rests on, for one process and the maps it is given.
LEMMA LockInvStep ==
    ASSUME TypeOK, LockInv, [Next]_vars
    PROVE  LockInv'
<1> USE DEF LockInv
<1>0. /\ inside \in [Procs -> FrameRec]
      /\ lock \in [Clients -> LockRec]
      /\ lockMap \in [Procs -> SUBSET Clients]
      /\ Home \in [Clients -> Procs]
  BY LockAssumption DEF TypeOK, FrameRec, LockRec
<1>1. ASSUME NEW c \in Clients, NEW w \in BOOLEAN, TryLock(c, w) PROVE LockInv'
  <2> DEFINE p == Home[c]
  <2>1. /\ p \in Procs /\ UNCHANGED lock /\ inside[p].at = "idle"
        /\ ~lock[c].valid /\ c \notin lockMap[p]
    BY <1>0, <1>1 DEF TryLock
  <2>2. {d \in lockMap[p] : lock[d].valid} = lockMap[p]
    BY <2>1 DEF EntriesHeld
  <2>3. UNCHANGED lockMap
    <3>1. \/ UNCHANGED lockMap
          \/ lockMap' = [lockMap EXCEPT ![p] = {d \in lockMap[p] : lock[d].valid}]
      BY <1>1 DEF TryLock
    <3>2. [lockMap EXCEPT ![p] = lockMap[p]] = lockMap
      BY <1>0
    <3> QED
      BY <2>2, <3>1, <3>2
  <2>4. /\ inside'[p].client = c /\ inside'[p].write = w
        /\ inside'[p].at \in {"refused", "exists"}
        /\ inside'[p].at = "exists" => ~Conflict(p, w)
        /\ \A q \in Procs \ {p} : inside'[q] = inside[q]
    <3>1. CASE Conflict(p, w)
      BY <1>0, <1>1, <2>1, <3>1 DEF TryLock, Frame
    <3>2. CASE ~Conflict(p, w)
      BY <1>0, <1>1, <2>1, <3>2 DEF TryLock, Frame
    <3> QED
      BY <3>1, <3>2
  <2>5. EntriesHeld' /\ EntriesCompatible'
    BY <2>1, <2>3 DEF EntriesHeld, EntriesCompatible
  <2>6. ValidMapped'
    BY <1>0, <2>1, <2>3, <2>4 DEF ValidMapped
  <2>7. FrameOwner'
    BY <1>0, <2>1, <2>3, <2>4 DEF FrameOwner
  <2>8. FrameFree'
    BY <1>0, <2>1, <2>3, <2>4 DEF FrameFree, Conflict
  <2> QED
    BY <2>5, <2>6, <2>7, <2>8
<1>2. ASSUME NEW c \in Clients, Release(c) PROVE LockInv'
  <2> DEFINE p == Home[c]
  <2>1. /\ p \in Procs /\ UNCHANGED lock /\ inside[p].at = "idle"
        /\ lockMap'[p] = lockMap[p] \ {c}
        /\ inside'[p].at = "unlock" /\ inside'[p].client = c
        /\ \A q \in Procs \ {p} : inside'[q] = inside[q] /\ lockMap'[q] = lockMap[q]
    BY <1>0, <1>2 DEF Release, Frame
  <2>2. EntriesHeld' /\ EntriesCompatible'
    BY <1>0, <2>1 DEF EntriesHeld, EntriesCompatible
  <2>3. ValidMapped'
    BY <1>0, <2>1 DEF ValidMapped
  <2>4. FrameOwner'
    BY <1>0, <2>1 DEF FrameOwner
  <2>5. FrameFree'
    BY <1>0, <2>1 DEF FrameFree, Conflict
  <2> QED
    BY <2>2, <2>3, <2>4, <2>5
<1>3. ASSUME NEW c \in Clients, Forget(c) PROVE LockInv'
  <2>1. /\ ~lock[c].valid /\ c \notin lockMap[Home[c]] /\ ~lock'[c].valid
        /\ UNCHANGED <<lockMap, inside>>
        /\ \A d \in Clients \ {c} : lock'[d] = lock[d]
    BY <1>0, <1>3 DEF Forget, NoLock
  <2>2. EntriesHeld' /\ EntriesCompatible'
    BY <1>0, <2>1 DEF EntriesHeld, EntriesCompatible
  <2>3. ValidMapped' /\ FrameOwner'
    BY <1>0, <2>1 DEF ValidMapped, FrameOwner
  <2>4. FrameFree'
    BY <1>0, <2>1 DEF FrameFree, FrameOwner, Conflict, EntriesHeld
  <2> QED
    BY <2>2, <2>3, <2>4
<1>4. ASSUME NEW p \in Procs, Exists(p) \/ Create(p) \/ Open(p) \/ ReturnNull(p)
      PROVE  LockInv'
  <2>1. UNCHANGED <<lock, lockMap>>
    BY <1>4 DEF Exists, Create, Open, ReturnNull
  <2>2. /\ \A q \in Procs \ {p} : inside'[q] = inside[q]
        /\ inside[p].at \in {"exists", "create", "open", "refused"}
        /\ \/ inside'[p] = Idle
           \/ inside'[p].at = "refused" /\ inside'[p].client = inside[p].client
           \/ /\ inside'[p].at \in {"create", "open", "lock"}
              /\ inside[p].at # "refused"
              /\ inside'[p].client = inside[p].client
              /\ inside'[p].write = inside[p].write
    <3>1. CASE Exists(p)
      BY <1>0, <3>1 DEF Exists, Goto, FrameRec
    <3>2. CASE Create(p)
      BY <1>0, <3>2 DEF Create, Goto, FrameRec
    <3>3. CASE Open(p)
      <4>0. inside \in [Procs -> FrameRec]
        BY <1>0, Zenon
      <4>1. \/ \E i : GotoWith(p, "open", "lock", i)
            \/ Goto(p, "open", "refused")
        BY <3>3, Zenon DEF Open
      <4>2. CASE Goto(p, "open", "refused")
        <5>1. /\ inside[p].at = "open" /\ inside'[p].at = "refused"
              /\ inside'[p].client = inside[p].client
              /\ \A q \in Procs \ {p} : inside'[q] = inside[q]
          BY <4>0, <4>2, GotoKeeps, Zenon
        <5> QED
          BY <5>1
      <4>3. CASE \E i : GotoWith(p, "open", "lock", i)
        <5>1. PICK i : GotoWith(p, "open", "lock", i)
          BY <4>3, Zenon
        <5>2. /\ inside[p].at = "open" /\ inside'[p].at = "lock"
              /\ inside'[p].client = inside[p].client
              /\ inside'[p].write = inside[p].write
              /\ \A q \in Procs \ {p} : inside'[q] = inside[q]
          <6>1. /\ inside' = [inside EXCEPT ![p] = [inside[p] EXCEPT !.at = "lock", !.inode = i]]
                /\ inside[p].at = "open"
            BY <5>1 DEF GotoWith
          <6>2. inside[p] \in FrameRec
            BY <4>0
          <6> QED
            BY <4>0, <6>1, <6>2 DEF FrameRec
        <5> QED
          BY <5>2
      <4> QED
        BY <4>1, <4>2, <4>3
    <3>4. CASE ReturnNull(p)
      BY <1>0, <3>4 DEF ReturnNull
    <3> QED
      BY <1>4, <3>1, <3>2, <3>3, <3>4
  <2>3. EntriesHeld' /\ EntriesCompatible'
    BY <2>1 DEF EntriesHeld, EntriesCompatible
  <2>4. ValidMapped'
    BY <1>0, <2>1, <2>2 DEF ValidMapped
  <2>5. FrameOwner'
    BY <1>0, <2>1, <2>2 DEF FrameOwner, Idle, Frame
  <2>6. FrameFree'
    BY <1>0, <2>1, <2>2 DEF FrameFree, Conflict, Idle, Frame
  <2> QED
    BY <2>3, <2>4, <2>5, <2>6
<1>5. ASSUME NEW p \in Procs, OsLock(p) PROVE LockInv'
  <2> DEFINE c == inside[p].client
             w == inside[p].write
  <2>1. /\ inside[p].at = "lock" /\ c \in Clients /\ Home[c] = p /\ c \notin lockMap[p]
        /\ ~Conflict(p, w) /\ ~lock[c].valid
    BY <1>5 DEF OsLock, FrameOwner, FrameFree
  <2>2. \/ /\ UNCHANGED <<lock, lockMap>>
           /\ inside'[p].at = "refused" /\ inside'[p].client = c
           /\ \A q \in Procs \ {p} : inside'[q] = inside[q]
        \/ /\ inside'[p] = Idle
           /\ \A q \in Procs \ {p} : inside'[q] = inside[q]
           /\ \A d \in Clients \ {c} : lock'[d] = lock[d]
           /\ lock'[c].valid /\ lock'[c].write = w
           /\ lockMap' = [lockMap EXCEPT ![p] = @ \cup {c}]
    <3>1. CASE UNCHANGED <<lock, lockMap>> /\ GotoWith(p, "lock", "refused", None)
      BY <1>0, <3>1, GotoKeeps
    <3>2. CASE /\ lock' = [lock EXCEPT ![c] = [valid |-> TRUE, write |-> w,
                                                inode |-> inside[p].inode]]
               /\ lockMap' = [lockMap EXCEPT ![p] = @ \cup {c}]
               /\ inside' = [inside EXCEPT ![p] = Idle]
      BY <1>0, <2>1, <3>2
    <3> QED
      BY <1>5, <3>1, <3>2 DEF OsLock
  <2>3. CASE UNCHANGED lockMap
    BY <1>0, <2>1, <2>2, <2>3
    DEF EntriesHeld, EntriesCompatible, ValidMapped, FrameOwner, FrameFree, Conflict
  <2>4. CASE ~UNCHANGED lockMap
    <3>1. /\ inside'[p] = Idle
          /\ \A q \in Procs \ {p} : inside'[q] = inside[q] /\ lockMap'[q] = lockMap[q]
          /\ \A d \in Clients \ {c} : lock'[d] = lock[d]
          /\ lock'[c].valid /\ lock'[c].write = w
          /\ lockMap'[p] = lockMap[p] \cup {c}
      BY <1>0, <2>2, <2>4
    <3>2. EntriesHeld'
      BY <1>0, <2>1, <3>1 DEF EntriesHeld
    <3>3. EntriesCompatible'
      BY <1>0, <2>1, <3>1 DEF EntriesHeld, EntriesCompatible, Conflict
    <3>4. ValidMapped'
      BY <1>0, <2>1, <3>1 DEF ValidMapped
    <3>5. FrameOwner'
      BY <1>0, <2>1, <3>1 DEF FrameOwner, Idle, Frame
    <3>6. FrameFree'
      BY <1>0, <2>1, <3>1 DEF FrameFree, FrameOwner, EntriesHeld, Conflict, Idle, Frame
    <3> QED
      BY <3>2, <3>3, <3>4, <3>5, <3>6
  <2> QED
    BY <2>3, <2>4
<1>6. ASSUME NEW p \in Procs, Unlock(p) PROVE LockInv'
  <2> DEFINE c == inside[p].client
  <2>1. /\ inside[p].at = "unlock" /\ c \in Clients /\ Home[c] = p /\ c \notin lockMap[p]
    BY <1>6 DEF Unlock, FrameOwner
  <2>2. /\ inside'[p] = Idle /\ UNCHANGED lockMap
        /\ \A q \in Procs \ {p} : inside'[q] = inside[q]
        /\ ~lock'[c].valid
        /\ \A d \in Clients \ {c} : lock'[d] = lock[d]
    BY <1>0, <1>6, <2>1 DEF Unlock, LockRec
  <2>3. EntriesHeld' /\ EntriesCompatible'
    BY <1>0, <2>1, <2>2 DEF EntriesHeld, EntriesCompatible
  <2>4. ValidMapped'
    BY <1>0, <2>1, <2>2 DEF ValidMapped
  <2>5. FrameOwner'
    BY <1>0, <2>1, <2>2 DEF FrameOwner, Idle, Frame
  <2>6. FrameFree'
    BY <1>0, <2>1, <2>2 DEF FrameFree, FrameOwner, EntriesHeld, Conflict, Idle, Frame
  <2> QED
    BY <2>3, <2>4, <2>5, <2>6
<1>7. ASSUME NEW p \in Procs, Start(p) PROVE LockInv'
  BY <1>7 DEF Start, EntriesHeld, EntriesCompatible, ValidMapped, FrameOwner, FrameFree, Conflict
<1>8. ASSUME NEW p \in Procs, Crash(p) PROVE LockInv'
  <2>1. /\ inside'[p] = Idle /\ lockMap'[p] = {}
        /\ \A q \in Procs \ {p} : inside'[q] = inside[q] /\ lockMap'[q] = lockMap[q]
        /\ \A c \in Clients : IF Home[c] = p THEN ~lock'[c].valid ELSE lock'[c] = lock[c]
    BY <1>0, <1>8 DEF Crash, NoLock
  <2>2. EntriesHeld' /\ EntriesCompatible'
    BY <1>0, <2>1 DEF EntriesHeld, EntriesCompatible
  <2>3. ValidMapped'
    BY <1>0, <2>1 DEF ValidMapped
  <2>4. FrameOwner'
    BY <1>0, <2>1 DEF FrameOwner, Idle, Frame
  <2>5. FrameFree'
    BY <1>0, <2>1 DEF FrameFree, FrameOwner, EntriesHeld, Conflict, Idle, Frame
  <2> QED
    BY <2>2, <2>3, <2>4, <2>5
<1>9. CASE UNCHANGED vars
  BY <1>9 DEF vars, EntriesHeld, EntriesCompatible, ValidMapped, FrameOwner, FrameFree, Conflict
<1> QED
  BY <1>1, <1>2, <1>3, <1>4, <1>5, <1>6, <1>7, <1>8, <1>9 DEF Next, InsideStep

-----------------------------------------------------------------------------
\* The types and the invariant hold together in every reachable state: neither
\* is inductive alone (a lock needs a client to be entered in the map).
THEOREM Invariant == Spec => [](TypeOK /\ LockInv)
<1>1. Init => TypeOK /\ LockInv
  <2> SUFFICES ASSUME Init PROVE TypeOK /\ LockInv
    OBVIOUS
  <2>1. TypeOK
    BY DEF Init, TypeOK, Mode, NoLock, Idle, Frame, At
  <2>2. LockInv
    BY LockAssumption DEF Init, LockInv, EntriesHeld, ValidMapped, EntriesCompatible,
       FrameOwner, FrameFree, NoLock, Idle, Frame
  <2> QED
    BY <2>1, <2>2
<1>2. TypeOK /\ LockInv /\ [Next]_vars => TypeOK' /\ LockInv'
  BY TypeStep, LockInvStep DEF LockInv
<1> QED
  BY <1>1, <1>2, PTL DEF Spec

\* Every variable of the lock keeps its type.
THEOREM LockTypeCorrect == Spec => []TypeOK
  BY Invariant, PTL

\* A writer holds the lock alone in its process, for any number of threads and
\* processes and whatever happens to the lock file.
THEOREM WriterAloneInProcess == Spec => []InProcessExclusion
<1>1. TypeOK /\ LockInv => InProcessExclusion
  <2> SUFFICES ASSUME TypeOK, LockInv, NEW c \in Clients, NEW d \in Clients, c # d,
                      Home[c] = Home[d], Holding(c), Holding(d)
               PROVE  ~lock[c].write
    BY DEF InProcessExclusion
  <2>1. c \in lockMap[Home[c]] /\ d \in lockMap[Home[c]]
    BY DEF LockInv, ValidMapped, Holding
  <2>2. Home[c] \in Procs
    BY LockAssumption
  <2> QED
    BY <2>1, <2>2 DEF LockInv, EntriesCompatible
<1> QED
  BY <1>1, Invariant, PTL

\* LOCK_MAP never lists a lock that is not held and never misses one.
THEOREM MapListsHeldLocks == Spec => []MapExact
<1>1. TypeOK /\ LockInv => MapExact
  <2> SUFFICES ASSUME TypeOK, LockInv, NEW p \in Procs, NEW c \in Clients
               PROVE  c \in lockMap[p] <=> Home[c] = p /\ Holding(c)
    BY DEF MapExact, TypeOK
  <2>1. c \in lockMap[p] => Home[c] = p /\ lock[c].valid
    BY DEF LockInv, EntriesHeld
  <2>2. c \in lockMap[p] => ~(inside[p].at = "unlock" /\ inside[p].client = c)
    BY DEF LockInv, FrameOwner
  <2>3. Home[c] = p /\ Holding(c) => c \in lockMap[p]
    BY DEF LockInv, ValidMapped, Holding
  <2> QED
    BY <2>1, <2>2, <2>3 DEF Holding
<1> QED
  BY <1>1, Invariant, PTL

-----------------------------------------------------------------------------
(* Record locks and the objects that can release them.                     *)

\* No step leaves a process a record lock that none of its objects can release.
LEMMA NoLeakStep ==
    ASSUME TypeOK, LockInv, NoLeakedLock, [Next]_vars
    PROVE  NoLeakedLock'
<1>0. /\ lock \in [Clients -> LockRec]
      /\ os \in [Inodes -> [Procs -> Mode]]
      /\ Home \in [Clients -> Procs] /\ None \notin Inodes
  BY LockAssumption DEF TypeOK, LockRec
<1>1. ASSUME UNCHANGED os,
             \A c \in Clients : lock[c].valid => lock'[c] = lock[c]
      PROVE  NoLeakedLock'
  BY <1>1 DEF NoLeakedLock
<1>2. ASSUME NEW c \in Clients, (\E w \in BOOLEAN : TryLock(c, w)) \/ Release(c) \/ Forget(c)
      PROVE  NoLeakedLock'
  BY <1>0, <1>1, <1>2 DEF TryLock, Release, Forget
<1>3. ASSUME NEW p \in Procs, Exists(p) \/ Create(p) \/ Open(p) \/ ReturnNull(p) \/ Start(p)
      PROVE  NoLeakedLock'
  BY <1>1, <1>3 DEF Exists, Create, Open, ReturnNull, Start
<1>4. ASSUME NEW p \in Procs, OsLock(p) PROVE NoLeakedLock'
  <2>0. PICK c \in Clients, i \in {inside[p].inode} : c = inside[p].client
    BY <1>4 DEF OsLock, LockInv, FrameOwner
  <2>1. ~lock[c].valid /\ Home[c] = p
    BY <1>4, <2>0 DEF OsLock, LockInv, FrameFree, FrameOwner
  <2>2. CASE SetOs(i, p, "none") /\ UNCHANGED lock
    <3>1. \A j \in Inodes, q \in Procs : os'[j][q] # "none" => os[j][q] # "none"
      BY <1>0, <2>2 DEF SetOs
    <3> QED
      BY <2>2, <3>1 DEF NoLeakedLock
  <2>3. CASE \E w \in BOOLEAN :
                /\ SetOs(i, p, ModeOf(w))
                /\ lock' = [lock EXCEPT ![c] = [valid |-> TRUE, write |-> w, inode |-> i]]
    <3>1. \A j \in Inodes, q \in Procs : j # i \/ q # p => os'[j][q] = os[j][q]
      BY <1>0, <2>3 DEF SetOs
    <3>2. /\ lock'[c].valid /\ lock'[c].inode = i
          /\ \A d \in Clients \ {c} : lock'[d] = lock[d]
      BY <1>0, <2>3
    <3> QED
      BY <2>1, <3>1, <3>2 DEF NoLeakedLock
  <2>4. inside[p].write \in BOOLEAN
    BY DEF TypeOK
  <2> QED
    BY <1>4, <2>0, <2>2, <2>3, <2>4 DEF OsLock
<1>5. ASSUME NEW p \in Procs, Unlock(p) PROVE NoLeakedLock'
  <2>c. PICK c \in Clients : c = inside[p].client /\ Home[c] = p
    BY <1>5 DEF Unlock, LockInv, FrameOwner
  <2>i. PICK i : i = lock[c].inode
    OBVIOUS
  <2>1. CASE lock[c].valid
    <3>1. lock' = [lock EXCEPT ![c].valid = FALSE] /\ SetOs(i, p, "none")
      BY <1>5, <2>c, <2>i, <2>1 DEF Unlock
    <3>2. \A d \in Clients \ {c} : lock'[d] = lock[d]
      BY <1>0, <3>1
    <3>3. /\ \A j \in Inodes, q \in Procs : os'[j][q] # "none" => os[j][q] # "none"
          /\ i \in Inodes => os'[i][p] = "none"
      BY <1>0, <3>1 DEF SetOs
    <3> QED
      BY <2>c, <2>i, <3>2, <3>3 DEF NoLeakedLock
  <2>2. CASE ~lock[c].valid
    BY <1>1, <1>5, <2>c, <2>2 DEF Unlock
  <2> QED
    BY <2>1, <2>2
<1>6. ASSUME NEW p \in Procs, Crash(p) PROVE NoLeakedLock'
  <2>1. /\ \A j \in Inodes : os'[j][p] = "none" /\ \A q \in Procs \ {p} : os'[j][q] = os[j][q]
        /\ \A c \in Clients : Home[c] # p => lock'[c] = lock[c]
    BY <1>0, <1>6 DEF Crash
  <2> QED
    BY <2>1 DEF NoLeakedLock
<1>7. CASE UNCHANGED vars
  BY <1>1, <1>7 DEF vars
<1> QED
  BY <1>2, <1>3, <1>4, <1>5, <1>6, <1>7 DEF Next, InsideStep

\* Whatever fails on the way through tryLock and release, and whichever process
\* dies, every record lock belongs to an object that still can release it.
THEOREM NoLockLeaks == Spec => []NoLeakedLock
<1>1. Init => NoLeakedLock
  BY DEF Init, NoLeakedLock
<1>2. TypeOK /\ LockInv /\ NoLeakedLock /\ [Next]_vars => NoLeakedLock'
  BY NoLeakStep
<1> QED
  BY <1>1, <1>2, Invariant, PTL DEF Spec

-----------------------------------------------------------------------------
(* The refinement: how the abstract mode of each client moves.             *)

AbsMode == [c \in Clients |-> IF Holding(c) THEN ModeOf(lock[c].write) ELSE "none"]

\* A step after which the clients of S hold nothing and the others hold what
\* they held is a release in RWLock, or no step at all.
LEMMA AbsRelease ==
    ASSUME NEW S \in SUBSET Clients,
           \A c \in S : ~Holding(c)',
           \A c \in Clients \ S : Holding(c)' = Holding(c) /\ lock'[c].write = lock[c].write
    PROVE  RW!Release(S)
  BY DEF RW!Release, ModeOf

\* Every step of ProcessLock is a step of RWLock or leaves it alone.
LEMMA AbsStep ==
    ASSUME TypeOK, LockInv, LockInv', [Next]_vars
    PROVE  [RW!Next]_AbsMode
<1>0. /\ inside \in [Procs -> FrameRec]
      /\ lock \in [Clients -> LockRec]
      /\ lockMap \in [Procs -> SUBSET Clients]
      /\ Home \in [Clients -> Procs]
  BY LockAssumption DEF TypeOK, FrameRec, LockRec
<1>2. ASSUME NEW c \in Clients, Release(c) PROVE RW!Next
  <2>1. Holding(c)' = FALSE
    BY <1>0, <1>2 DEF Release, Holding, Frame
  <2>2. \A d \in Clients \ {c} : Holding(d)' = Holding(d) /\ lock'[d].write = lock[d].write
    BY <1>0, <1>2 DEF Release, Holding, Frame
  <2>3. RW!Release({c})
    BY <2>1, <2>2, AbsRelease
  <2> QED
    BY <2>3 DEF RW!Next
<1>3. ASSUME NEW p \in Procs, Crash(p) PROVE [RW!Next]_AbsMode
  <2> DEFINE S == {c \in Clients : Home[c] = p}
  <2>1. \A c \in S : ~Holding(c)'
    BY <1>0, <1>3 DEF Crash, Holding, NoLock
  <2>2. \A c \in Clients \ S : Holding(c)' = Holding(c) /\ lock'[c].write = lock[c].write
    BY <1>0, <1>3 DEF Crash, Holding
  <2>3. RW!Release(S)
    BY <2>1, <2>2, AbsRelease
  <2>4. CASE S = {}
    BY <2>3, <2>4 DEF RW!Release, AbsMode
  <2>5. CASE S # {}
    <3>1. PICK c \in Clients : Home[c] = p
      BY <2>5
    <3>2. S = {d \in Clients : Home[d] = Home[c]}
      BY <3>1
    <3> QED
      BY <2>3, <3>1, <3>2 DEF RW!Next
  <2> QED
    BY <2>4, <2>5
<1>4. ASSUME NEW p \in Procs, OsLock(p), ~UNCHANGED lock PROVE RW!Next
  <2>0. PICK c \in Clients, w \in BOOLEAN : c = inside[p].client /\ w = inside[p].write
    BY <1>0, <1>4 DEF OsLock, LockInv, FrameOwner, FrameRec
  <2>1. /\ c \in Clients /\ Home[c] = p /\ ~Conflict(p, w) /\ ~lock[c].valid
        /\ inside[p].at = "lock" /\ p \in Procs
    BY <1>4, <2>0 DEF OsLock, LockInv, FrameOwner, FrameFree
  <2>2. /\ lock' = [lock EXCEPT ![c] = [valid |-> TRUE, write |-> w, inode |-> inside[p].inode]]
        /\ inside' = [inside EXCEPT ![p] = Idle]
    BY <1>4, <2>0 DEF OsLock
  <2>4. Holding(c)' /\ ~Holding(c) /\ lock'[c].write = w
    BY <1>0, <2>1, <2>2 DEF Holding, Idle, Frame
  <2>5. \A d \in Clients \ {c} : Holding(d)' = Holding(d) /\ lock'[d].write = lock[d].write
    BY <1>0, <2>1, <2>2 DEF Holding, Idle, Frame
  <2>6. \A d \in Clients \ {c} : Home[d] = p /\ Holding(d) => ~w /\ ~lock[d].write
    <3> SUFFICES ASSUME NEW d \in Clients \ {c}, Home[d] = p, Holding(d)
                 PROVE  ~w /\ ~lock[d].write
      OBVIOUS
    <3>1. d \in lockMap[p] /\ lock[d].valid
      BY <2>1 DEF LockInv, ValidMapped, Holding
    <3> QED
      BY <2>1, <3>1 DEF Conflict
  <2>7. AbsMode[c] = "none" /\ AbsMode' = [AbsMode EXCEPT ![c] = ModeOf(w)]
    BY <2>1, <2>4, <2>5 DEF AbsMode, ModeOf
  <2>8. \A d \in Clients \ {c} : Home[d] = Home[c] =>
            AbsMode[d] = "none" \/ (ModeOf(w) = "read" /\ AbsMode[d] = "read")
    BY <2>1, <2>6 DEF AbsMode, ModeOf
  <2>9. ModeOf(w) \in {"read", "write"}
    BY DEF ModeOf
  <2> QED
    BY <2>1, <2>7, <2>8, <2>9 DEF AbsMode, RW!Next, RW!Acquire, RW!Compatible
<1>5. ASSUME \A c \in Clients : Holding(c)' = Holding(c)
                                /\ (Holding(c) => lock'[c].write = lock[c].write)
      PROVE  UNCHANGED AbsMode
  BY <1>5 DEF AbsMode
<1>6. ASSUME NEW c \in Clients, NEW w \in BOOLEAN, TryLock(c, w) PROVE UNCHANGED AbsMode
  <2>1. /\ Home[c] \in Procs /\ UNCHANGED lock /\ inside[Home[c]].at = "idle"
        /\ inside'[Home[c]].at # "unlock"
        /\ \A q \in Procs \ {Home[c]} : inside'[q] = inside[q]
    BY <1>0, <1>6 DEF TryLock, Frame
  <2> QED
    BY <1>0, <1>5, <2>1 DEF Holding
<1>7. ASSUME NEW c \in Clients, Forget(c) PROVE UNCHANGED AbsMode
  <2>1. /\ ~lock[c].valid /\ ~lock'[c].valid /\ UNCHANGED inside
        /\ \A d \in Clients \ {c} : lock'[d] = lock[d]
    BY <1>0, <1>7 DEF Forget, NoLock
  <2> QED
    BY <1>0, <1>5, <2>1 DEF Holding
<1>8. ASSUME NEW p \in Procs,
             Exists(p) \/ Create(p) \/ Open(p) \/ ReturnNull(p)
             \/ (OsLock(p) /\ UNCHANGED lock)
      PROVE  UNCHANGED AbsMode
  <2>1. UNCHANGED lock /\ inside[p].at # "unlock"
    BY <1>8 DEF Exists, Create, Open, ReturnNull, OsLock, Goto, GotoWith
  <2>2. inside'[p].at # "unlock" /\ \A q \in Procs \ {p} : inside'[q] = inside[q]
    <3>1. CASE \E i, from, to : /\ to # "unlock"
                                /\ Goto(p, from, to) \/ GotoWith(p, from, to, i)
      BY <1>0, <3>1, GotoKeeps
    <3>2. CASE inside' = [inside EXCEPT ![p] = Idle]
      BY <1>0, <3>2 DEF Idle, Frame
    <3> QED
      BY <1>8, <3>1, <3>2 DEF Exists, Create, Open, ReturnNull, OsLock
  <2> QED
    BY <1>0, <1>5, <2>1, <2>2 DEF Holding
<1>9. ASSUME NEW p \in Procs, Unlock(p) PROVE UNCHANGED AbsMode
  <2>0. PICK c \in Clients : c = inside[p].client
    BY <1>9 DEF Unlock, LockInv, FrameOwner
  <2>1. /\ inside[p].at = "unlock" /\ inside[p].client = c /\ Home[c] = p
        /\ inside'[p] = Idle /\ ~lock'[c].valid
        /\ \A q \in Procs \ {p} : inside'[q] = inside[q]
        /\ \A d \in Clients \ {c} : lock'[d] = lock[d]
    BY <1>0, <1>9, <2>0 DEF Unlock, LockInv, FrameOwner, LockRec
  <2>2. ~Holding(c) /\ ~Holding(c)'
    BY <2>1 DEF Holding
  <2>3. \A d \in Clients \ {c} : Holding(d)' = Holding(d) /\ lock'[d].write = lock[d].write
    BY <1>0, <2>1 DEF Holding, Idle, Frame
  <2>4. \A d \in Clients : /\ Holding(d)' = Holding(d)
                           /\ Holding(d) => lock'[d].write = lock[d].write
    <3> SUFFICES ASSUME NEW d \in Clients
                 PROVE  /\ Holding(d)' = Holding(d)
                        /\ Holding(d) => lock'[d].write = lock[d].write
      OBVIOUS
    <3>1. CASE d = c
      BY <2>2, <3>1 DEF Holding
    <3>2. CASE d # c
      BY <2>3, <3>2
    <3> QED
      BY <3>1, <3>2
  <2> QED
    BY <1>5, <2>4
<1>10. ASSUME NEW p \in Procs, Start(p) PROVE UNCHANGED AbsMode
  BY <1>5, <1>10 DEF Start, Holding
<1>11. CASE UNCHANGED vars
  BY <1>5, <1>11 DEF vars, Holding
<1> QED
  BY <1>2, <1>3, <1>4, <1>6, <1>7, <1>8, <1>9, <1>10, <1>11 DEF Next, InsideStep

\* In each process ProcessLock implements the read/write lock RWLock.
THEOREM Refinement == Spec => ImplementsRWLock
<1>1. Init => RW!Init
  BY DEF Init, RW!Init, Holding, NoLock
<1>2. TypeOK /\ LockInv /\ (TypeOK /\ LockInv)' /\ [Next]_vars => [RW!Next]_AbsMode
  BY AbsStep
<1> QED
  BY <1>1, <1>2, Invariant, PTL DEF Spec, ImplementsRWLock, RW!Spec, AbsMode
=============================================================================
