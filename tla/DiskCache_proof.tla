--------------------------- MODULE DiskCache_proof ---------------------------
(***************************************************************************)
(* Proofs about DiskCache for every set of keys and clients.               *)
(***************************************************************************)
EXTENDS DiskCache, TLAPS

Modes == {"none", "read", "write"}

\* The files of a client are names, and two.
LEMMA NameFacts ==
    ASSUME Types, NEW c \in Clients
    PROVE  /\ File(c) \in Names /\ Tmp(c) \in Names /\ File(c) # Tmp(c)
           /\ key[c] \in Keys /\ pc[c] \in States
           /\ \A d \in Clients : Tmp(d) # File(c)
           /\ \A d \in Clients : Tmp(d) = Tmp(c) <=> key[d] = key[c]
  BY DEF Types, Names, File, Tmp

\* Locking touches one mode of one agent.
LEMMA SetModeEffect ==
    ASSUME Types, NEW n \in Names, NEW a \in Agents, NEW m \in Modes, SetMode(n, a, m)
    PROVE  /\ mode' \in [Names -> [Agents -> Modes]]
           /\ mode'[n][a] = m
           /\ \A x \in Names, b \in Agents : x # n \/ b # a => mode'[x][b] = mode[x][b]
  BY DEF Types, SetMode, Modes

\* A client moves from one place to another, and nobody else does.
LEMMA GotoEffect ==
    ASSUME Types, NEW c \in Clients, NEW from, NEW to \in States, Goto(c, from, to)
    PROVE  /\ pc[c] = from /\ pc' \in [Clients -> States] /\ pc'[c] = to
           /\ \A d \in Clients : d # c => pc'[d] = pc[d]
  BY DEF Types, Goto

-----------------------------------------------------------------------------
(* The types.                                                              *)

\* A row that is deleted, or kept, is a row.
LEMMA DeleteEntityType ==
    ASSUME Types, NEW a, NEW k \in Keys, DeleteEntity(a, k)
    PROVE  /\ row' \in [Keys -> {"none", "fresh", "expired"}]
           /\ known' \subseteq (Clients \cup {Trim}) \X Keys
  BY DEF Types, DeleteEntity

LEMMA DeleteType ==
    ASSUME Types, NEW n \in Names, Delete(n)
    PROVE  disk' \in [Names -> {Absent} \cup Present]
  BY DEF Types, Delete

\* A step of a client keeps the types.
LEMMA ClientType ==
    ASSUME Types, NEW c \in Clients, ClientStep(c) \/ \E k \in Keys : Get(c, k) \/ Create(c, k)
    PROVE  Types'
<1>0. File(c) \in Names /\ Tmp(c) \in Names /\ key[c] \in Keys /\ c \in Agents /\ Gc \in Agents
  BY NameFacts DEF Agents
<1>1. CASE \E k \in Keys : Get(c, k)
  BY <1>0, <1>1 DEF Get, Goto, Types, States, trimmer
<1>2. CASE FileExists(c)
  BY <1>0, <1>2 DEF FileExists, Goto, Types, States, trimmer
<1>3. CASE ReadLock(c)
  <2>1. mode' \in [Names -> [Agents -> Modes]]
    BY <1>0, <1>3, SetModeEffect DEF ReadLock, Types, Modes
  <2>2. pc' \in [Clients -> States]
    BY <1>3 DEF ReadLock, Goto, Types, States
  <2> QED
    BY <1>3, <2>1, <2>2 DEF ReadLock, Types, Modes, trimmer
<1>4. CASE Check(c)
  <2>1. /\ row' \in [Keys -> {"none", "fresh", "expired"}]
        /\ known' \subseteq (Clients \cup {Trim}) \X Keys
    BY <1>0, <1>4, DeleteEntityType DEF Check, Types
  <2>2. mode' \in [Names -> [Agents -> Modes]]
    BY <1>0, <1>4 DEF Check, Types, Modes
  <2> QED
    BY <1>0, <1>4, <2>1, <2>2 DEF Check, Goto, Types, States, trimmer, Modes
<1>5. CASE Close(c)
  BY <1>0, <1>5 DEF Close, SetMode, Goto, Types, States, trimmer
<1>6. CASE \E k \in Keys : Create(c, k)
  <2>1. PICK k \in Keys : Create(c, k)
    BY <1>6
  <2>2. <<k, "tmp">> \in Names
    BY DEF Names
  <2> QED
    BY <1>0, <2>1, <2>2 DEF Create, SetMode, Goto, Types, States, trimmer
<1>7. CASE OpenTmp(c)
  BY <1>0, <1>7 DEF OpenTmp, Goto, Types, States, trimmer, Present
<1>8. CASE Written(c)
  <2>1. [by |-> c, done |-> TRUE] \in Present
    BY DEF Present
  <2>2. disk' \in [Names -> {Absent} \cup Present]
    BY <1>0, <1>8, <2>1 DEF Written, Types
  <2>3. pc' \in [Clients -> States]
    BY <1>8 DEF Written, Goto, Types, States
  <2> QED
    BY <1>8, <2>2, <2>3 DEF Written, Types, trimmer
<1>9. CASE RangeRefused(c)
  BY <1>0, <1>9 DEF RangeRefused, Goto, Types, States, trimmer, Present
<1>10. CASE DownloadFails(c) \/ Commit(c)
  BY <1>0, <1>10 DEF DownloadFails, Commit, Goto, Types, States, trimmer
<1>11. CASE LockFile(c)
  <2>1. mode' \in [Names -> [Agents -> Modes]]
    BY <1>0, <1>11, SetModeEffect DEF LockFile, Types, Modes
  <2>2. pc' \in [Clients -> States]
    BY <1>11 DEF LockFile, Goto, Types, States
  <2> QED
    BY <1>11, <2>1, <2>2 DEF LockFile, Types, Modes, trimmer
<1>12. CASE Rename(c)
  BY <1>0, <1>12 DEF Rename, Goto, Types, States, trimmer
<1>13. CASE Undo(c)
  BY <1>0, <1>13 DEF Undo, SetMode, Goto, Types, States, trimmer
<1>14. CASE UndoDelete(c) \/ DeleteTmp(c)
  BY <1>0, <1>14, DeleteType DEF UndoDelete, DeleteTmp, Goto, Types, States, trimmer
<1>15. CASE Replace(c)
  BY <1>0, <1>15 DEF Replace, Goto, Types, States, trimmer
<1>16. CASE ReleaseTmp(c)
  BY <1>0, <1>16 DEF ReleaseTmp, SetMode, Goto, Types, States, trimmer
<1>17. CASE CloseTmp(c)
  BY <1>0, <1>17 DEF CloseTmp, SetMode, Goto, Types, States, trimmer
<1> QED
  BY <1>1, <1>2, <1>3, <1>4, <1>5, <1>6, <1>7, <1>8, <1>9, <1>10, <1>11, <1>12, <1>13, <1>14,
     <1>15, <1>16, <1>17 DEF ClientStep

\* What the rest of the program does, clients apart.
Background ==
    \/ \E n \in Names : Finalize(n)
    \/ TrimStep \/ DeleteExpired
    \/ \E ks \in SUBSET Keys \ {{}} : Select(ks)
    \/ \E k \in Keys : Expire(k)

LEMMA BackgroundType ==
    ASSUME Types, Background
    PROVE  Types'
<1>1. CASE \E n \in Names : Finalize(n)
  <2>1. Gc \in Agents
    BY DEF Agents
  <2>2. mode' \in [Names -> [Agents -> Modes]]
    BY <1>1, <2>1, SetModeEffect DEF Finalize, Modes
  <2> QED
    BY <1>1, <2>2 DEF Finalize, Types, Modes, clients, trimmer
<1>2. CASE ListFiles
  BY <1>2 DEF ListFiles, TrimGoto, Types, clients, Names
<1>3. CASE SweepDelete
  BY <1>3, DeleteType DEF SweepDelete, TrimGoto, Types, clients
<1>4. CASE SweepEnds \/ TrimEnds
  BY <1>4 DEF SweepEnds, TrimEnds, TrimGoto, Types, clients
<1>5. CASE \E n \in Names : Sweep(n)
  BY <1>5 DEF Sweep, TrimGoto, Types, clients
<1>6. CASE \E n \in Names : DeleteFileWithLock(n)
  BY <1>6, DeleteType DEF DeleteFileWithLock, Types, clients
<1>7. CASE \E k \in Keys : DeleteRow(k)
  BY <1>7, DeleteEntityType DEF DeleteRow, Types, clients
<1>8. CASE DeleteExpired
  BY <1>8 DEF DeleteExpired, TrimGoto, Types, clients
<1>9. CASE \E ks \in SUBSET Keys \ {{}} : Select(ks)
  BY <1>9 DEF Select, TrimGoto, Types, clients
<1>10. CASE \E k \in Keys : Expire(k)
  BY <1>10 DEF Expire, Types, clients, trimmer
<1> QED
  BY <1>1, <1>2, <1>3, <1>4, <1>5, <1>6, <1>7, <1>8, <1>9, <1>10, Background DEF Background, TrimStep

-----------------------------------------------------------------------------
(* Who holds which lock.                                                   *)

\* A client whose place, key and locks stay keeps the locks it should have.
LEMMA LocksKept ==
    ASSUME NEW d \in Clients, LocksOf(d), pc'[d] = pc[d], key'[d] = key[d],
           Types, \A n \in Names : mode'[n][d] = mode[n][d]
    PROVE  LocksOf(d)'
  BY NameFacts DEF LocksOf, File, Tmp

\* A client that is idle has no lock.
LEMMA IdleHasNone ==
    ASSUME Types, NEW c \in Clients, LocksOf(c), pc[c] = "idle"
    PROVE  \A n \in Names : mode[n][c] = "none"
  BY NameFacts DEF LocksOf, Writing, FileModes

\* Where a client moves without locking, what it should have is what it has.
LEMMA QuietLocks ==
    ASSUME Types, NEW c \in Clients, LocksOf(c), NEW to \in States, pc'[c] = to,
           key'[c] = key[c], mode' = mode, to \in Writing <=> pc[c] \in Writing,
           mode[File(c)][c] \in FileModes(to)
    PROVE  LocksOf(c)'
  BY DEF LocksOf, File, Tmp

\* A client that begins a request and is not writing yet has still no lock.
LEMMA NewKeyLocks ==
    ASSUME Types, NEW c \in Clients, LocksOf(c), pc[c] = "idle", pc'[c] = "exists", mode' = mode,
           key' \in [Clients -> Keys]
    PROVE  LocksOf(c)'
<1>1. \A n \in Names : mode'[n][c] = "none"
  BY IdleHasNone
<1>2. File(c)' \in Names /\ Tmp(c)' \in Names
  BY DEF File, Tmp, Names
<1> QED
  BY <1>1, <1>2 DEF LocksOf, Writing, FileModes

\* In a step of a client every client has the locks it should have.
LEMMA ClientLocks ==
    ASSUME TypeOK, NEW c \in Clients, Types',
           ClientStep(c) \/ \E k \in Keys : Get(c, k) \/ Create(c, k)
    PROVE  \A d \in Clients : LocksOf(d)'
<1>0. /\ Types /\ LocksOf(c) /\ \A d \in Clients : LocksOf(d)
      /\ File(c) \in Names /\ Tmp(c) \in Names /\ File(c) # Tmp(c)
      /\ c \in Agents /\ Gc \in Agents /\ c # Gc /\ \A d \in Clients : d \in Agents
      /\ "none" \in Modes /\ "read" \in Modes /\ "write" \in Modes
  BY NameFacts, CacheAssumption DEF TypeOK, Agents, Modes
<1> DEFINE Others == \A d \in Clients : d # c =>
                        /\ pc'[d] = pc[d] /\ key'[d] = key[d]
                        /\ \A n \in Names : mode'[n][d] = mode[n][d]
<1>a. ASSUME Others, LocksOf(c)' PROVE \A d \in Clients : LocksOf(d)'
  BY <1>0, <1>a, LocksKept
<1> HIDE DEF Others
<1>1. CASE FileExists(c)
  <2>1. /\ mode' = mode /\ key' = key
        /\ pc' \in [Clients -> States] /\ \A d \in Clients : d # c => pc'[d] = pc[d]
    BY <1>0, <1>1 DEF FileExists, Goto, Types
  <2>2. Others
    BY <2>1 DEF Others
  <2>3. pc'[c] \in Writing <=> pc[c] \in Writing
    BY <1>0, <1>1 DEF FileExists, Goto, Types, Writing
  <2>4. mode[File(c)][c] \in FileModes(pc'[c])
    BY <1>0, <1>1 DEF FileExists, Goto, Types, LocksOf, FileModes
  <2> QED
    BY <1>0, <1>a, <2>1, <2>2, <2>3, <2>4, QuietLocks
<1>2. CASE OpenTmp(c)
  <2>1. /\ mode' = mode /\ key' = key
        /\ pc' \in [Clients -> States] /\ \A d \in Clients : d # c => pc'[d] = pc[d]
    BY <1>0, <1>2 DEF OpenTmp, Goto, Types
  <2>2. Others
    BY <2>1 DEF Others
  <2>3. pc'[c] \in Writing <=> pc[c] \in Writing
    BY <1>0, <1>2 DEF OpenTmp, Goto, Types, Writing
  <2>4. mode[File(c)][c] \in FileModes(pc'[c])
    BY <1>0, <1>2 DEF OpenTmp, Goto, Types, LocksOf, FileModes
  <2> QED
    BY <1>0, <1>a, <2>1, <2>2, <2>3, <2>4, QuietLocks
<1>3. CASE Written(c)
  <2>1. /\ mode' = mode /\ key' = key
        /\ pc' \in [Clients -> States] /\ \A d \in Clients : d # c => pc'[d] = pc[d]
    BY <1>0, <1>3 DEF Written, Goto, Types
  <2>2. Others
    BY <2>1 DEF Others
  <2>3. pc'[c] \in Writing <=> pc[c] \in Writing
    BY <1>0, <1>3 DEF Written, Goto, Types, Writing
  <2>4. mode[File(c)][c] \in FileModes(pc'[c])
    BY <1>0, <1>3 DEF Written, Goto, Types, LocksOf, FileModes
  <2> QED
    BY <1>0, <1>a, <2>1, <2>2, <2>3, <2>4, QuietLocks
<1>4. CASE RangeRefused(c)
  <2>1. /\ mode' = mode /\ key' = key
        /\ pc' \in [Clients -> States] /\ \A d \in Clients : d # c => pc'[d] = pc[d]
    BY <1>0, <1>4 DEF RangeRefused, Goto, Types
  <2>2. Others
    BY <2>1 DEF Others
  <2>3. pc'[c] \in Writing <=> pc[c] \in Writing
    BY <1>0, <1>4 DEF RangeRefused, Goto, Types, Writing
  <2>4. mode[File(c)][c] \in FileModes(pc'[c])
    BY <1>0, <1>4 DEF RangeRefused, Goto, Types, LocksOf, FileModes
  <2> QED
    BY <1>0, <1>a, <2>1, <2>2, <2>3, <2>4, QuietLocks
<1>5. CASE DownloadFails(c)
  <2>1. /\ mode' = mode /\ key' = key
        /\ pc' \in [Clients -> States] /\ \A d \in Clients : d # c => pc'[d] = pc[d]
    BY <1>0, <1>5 DEF DownloadFails, Goto, Types
  <2>2. Others
    BY <2>1 DEF Others
  <2>3. pc'[c] \in Writing <=> pc[c] \in Writing
    BY <1>0, <1>5 DEF DownloadFails, Goto, Types, Writing
  <2>4. mode[File(c)][c] \in FileModes(pc'[c])
    BY <1>0, <1>5 DEF DownloadFails, Goto, Types, LocksOf, FileModes
  <2> QED
    BY <1>0, <1>a, <2>1, <2>2, <2>3, <2>4, QuietLocks
<1>6. CASE Commit(c)
  <2>1. /\ mode' = mode /\ key' = key
        /\ pc' \in [Clients -> States] /\ \A d \in Clients : d # c => pc'[d] = pc[d]
    BY <1>0, <1>6 DEF Commit, Goto, Types
  <2>2. Others
    BY <2>1 DEF Others
  <2>3. pc'[c] \in Writing <=> pc[c] \in Writing
    BY <1>0, <1>6 DEF Commit, Goto, Types, Writing
  <2>4. mode[File(c)][c] \in FileModes(pc'[c])
    BY <1>0, <1>6 DEF Commit, Goto, Types, LocksOf, FileModes
  <2> QED
    BY <1>0, <1>a, <2>1, <2>2, <2>3, <2>4, QuietLocks
<1>7. CASE Rename(c)
  <2>1. /\ mode' = mode /\ key' = key
        /\ pc' \in [Clients -> States] /\ \A d \in Clients : d # c => pc'[d] = pc[d]
    BY <1>0, <1>7 DEF Rename, Goto, Types
  <2>2. Others
    BY <2>1 DEF Others
  <2>3. pc'[c] \in Writing <=> pc[c] \in Writing
    BY <1>0, <1>7 DEF Rename, Goto, Types, Writing
  <2>4. mode[File(c)][c] \in FileModes(pc'[c])
    BY <1>0, <1>7 DEF Rename, Goto, Types, LocksOf, FileModes
  <2> QED
    BY <1>0, <1>a, <2>1, <2>2, <2>3, <2>4, QuietLocks
<1>8. CASE UndoDelete(c)
  <2>1. /\ mode' = mode /\ key' = key
        /\ pc' \in [Clients -> States] /\ \A d \in Clients : d # c => pc'[d] = pc[d]
    BY <1>0, <1>8 DEF UndoDelete, Goto, Types
  <2>2. Others
    BY <2>1 DEF Others
  <2>3. pc'[c] \in Writing <=> pc[c] \in Writing
    BY <1>0, <1>8 DEF UndoDelete, Goto, Types, Writing
  <2>4. mode[File(c)][c] \in FileModes(pc'[c])
    BY <1>0, <1>8 DEF UndoDelete, Goto, Types, LocksOf, FileModes
  <2> QED
    BY <1>0, <1>a, <2>1, <2>2, <2>3, <2>4, QuietLocks
<1>9. CASE Replace(c)
  <2>1. /\ mode' = mode /\ key' = key
        /\ pc' \in [Clients -> States] /\ \A d \in Clients : d # c => pc'[d] = pc[d]
    BY <1>0, <1>9 DEF Replace, Goto, Types
  <2>2. Others
    BY <2>1 DEF Others
  <2>3. pc'[c] \in Writing <=> pc[c] \in Writing
    BY <1>0, <1>9 DEF Replace, Goto, Types, Writing
  <2>4. mode[File(c)][c] \in FileModes(pc'[c])
    BY <1>0, <1>9 DEF Replace, Goto, Types, LocksOf, FileModes
  <2> QED
    BY <1>0, <1>a, <2>1, <2>2, <2>3, <2>4, QuietLocks
<1>10. CASE DeleteTmp(c)
  <2>1. /\ mode' = mode /\ key' = key
        /\ pc' \in [Clients -> States] /\ \A d \in Clients : d # c => pc'[d] = pc[d]
    BY <1>0, <1>10 DEF DeleteTmp, Goto, Types
  <2>2. Others
    BY <2>1 DEF Others
  <2>3. pc'[c] \in Writing <=> pc[c] \in Writing
    BY <1>0, <1>10 DEF DeleteTmp, Goto, Types, Writing
  <2>4. mode[File(c)][c] \in FileModes(pc'[c])
    BY <1>0, <1>10 DEF DeleteTmp, Goto, Types, LocksOf, FileModes
  <2> QED
    BY <1>0, <1>a, <2>1, <2>2, <2>3, <2>4, QuietLocks
<1>11. CASE \E k \in Keys : Get(c, k)
  <2>1. PICK k \in Keys : Get(c, k)
    BY <1>11
  <2>2. Others
    BY <1>0, <2>1 DEF Get, Goto, Types, Others
  <2>3. pc[c] = "idle" /\ pc'[c] = "exists" /\ mode' = mode /\ key' \in [Clients -> Keys]
    BY <1>0, <2>1 DEF Get, Goto, Types
  <2> QED
    BY <1>0, <1>a, <2>2, <2>3, NewKeyLocks
<1>12. CASE \E k \in Keys : Create(c, k)
  <2>1. PICK k \in Keys : Create(c, k)
    BY <1>12
  <2>2. <<k, "tmp">> \in Names
    BY DEF Names
  <2>3. /\ mode' \in [Names -> [Agents -> Modes]] /\ mode'[<<k, "tmp">>][c] = "write"
        /\ \A x \in Names, b \in Agents : x # <<k, "tmp">> \/ b # c => mode'[x][b] = mode[x][b]
    BY <1>0, <2>1, <2>2, SetModeEffect DEF Create
  <2>4. Others
    BY <1>0, <2>1, <2>3 DEF Create, Goto, Types, Others
  <2>5. pc[c] = "idle" /\ pc'[c] = "opening" /\ File(c)' = <<k, "file">> /\ Tmp(c)' = <<k, "tmp">>
    BY <1>0, <2>1 DEF Create, Goto, Types, File, Tmp
  <2>6. \A x \in Names : x # <<k, "tmp">> => mode'[x][c] = "none"
    BY <1>0, <2>3, <2>5, IdleHasNone
  <2>7. <<k, "file">> \in Names
    BY DEF Names
  <2>8. LocksOf(c)'
    BY <2>2, <2>3, <2>5, <2>6, <2>7 DEF LocksOf, Writing, FileModes
  <2> QED
    BY <1>a, <2>4, <2>8
<1>13. CASE Close(c)
  <2>1. /\ mode'[File(c)][c] = "none"
        /\ \A x \in Names, b \in Agents : x # File(c) \/ b # c => mode'[x][b] = mode[x][b]
    BY <1>0, <1>13, SetModeEffect DEF Close
  <2>2. Others
    BY <1>0, <1>13, <2>1 DEF Close, Goto, Types, Others
  <2>3. File(c)' = File(c) /\ Tmp(c)' = Tmp(c)
    BY <1>13 DEF Close, File, Tmp
  <2>4. LocksOf(c)'
    BY <1>0, <1>13, <2>1, <2>3 DEF Close, Goto, Types, LocksOf, Writing, FileModes
  <2> QED
    BY <1>a, <2>2, <2>4
<1>14. CASE Undo(c)
  <2>1. /\ mode'[File(c)][c] = "none"
        /\ \A x \in Names, b \in Agents : x # File(c) \/ b # c => mode'[x][b] = mode[x][b]
    BY <1>0, <1>14, SetModeEffect DEF Undo
  <2>2. Others
    BY <1>0, <1>14, <2>1 DEF Undo, Goto, Types, Others
  <2>3. File(c)' = File(c) /\ Tmp(c)' = Tmp(c)
    BY <1>14 DEF Undo, File, Tmp
  <2>4. LocksOf(c)'
    BY <1>0, <1>14, <2>1, <2>3 DEF Undo, Goto, Types, LocksOf, Writing, FileModes
  <2> QED
    BY <1>a, <2>2, <2>4
<1>15. CASE ReleaseTmp(c)
  <2>1. /\ mode'[Tmp(c)][c] = "none"
        /\ \A x \in Names, b \in Agents : x # Tmp(c) \/ b # c => mode'[x][b] = mode[x][b]
    BY <1>0, <1>15, SetModeEffect DEF ReleaseTmp
  <2>2. Others
    BY <1>0, <1>15, <2>1 DEF ReleaseTmp, Goto, Types, Others
  <2>3. File(c)' = File(c) /\ Tmp(c)' = Tmp(c)
    BY <1>15 DEF ReleaseTmp, File, Tmp
  <2>4. LocksOf(c)'
    BY <1>0, <1>15, <2>1, <2>3 DEF ReleaseTmp, Goto, Types, LocksOf, Writing, FileModes
  <2> QED
    BY <1>a, <2>2, <2>4
<1>16. CASE CloseTmp(c)
  <2>1. /\ mode'[Tmp(c)][c] = "none"
        /\ \A x \in Names, b \in Agents : x # Tmp(c) \/ b # c => mode'[x][b] = mode[x][b]
    BY <1>0, <1>16, SetModeEffect DEF CloseTmp
  <2>2. Others
    BY <1>0, <1>16, <2>1 DEF CloseTmp, Goto, Types, Others
  <2>3. File(c)' = File(c) /\ Tmp(c)' = Tmp(c)
    BY <1>16 DEF CloseTmp, File, Tmp
  <2>4. LocksOf(c)'
    BY <1>0, <1>16, <2>1, <2>3 DEF CloseTmp, Goto, Types, LocksOf, Writing, FileModes
  <2> QED
    BY <1>a, <2>2, <2>4
<1>17. CASE ReadLock(c)
  <2>1. CASE mode' = mode
    <3>1. /\ key' = key /\ pc' \in [Clients -> States]
          /\ \A d \in Clients : d # c => pc'[d] = pc[d]
      BY <1>0, <1>17 DEF ReadLock, Goto, Types
    <3>2. Others
      BY <2>1, <3>1 DEF Others
    <3>3. pc'[c] \in Writing <=> pc[c] \in Writing
      BY <1>0, <1>17 DEF ReadLock, Goto, Types, Writing
    <3>4. CASE SetMode(File(c), c, "read")
      <4>1. mode[File(c)][c] = "none" /\ mode'[File(c)][c] = "read"
        BY <1>0, <1>17, <3>4, SetModeEffect DEF ReadLock, Goto, LocksOf, FileModes
      <4> QED
        BY <2>1, <4>1
    <3>5. CASE ~SetMode(File(c), c, "read")
      <4>1. mode[File(c)][c] \in FileModes(pc'[c])
        BY <1>0, <1>17, <3>5 DEF ReadLock, Goto, Types, LocksOf, FileModes
      <4> QED
        BY <1>0, <1>a, <2>1, <3>1, <3>2, <3>3, <4>1, QuietLocks
    <3> QED
      BY <3>4, <3>5
  <2>2. CASE mode' # mode
    <3>1. /\ mode'[File(c)][c] = "read" /\ Goto(c, "lock", "check")
          /\ \A x \in Names, b \in Agents : x # File(c) \/ b # c => mode'[x][b] = mode[x][b]
      BY <1>0, <1>17, <2>2, SetModeEffect DEF ReadLock
    <3>2. Others
      BY <1>0, <1>17, <3>1 DEF ReadLock, Goto, Types, Others
    <3>3. File(c)' = File(c) /\ Tmp(c)' = Tmp(c)
      BY <1>17 DEF ReadLock, File, Tmp
    <3>4. LocksOf(c)'
      BY <1>0, <3>1, <3>3 DEF Goto, Types, LocksOf, Writing, FileModes
    <3> QED
      BY <1>a, <3>2, <3>4
  <2> QED
    BY <2>1, <2>2
<1>18. CASE LockFile(c)
  <2>1. CASE mode' = mode
    <3>1. /\ key' = key /\ pc' \in [Clients -> States]
          /\ \A d \in Clients : d # c => pc'[d] = pc[d]
      BY <1>0, <1>18 DEF LockFile, Goto, Types
    <3>2. Others
      BY <2>1, <3>1 DEF Others
    <3>3. pc'[c] \in Writing <=> pc[c] \in Writing
      BY <1>0, <1>18 DEF LockFile, Goto, Types, Writing
    <3>4. CASE SetMode(File(c), c, "write")
      <4>1. mode[File(c)][c] = "none" /\ mode'[File(c)][c] = "write"
        BY <1>0, <1>18, <3>4, SetModeEffect DEF LockFile, Goto, LocksOf, FileModes
      <4> QED
        BY <2>1, <4>1
    <3>5. CASE ~SetMode(File(c), c, "write")
      <4>1. mode[File(c)][c] \in FileModes(pc'[c])
        BY <1>0, <1>18, <3>5 DEF LockFile, Goto, Types, LocksOf, FileModes
      <4> QED
        BY <1>0, <1>a, <2>1, <3>1, <3>2, <3>3, <4>1, QuietLocks
    <3> QED
      BY <3>4, <3>5
  <2>2. CASE mode' # mode
    <3>1. /\ mode'[File(c)][c] = "write" /\ Goto(c, "lockFile", "rename")
          /\ \A x \in Names, b \in Agents : x # File(c) \/ b # c => mode'[x][b] = mode[x][b]
      BY <1>0, <1>18, <2>2, SetModeEffect DEF LockFile
    <3>2. Others
      BY <1>0, <1>18, <3>1 DEF LockFile, Goto, Types, Others
    <3>3. File(c)' = File(c) /\ Tmp(c)' = Tmp(c)
      BY <1>18 DEF LockFile, File, Tmp
    <3>4. LocksOf(c)'
      BY <1>0, <3>1, <3>3 DEF Goto, Types, LocksOf, Writing, FileModes
    <3> QED
      BY <1>a, <3>2, <3>4
  <2> QED
    BY <2>1, <2>2
<1>19. CASE Check(c)
  <2>1. CASE Exists(File(c))
    <3>1. /\ mode' = mode /\ key' = key /\ pc[c] = "check" /\ pc'[c] = "open"
          /\ \A d \in Clients : d # c => pc'[d] = pc[d]
      BY <1>0, <1>19, <2>1 DEF Check, Goto, Types
    <3>2. Others
      BY <3>1 DEF Others
    <3>3. "open" \in States /\ mode[File(c)][c] \in FileModes("open")
      BY <1>0, <3>1 DEF States, LocksOf, FileModes
    <3>4. "open" \in Writing <=> pc[c] \in Writing
      BY <3>1 DEF Writing
    <3> QED
      BY <1>0, <1>a, <3>1, <3>2, <3>3, <3>4, QuietLocks
  <2>2. CASE ~Exists(File(c))
    <3>1. /\ key' = key /\ pc[c] = "check" /\ pc'[c] = "idle"
          /\ \A d \in Clients : d # c => pc'[d] = pc[d]
          /\ mode' = [mode EXCEPT ![File(c)][c] = "none", ![File(c)][Gc] = "read"]
      BY <1>0, <1>19, <2>2 DEF Check, Goto, Types
    <3>2. /\ mode'[File(c)][c] = "none"
          /\ \A x \in Names, d \in Clients : x # File(c) \/ d # c => mode'[x][d] = mode[x][d]
      BY <1>0, <3>1, CacheAssumption DEF Types
    <3>3. Others
      BY <3>1, <3>2 DEF Others
    <3>4. File(c)' = File(c) /\ Tmp(c)' = Tmp(c)
      BY <3>1 DEF File, Tmp
    <3>5. LocksOf(c)'
      <4>1. mode[Tmp(c)][c] = "none" /\ \A x \in Names \ {File(c), Tmp(c)} : mode[x][c] = "none"
        BY <1>0, <3>1 DEF LocksOf, Writing
      <4>2. \A x \in Names : mode'[x][c] = "none"
        BY <1>0, <3>2, <4>1
      <4> QED
        <5>1. "idle" \notin Writing /\ FileModes("idle") = {"none"}
          BY DEF Writing, FileModes
        <5>2. /\ \A x \in Names \ {File(c)', Tmp(c)'} : mode'[x][c] = "none"
              /\ mode'[Tmp(c)'][c] = "none" /\ mode'[File(c)'][c] = "none"
          BY <1>0, <3>4, <4>2
        <5> QED
          BY <3>1, <5>1, <5>2 DEF LocksOf
    <3> QED
      BY <1>a, <3>3, <3>5
  <2> QED
    BY <2>1, <2>2
<1> QED
  BY <1>1, <1>2, <1>3, <1>4, <1>5, <1>6, <1>7, <1>8, <1>9, <1>10, <1>11, <1>12,
     <1>13, <1>14, <1>15, <1>16, <1>17, <1>18, <1>19 DEF ClientStep

\* Nothing else touches a client's locks.
LEMMA BackgroundLocks ==
    ASSUME TypeOK, Background, Types'
    PROVE  /\ \A d \in Clients : LocksOf(d)'
           /\ pc' = pc /\ key' = key
           /\ \A n \in Names, a \in Agents : mode'[n][a] = mode[n][a] \/ mode'[n][a] = "none"
<1>1. pc' = pc /\ key' = key
  BY DEF Background, TrimStep, Finalize, ListFiles, SweepDelete, SweepEnds, TrimEnds, Sweep,
         DeleteFileWithLock, DeleteRow, DeleteExpired, Select, Expire, clients
<1>2. CASE \E n \in Names : Finalize(n)
  <2>1. PICK n \in Names : Finalize(n)
    BY <1>2
  <2>2. /\ mode'[n][Gc] = "none"
        /\ \A x \in Names, b \in Agents : x # n \/ b # Gc => mode'[x][b] = mode[x][b]
    BY <2>1, SetModeEffect DEF Finalize, TypeOK, Agents, Modes
  <2>3. \A x \in Names, d \in Clients : mode'[x][d] = mode[x][d]
    BY <2>2, CacheAssumption DEF Agents
  <2> QED
    BY <1>1, <2>2, <2>3, LocksKept DEF TypeOK
<1>3. CASE mode' = mode
  BY <1>1, <1>3, LocksKept DEF TypeOK
<1> QED
  BY <1>2, <1>3 DEF Background, TrimStep, ListFiles, SweepDelete, SweepEnds, TrimEnds, Sweep,
         DeleteFileWithLock, DeleteRow, DeleteExpired, Select, Expire

-----------------------------------------------------------------------------
(* Writers are alone, and so their temporary files.                        *)

\* A lock held to write is held by nobody else.
Exclusive ==
    \A n \in Names : \A a, b \in Agents : a # b /\ mode[n][a] = "write" => mode[n][b] = "none"

\* A lock that is returned, or granted as tryLock grants it, leaves it so.
LEMMA GrantedExclusive ==
    ASSUME Types, Exclusive, NEW n \in Names, NEW a \in Agents, NEW m \in Modes,
           SetMode(n, a, m), m = "none" \/ Compatible(n, a, m)
    PROVE  Exclusive'
  BY SetModeEffect DEF Exclusive, Compatible, Modes

LEMMA ClientExclusive ==
    ASSUME TypeOK, Exclusive, NEW c \in Clients,
           ClientStep(c) \/ \E k \in Keys : Get(c, k) \/ Create(c, k)
    PROVE  Exclusive'
<1>0. /\ Types /\ LocksOf(c) /\ File(c) \in Names /\ Tmp(c) \in Names /\ c \in Agents /\ Gc \in Agents
      /\ c # Gc /\ "none" \in Modes /\ "read" \in Modes /\ "write" \in Modes
  BY NameFacts, CacheAssumption DEF TypeOK, Agents, Modes
<1>1. CASE mode' = mode
  BY <1>1 DEF Exclusive
<1>2. CASE Close(c) \/ Undo(c) \/ ReleaseTmp(c) \/ CloseTmp(c)
  BY <1>0, <1>2, GrantedExclusive DEF Close, Undo, ReleaseTmp, CloseTmp
<1>3. CASE (ReadLock(c) \/ LockFile(c)) /\ mode' # mode
  BY <1>0, <1>3, GrantedExclusive DEF ReadLock, LockFile
<1>4. CASE \E k \in Keys : Create(c, k)
  <2>1. PICK k \in Keys : Create(c, k)
    BY <1>4
  <2>2. <<k, "tmp">> \in Names
    BY DEF Names
  <2> QED
    BY <1>0, <2>1, <2>2, GrantedExclusive DEF Create
<1>5. CASE Check(c) /\ mode' # mode
  <2>1. /\ pc[c] = "check"
        /\ mode' = [mode EXCEPT ![File(c)][c] = "none", ![File(c)][Gc] = "read"]
    BY <1>5 DEF Check, Goto
  <2>2. mode[File(c)][c] = "read"
    BY <1>0, <2>1 DEF LocksOf, FileModes
  <2>3. \A b \in Agents : mode[File(c)][b] # "write"
    BY <1>0, <2>2 DEF Exclusive
  <2>4. /\ mode'[File(c)][c] = "none" /\ mode'[File(c)][Gc] = "read"
        /\ \A b \in Agents : b # c /\ b # Gc => mode'[File(c)][b] = mode[File(c)][b]
        /\ \A x \in Names, b \in Agents : x # File(c) => mode'[x][b] = mode[x][b]
    BY <1>0, <2>1 DEF Types
  <2> QED
    BY <1>0, <2>3, <2>4 DEF Exclusive
<1> QED
  BY <1>1, <1>2, <1>3, <1>4, <1>5
  DEF ClientStep, FileExists, OpenTmp, Written, RangeRefused, DownloadFails, Commit, Rename,
      UndoDelete, Replace, DeleteTmp, Get

\* Two clients that are writing have two temporary files.
LEMMA SoleWriter ==
    ASSUME TypeOK, Exclusive, NEW c \in Clients, NEW d \in Clients, c # d,
           pc[c] \in Writing, pc[d] \in Writing
    PROVE  Tmp(c) # Tmp(d)
<1>1. mode[Tmp(c)][c] = "write" /\ mode[Tmp(d)][d] = "write"
  BY DEF TypeOK, LocksOf
<1> QED
  BY <1>1, NameFacts DEF TypeOK, Exclusive, Agents

-----------------------------------------------------------------------------
(* What the files contain.                                                 *)

\* The temporary file of a client that is writing is its own, or gone; that of
\* a client on its way to the rename is complete, or gone.
OwnOf(c) ==
    /\ pc[c] = "writing" => disk[Tmp(c)] = Absent \/ disk[Tmp(c)].by = c
    /\ pc[c] \in {"commit", "lockFile", "rename"} => disk[Tmp(c)] = Absent \/ disk[Tmp(c)].done

TmpOwn == \A c \in Clients : OwnOf(c)

\* Deleting a file harms neither.
LEMMA DeleteHarmless ==
    ASSUME Types, NEW n \in Names, Delete(n)
    PROVE  /\ disk'[n] = Absent
           /\ \A x \in Names : x # n => disk'[x] = disk[x]
           /\ CompleteOnly => CompleteOnly'
<1>1. disk'[n] = Absent /\ \A x \in Names : x # n => disk'[x] = disk[x]
  BY DEF Types, Delete
<1>2. \A k \in Keys : <<k, "file">> \in Names
  BY DEF Names
<1> QED
  BY <1>1, <1>2 DEF CompleteOnly, Exists

\* A client that stays where it is, with its file kept or deleted, is fine.
LEMMA OwnKept ==
    ASSUME NEW d \in Clients, OwnOf(d), pc'[d] = pc[d], key'[d] = key[d],
           disk'[Tmp(d)] = disk[Tmp(d)] \/ disk'[Tmp(d)] = Absent
    PROVE  OwnOf(d)'
  BY DEF OwnOf, Tmp

\* A step of a client keeps what the files contain.
LEMMA ClientFiles ==
    ASSUME TypeOK, Types', Exclusive, TmpOwn, CompleteOnly, NEW c \in Clients,
           ClientStep(c) \/ \E k \in Keys : Get(c, k) \/ Create(c, k)
    PROVE  TmpOwn' /\ CompleteOnly'
<1>0. /\ Types /\ OwnOf(c) /\ \A d \in Clients : OwnOf(d) /\ Tmp(d) \in Names /\ Tmp(d) # File(c)
      /\ File(c) \in Names /\ \A k \in Keys : <<k, "file">> \in Names
      /\ \A d \in Clients : pc[d] \in {"writing", "commit", "lockFile", "rename"} => pc[d] \in Writing
      /\ \A k \in Keys : <<k, "file">> # Tmp(c)
  BY NameFacts DEF TypeOK, TmpOwn, Names, Writing, Tmp
<1>b. ASSUME pc[c] \in Writing, NEW d \in Clients, d # c,
             \A x \in Names : x # Tmp(c) /\ x # File(c) => disk'[x] = disk[x],
             pc'[d] = pc[d], key'[d] = key[d]
      PROVE  OwnOf(d)'
  <2>1. CASE pc[d] \in {"writing", "commit", "lockFile", "rename"}
    BY <1>0, <1>b, <2>1, SoleWriter, OwnKept
  <2>2. CASE pc[d] \notin {"writing", "commit", "lockFile", "rename"}
    BY <1>b, <2>2 DEF OwnOf
  <2> QED
    BY <2>1, <2>2
<1>1. CASE disk' = disk /\ pc'[c] \notin {"writing", "commit", "lockFile", "rename"}
           /\ \A d \in Clients : d # c => pc'[d] = pc[d] /\ key'[d] = key[d]
  BY <1>0, <1>1, OwnKept DEF TmpOwn, OwnOf, CompleteOnly, Exists
<1>2. CASE Commit(c) \/ LockFile(c)
  <2>1. /\ disk' = disk /\ key' = key /\ \A d \in Clients : d # c => pc'[d] = pc[d]
        /\ pc[c] \in {"commit", "lockFile"} /\ pc'[c] # "writing"
    BY <1>0, <1>2 DEF Commit, LockFile, Goto, Types
  <2> QED
    BY <1>0, <2>1, OwnKept DEF TmpOwn, OwnOf, CompleteOnly, Exists, Tmp
<1>3. CASE OpenTmp(c) \/ RangeRefused(c) \/ Written(c)
  <2>1. /\ key' = key /\ \A d \in Clients : d # c => pc'[d] = pc[d]
        /\ pc[c] \in Writing
        /\ \A x \in Names : x # Tmp(c) => disk'[x] = disk[x]
        /\ pc'[c] \in {"writing", "commit"}
    BY <1>0, <1>3 DEF OpenTmp, RangeRefused, Written, Goto, Types, Writing
  <2>2. CompleteOnly'
    BY <1>0, <2>1 DEF CompleteOnly, Exists
  <2>3. OwnOf(c)'
    <3>0. Tmp(c)' = Tmp(c) /\ Tmp(c) \in Names
      BY <1>0, <2>1 DEF Tmp
    <3>1. CASE OpenTmp(c) \/ RangeRefused(c)
      <4>1. /\ disk'[Tmp(c)].by = c
            /\ pc'[c] = "writing" \/ (pc'[c] = "commit" /\ disk'[Tmp(c)].done)
        BY <1>0, <3>1 DEF OpenTmp, RangeRefused, Goto, Types
      <4> QED
        BY <3>0, <4>1 DEF OwnOf
    <3>2. CASE Written(c)
      BY <1>0, <3>2 DEF Written, Goto, Types, OwnOf, Tmp
    <3> QED
      BY <1>3, <3>1, <3>2
  <2> QED
    BY <1>b, <2>1, <2>2, <2>3 DEF TmpOwn
<1>4. CASE Rename(c)
  <2>1. /\ key' = key /\ pc[c] = "rename" /\ pc[c] \in Writing
        /\ \A d \in Clients : d # c => pc'[d] = pc[d]
        /\ pc'[c] \in {"replace", "undo"}
    BY <1>0, <1>4 DEF Rename, Goto, Types, Writing
  <2>2. /\ \A x \in Names : x # Tmp(c) /\ x # File(c) => disk'[x] = disk[x]
        /\ disk'[File(c)] = disk[File(c)] \/ (disk'[File(c)] = disk[Tmp(c)] /\ Exists(Tmp(c)))
    <3>1. CASE Exists(Tmp(c))
      <4>1. disk' = [disk EXCEPT ![File(c)] = disk[Tmp(c)], ![Tmp(c)] = Absent]
        BY <1>4, <3>1 DEF Rename
      <4>2. Tmp(c) \in Names /\ File(c) \in Names /\ Tmp(c) # File(c) /\ DOMAIN disk = Names
        BY <1>0 DEF Types
      <4>3. disk'[File(c)] = disk[Tmp(c)] /\ \A x \in Names : x # Tmp(c) /\ x # File(c) => disk'[x] = disk[x]
        BY <4>1, <4>2
      <4> QED
        BY <3>1, <4>3
    <3>2. CASE ~Exists(Tmp(c))
      BY <1>4, <3>2 DEF Rename
    <3> QED
      BY <3>1, <3>2
  <2>3. Exists(Tmp(c)) => disk[Tmp(c)].done
    BY <1>0, <2>1 DEF OwnOf, Exists
  <2>4. CompleteOnly'
    BY <1>0, <2>2, <2>3 DEF CompleteOnly, Exists
  <2>5. OwnOf(c)'
    BY <2>1 DEF OwnOf
  <2> QED
    BY <1>b, <2>1, <2>2, <2>4, <2>5 DEF TmpOwn
<1>5. CASE UndoDelete(c) \/ DeleteTmp(c)
  <2>1. /\ key' = key /\ \A d \in Clients : d # c => pc'[d] = pc[d]
        /\ pc'[c] \in {"closeTmp", "open", "idle"}
    BY <1>0, <1>5 DEF UndoDelete, DeleteTmp, Goto, Types
  <2>2. PICK n \in Names : Delete(n)
    BY <1>0, <1>5 DEF UndoDelete, DeleteTmp
  <2>3. OwnOf(c)'
    BY <2>1 DEF OwnOf
  <2> QED
    BY <1>0, <2>1, <2>2, <2>3, DeleteHarmless, OwnKept DEF TmpOwn
<1>6. CASE \/ FileExists(c) \/ ReadLock(c) \/ Check(c) \/ Close(c) \/ DownloadFails(c) \/ Undo(c)
           \/ Replace(c) \/ ReleaseTmp(c) \/ CloseTmp(c) \/ \E k \in Keys : Get(c, k) \/ Create(c, k)
  <2>1. disk' = disk
    BY <1>6 DEF FileExists, ReadLock, Check, Close, DownloadFails, Undo, Replace, ReleaseTmp,
                CloseTmp, Get, Create
  <2>2. pc'[c] \notin {"writing", "commit", "lockFile", "rename"}
    BY <1>0, <1>6 DEF FileExists, ReadLock, Check, Close, DownloadFails, Undo, Replace, ReleaseTmp,
                      CloseTmp, Get, Create, Goto, Types
  <2>3. \A d \in Clients : d # c => pc'[d] = pc[d] /\ key'[d] = key[d]
    BY <1>0, <1>6 DEF FileExists, ReadLock, Check, Close, DownloadFails, Undo, Replace, ReleaseTmp,
                      CloseTmp, Get, Create, Goto, Types
  <2> QED
    BY <1>1, <2>1, <2>2, <2>3
<1> QED
  BY <1>2, <1>3, <1>4, <1>5, <1>6 DEF ClientStep

\* So does what goes on beside the clients: it only deletes.
LEMMA BackgroundFiles ==
    ASSUME TypeOK, TmpOwn, CompleteOnly, Background, pc' = pc, key' = key
    PROVE  TmpOwn' /\ CompleteOnly'
<1>1. disk' = disk \/ \E n \in Names : Delete(n)
  BY DEF Background, TrimStep, Finalize, ListFiles, SweepDelete, SweepEnds, TrimEnds, Sweep,
         DeleteFileWithLock, DeleteRow, DeleteExpired, Select, Expire, TrimGoto, TypeOK, Types
<1>2. \A d \in Clients : Tmp(d) \in Names /\ OwnOf(d)
  BY NameFacts DEF TypeOK, TmpOwn
<1>3. CASE disk' = disk
  BY <1>2, <1>3, OwnKept DEF TmpOwn, CompleteOnly, Exists
<1>4. CASE \E n \in Names : Delete(n)
  BY <1>2, <1>4, DeleteHarmless, OwnKept DEF TmpOwn, TypeOK
<1> QED
  BY <1>1, <1>3, <1>4

-----------------------------------------------------------------------------
\* The inductive invariant: CompleteOnly rests on the file that is renamed
\* being complete, this on its writer being alone with it, and this on the
\* locks that TypeOK says a client has wherever it stands.
CacheInv == TypeOK /\ Exclusive /\ TmpOwn /\ CompleteOnly

THEOREM CacheInvariant == Spec => []CacheInv
<1>1. Init => CacheInv
  <2> SUFFICES ASSUME Init PROVE CacheInv
    OBVIOUS
  <2>1. Types
    BY DEF Init, Types, Present, States, Names
  <2>2. \A k \in Keys : <<k, "file">> \in Names /\ <<k, "tmp">> \in Names
    BY DEF Names
  <2>3. \A n \in Names, a \in Agents : mode[n][a] = "none"
    BY DEF Init
  <2>4. \A c \in Clients : pc[c] = "idle" /\ c \in Agents
    BY DEF Init, Agents
  <2>5. \A c \in Clients : LocksOf(c)
    BY <2>1, <2>3, <2>4, NameFacts DEF LocksOf, Writing, FileModes
  <2>6. Exclusive
    BY <2>3 DEF Exclusive
  <2>7. TmpOwn
    BY <2>4 DEF TmpOwn, OwnOf
  <2>8. CompleteOnly
    <3>1. ASSUME NEW k \in Keys, Exists(<<k, "file">>) PROVE disk[<<k, "file">>].done
      BY <2>2, <3>1 DEF Init
    <3> QED
      BY <3>1 DEF CompleteOnly
  <2> QED
    BY <2>1, <2>5, <2>6, <2>7, <2>8 DEF CacheInv, TypeOK
<1>2. CacheInv /\ [Next]_vars => CacheInv'
  <2> SUFFICES ASSUME CacheInv, [Next]_vars PROVE CacheInv'
    OBVIOUS
  <2>0. TypeOK /\ Types /\ Exclusive /\ TmpOwn /\ CompleteOnly
    BY DEF CacheInv, TypeOK
  <2>1. ASSUME NEW c \in Clients, ClientStep(c) \/ \E k \in Keys : Get(c, k) \/ Create(c, k)
        PROVE  CacheInv'
    <3>1. Types'
      BY <2>0, <2>1, ClientType
    <3> QED
      BY <2>0, <2>1, <3>1, ClientLocks, ClientExclusive, ClientFiles DEF CacheInv, TypeOK
  <2>2. CASE Background
    <3>1. Types'
      BY <2>0, <2>2, BackgroundType
    <3>2. /\ \A d \in Clients : LocksOf(d)'
          /\ pc' = pc /\ key' = key
          /\ \A n \in Names, a \in Agents : mode'[n][a] = mode[n][a] \/ mode'[n][a] = "none"
      BY <2>0, <2>2, <3>1, BackgroundLocks
    <3>3. Exclusive'
      BY <2>0, <3>2 DEF Exclusive
    <3>4. TmpOwn' /\ CompleteOnly'
      BY <2>0, <2>2, <3>2, BackgroundFiles
    <3> QED
      BY <3>1, <3>2, <3>3, <3>4 DEF CacheInv, TypeOK
  <2>3. CASE UNCHANGED vars
    <3>1. /\ row' = row /\ known' = known /\ disk' = disk /\ mode' = mode /\ pc' = pc /\ key' = key
          /\ trim' = trim /\ todo' = todo /\ cur' = cur
      BY <2>3 DEF vars, clients, trimmer
    <3>2. Types'
      BY <2>0, <3>1 DEF Types
    <3>3. (\A c \in Clients : LocksOf(c))' /\ Exclusive'
      BY <2>0, <3>1, LocksKept DEF TypeOK, Exclusive
    <3>4. TmpOwn' /\ CompleteOnly'
      BY <2>0, <3>1, OwnKept DEF TmpOwn, CompleteOnly, Exists
    <3> QED
      BY <3>2, <3>3, <3>4 DEF CacheInv, TypeOK
  <2> QED
    BY <2>1, <2>2, <2>3 DEF Next, Background
<1> QED
  BY <1>1, <1>2, PTL DEF Spec

\* The variables keep their types, and every client has exactly the locks it
\* should have, for any number of keys and clients.
THEOREM CacheTypeCorrect == Spec => []TypeOK
<1>1. CacheInv => TypeOK
  BY DEF CacheInv
<1> QED
  BY <1>1, CacheInvariant, PTL

\* Nothing but complete downloads gets into the cache, although the clean-up
\* and other clients delete temporary files under the writer's feet.
THEOREM OnlyCompleteFiles == Spec => []CompleteOnly
<1>1. CacheInv => CompleteOnly
  BY DEF CacheInv
<1> QED
  BY <1>1, CacheInvariant, PTL

\* The lock protects the file a client has open from every step that asks for
\* it: only the clean-up and a failed commit, which do not, may change it.
THEOREM OpenFilesSafe == Spec => OpenFilesStay
<1> DEFINE Spared == \A c \in Clients :
                        pc[c] = "open" /\ disk'[File(c)] # disk[File(c)]
                        => trim = "sweepDelete" \/ \E d \in Clients : pc[d] = "undoDelete"
<1>1. ASSUME CacheInv, Next, NEW c \in Clients, pc[c] = "open", disk'[File(c)] # disk[File(c)]
      PROVE  trim = "sweepDelete" \/ \E d \in Clients : pc[d] = "undoDelete"
  <2>0. /\ Types /\ Exclusive /\ LocksOf(c) /\ File(c) \in Names
        /\ \A d \in Clients : /\ LocksOf(d) /\ Tmp(d) # File(c) /\ d \in Agents
                              /\ File(d) \in Names /\ Tmp(d) \in Names
    BY <1>1, NameFacts DEF CacheInv, TypeOK, Agents
  <2>1. mode[File(c)][c] # "none"
    BY <1>1, <2>0 DEF LocksOf, FileModes
  <2>2. ASSUME NEW d \in Clients, ClientStep(d) \/ \E k \in Keys : Get(d, k) \/ Create(d, k)
        PROVE  pc[d] = "undoDelete"
    <3>1. CASE UndoDelete(d)
      BY <3>1 DEF UndoDelete, Goto
    <3>2. CASE Rename(d)
      <4>1. pc[d] = "rename" /\ d # c
        BY <1>1, <3>2 DEF Rename, Goto
      <4>2. mode[File(d)][d] = "write"
        BY <2>0, <4>1 DEF LocksOf, FileModes
      <4>3. File(d) # File(c)
        BY <2>0, <2>1, <4>1, <4>2 DEF Exclusive
      <4>4. disk'[File(c)] = disk[File(c)]
        BY <2>0, <3>2, <4>3 DEF Rename, Types
      <4> QED
        BY <1>1, <4>4
    <3>3. CASE OpenTmp(d) \/ Written(d) \/ RangeRefused(d)
      BY <1>1, <2>0, <3>3 DEF OpenTmp, Written, RangeRefused, Types
    <3>4. CASE DeleteTmp(d)
      BY <1>1, <2>0, <3>4, DeleteHarmless DEF DeleteTmp
    <3>5. CASE disk' = disk
      BY <1>1, <3>5
    <3> QED
      BY <2>2, <3>1, <3>2, <3>3, <3>4, <3>5
      DEF ClientStep, Get, Create, FileExists, ReadLock, Check, Close, DownloadFails, Commit,
          LockFile, Undo, Replace, ReleaseTmp, CloseTmp
  <2>3. ASSUME Background PROVE trim = "sweepDelete"
    <3>1. CASE SweepDelete
      BY <3>1 DEF SweepDelete, TrimGoto
    <3>2. CASE \E n \in Names : DeleteFileWithLock(n)
      <4>1. PICK n \in Names : DeleteFileWithLock(n)
        BY <3>2
      <4>2. n # File(c) \/ disk' = disk
        BY <2>0, <2>1, <4>1 DEF DeleteFileWithLock, Agents
      <4>3. disk'[File(c)] = disk[File(c)]
        BY <2>0, <4>1, <4>2, DeleteHarmless DEF DeleteFileWithLock
      <4> QED
        BY <1>1, <4>3
    <3>3. CASE disk' = disk
      BY <1>1, <3>3
    <3> QED
      BY <2>3, <3>1, <3>2, <3>3
      DEF Background, TrimStep, Finalize, ListFiles, SweepEnds, TrimEnds, Sweep, DeleteRow,
          DeleteExpired, Select, Expire
  <2> QED
    BY <1>1, <2>2, <2>3 DEF Next, Background
<1>2. CacheInv /\ [Next]_vars => [Spared]_vars
  BY <1>1
<1>3. Spec => [][Spared]_vars
  BY <1>2, CacheInvariant, PTL DEF Spec
<1> QED
  BY <1>3 DEF OpenFilesStay
=============================================================================
