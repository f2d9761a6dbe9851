------------------------------ MODULE DiskCache ------------------------------
(***************************************************************************)
(* The files of LruDiskCache: clients that look a file up or download a    *)
(* new one and commit it, and the trim thread, which first cleans up after *)
(* earlier runs of the program and then trims.                             *)
(*                                                                         *)
(* Each key has a row in the database, a file, and a temporary file, and   *)
(* both files have a ProcessLock (the RWLock it implements, by the file's  *)
(* name).  One step makes one call of the database, the file system or the *)
(* lock.  Sizes are left out: trimming may choose any row, at any time     *)
(* (put() of another request starts it too).  A row is deleted by the id   *)
(* its entity was read with, and replacing it gives it a new id.           *)
(***************************************************************************)
EXTENDS FiniteSets

CONSTANTS Keys,
          Clients,  \* threads with a request
          Gc,       \* holds the locks of objects that await their finaliser
          Old,      \* wrote what is there from earlier runs
          Trim,     \* the trim thread
          None      \* nobody, nothing

ASSUME CacheAssumption ==
    /\ Gc \notin Clients /\ Trim \notin Clients
    /\ Old \notin Clients /\ None \notin Clients \cup {Old}

Agents == Clients \cup {Gc}

Names == Keys \X {"file", "tmp"}

VARIABLES row,    \* row[k]: "none", or whether its entity is expired
          known,  \* <<a, k>>: a has read the entity that is the row of k now
          disk,   \* disk[n]: who wrote the file n, and did its download end well
          mode,   \* mode[n][a]: how a holds the lock of file n
          pc,     \* pc[c]: where client c stands
          key,    \* key[c]: the key of its request
          trim,   \* where the trim thread stands
          todo,   \* what is left of the list it works on
          cur     \* the file, or the key, it works on

clients == <<pc, key>>
trimmer == <<trim, todo, cur>>
vars == <<row, known, disk, mode, clients, trimmer>>

Absent == [by |-> None, done |-> FALSE]
Present == [by : Clients \cup {Old}, done : BOOLEAN]

Exists(n) == disk[n] # Absent

\* The file system deletes by name, whoever has the file open.
Delete(n) == disk' = [disk EXCEPT ![n] = Absent]

SetMode(n, a, m) == mode' = [mode EXCEPT ![n][a] = m]

\* ProcessLock.tryLock, as RWLock has it, with the name n.
Compatible(n, a, m) ==
    \A b \in Agents \ {a} : mode[n][b] = "none" \/ (m = "read" /\ mode[n][b] = "read")

\* cacheDb.delete(entity), with the entity a has read.
DeleteEntity(a, k) ==
    IF <<a, k>> \in known
    THEN /\ row' = [row EXCEPT ![k] = "none"]
         /\ known' = {p \in known : p[2] # k}
    ELSE UNCHANGED <<row, known>>

\* The constructor: deleteNoIndexFiles is the first job of trimExecutor.
Init ==
    /\ row \in [Keys -> {"none", "fresh"}]
    /\ known = {}
    /\ disk \in [Names -> {Absent} \cup {[by |-> Old, done |-> d] : d \in BOOLEAN}]
    /\ \A n \in Names : n[2] = "file" /\ Exists(n) => disk[n].done
    /\ mode = [n \in Names |-> [a \in Agents |-> "none"]]
    /\ pc = [c \in Clients |-> "idle"]
    /\ key \in [Clients -> Keys]
    /\ trim = "list"
    /\ todo = {}
    /\ cur = None

Goto(c, from, to) == pc[c] = from /\ pc' = [pc EXCEPT ![c] = to]

File(c) == <<key[c], "file">>
Tmp(c) == <<key[c], "tmp">>

-----------------------------------------------------------------------------
(* getDiskCacheFile.                                                       *)

\* get: an expired entity is as good as none.
Get(c, k) ==
    /\ row[k] = "fresh"
    /\ Goto(c, "idle", "exists")
    /\ key' = [key EXCEPT ![c] = k]
    /\ known' = known \cup {<<c, k>>}
    /\ UNCHANGED <<row, disk, mode, trimmer>>

FileExists(c) ==
    /\ Goto(c, "exists", IF Exists(File(c)) THEN "lock" ELSE "idle")
    /\ UNCHANGED <<row, known, disk, mode, key, trimmer>>

\* tryLock for LOCK_WAIT: gets the lock, or nothing.
ReadLock(c) ==
    /\ \/ Compatible(File(c), c, "read") /\ Goto(c, "lock", "check") /\ SetMode(File(c), c, "read")
       \/ Goto(c, "lock", "idle") /\ UNCHANGED mode
    /\ UNCHANGED <<row, known, disk, key, trimmer>>

\* Without its file the entity is deleted (the database may throw), and the
\* lock is left to the finaliser.
Check(c) ==
    /\ IF Exists(File(c))
       THEN /\ Goto(c, "check", "open")
            /\ UNCHANGED <<row, known, mode>>
       ELSE /\ Goto(c, "check", "idle")
            /\ DeleteEntity(c, key[c]) \/ UNCHANGED <<row, known>>
            /\ mode' = [mode EXCEPT ![File(c)][c] = "none", ![File(c)][Gc] = "read"]
    /\ UNCHANGED <<disk, key, trimmer>>

\* The client closes what it got.
Close(c) ==
    /\ Goto(c, "open", "idle")
    /\ SetMode(File(c), c, "none")
    /\ UNCHANGED <<row, known, disk, key, trimmer>>

\* Mutant: DiskCacheFile has no finaliser.
FinalizeNothing(n) ==
    /\ mode[n][Gc] # "none"
    /\ UNCHANGED vars

Finalize(n) ==
    /\ mode[n][Gc] # "none"
    /\ SetMode(n, Gc, "none")
    /\ UNCHANGED <<row, known, disk, clients, trimmer>>

-----------------------------------------------------------------------------
(* createDiskCacheFile, the download by FileLoader, commitDiskCacheFile.   *)

\* Mutant: a second writer is not refused.
CreateAnyway(c, k) ==
    /\ Goto(c, "idle", "opening")
    /\ key' = [key EXCEPT ![c] = k]
    /\ SetMode(<<k, "tmp">>, c, "write")
    /\ UNCHANGED <<row, known, disk, trimmer>>

\* FileLockedException without the lock: the request ends here.
Create(c, k) ==
    /\ Compatible(<<k, "tmp">>, c, "write")
    /\ Goto(c, "idle", "opening")
    /\ key' = [key EXCEPT ![c] = k]
    /\ SetMode(<<k, "tmp">>, c, "write")
    /\ UNCHANGED <<row, known, disk, trimmer>>

\* FileLoader opens the temporary file, to resume or to overwrite it.
OpenTmp(c) ==
    /\ Goto(c, "opening", "writing")
    /\ disk' = [disk EXCEPT ![Tmp(c)] = [by |-> c, done |-> FALSE]]
    /\ UNCHANGED <<row, known, mode, key, trimmer>>

\* The last block is written, to the file that was opened.
Written(c) ==
    /\ Goto(c, "writing", "commit")
    /\ IF disk[Tmp(c)].by = c
       THEN disk' = [disk EXCEPT ![Tmp(c)] = [by |-> c, done |-> TRUE]]
       ELSE UNCHANGED disk
    /\ UNCHANGED <<row, known, mode, key, trimmer>>

\* The server answers 416: there is nothing after what the file has.
RangeRefused(c) ==
    /\ Exists(Tmp(c))
    /\ Goto(c, "opening", "commit")
    /\ disk' = [disk EXCEPT ![Tmp(c)] = [by |-> c, done |-> TRUE]]
    /\ UNCHANGED <<row, known, mode, key, trimmer>>

\* The download fails; FileLoader closes the file and keeps what it has.
DownloadFails(c) ==
    /\ pc[c] \in {"opening", "writing"}
    /\ pc' = [pc EXCEPT ![c] = "closeTmp"]
    /\ UNCHANGED <<row, known, disk, mode, key, trimmer>>

\* An empty or missing file is closed and not committed.
Commit(c) ==
    /\ Goto(c, "commit", "closeTmp") \/ (Exists(Tmp(c)) /\ Goto(c, "commit", "lockFile"))
    /\ UNCHANGED <<row, known, disk, mode, key, trimmer>>

\* tryLock for LOCK_WAIT; FileLockedException when it is not
\* granted; when the thread is interrupted the temporary file is the result.
LockFile(c) ==
    /\ \/ Compatible(File(c), c, "write") /\ Goto(c, "lockFile", "rename") /\ SetMode(File(c), c, "write")
       \/ Goto(c, "lockFile", "closeTmp") /\ UNCHANGED mode
       \/ Goto(c, "lockFile", "release") /\ UNCHANGED mode
    /\ UNCHANGED <<row, known, disk, key, trimmer>>

Rename(c) ==
    /\ IF Exists(Tmp(c))
       THEN /\ Goto(c, "rename", "replace")
            /\ disk' = [disk EXCEPT ![File(c)] = disk[Tmp(c)], ![Tmp(c)] = Absent]
       ELSE /\ Goto(c, "rename", "undo")
            /\ UNCHANGED disk
    /\ UNCHANGED <<row, known, mode, key, trimmer>>

\* The finally block after a failed rename: the lock is closed ...
Undo(c) ==
    /\ Goto(c, "undo", "undoDelete")
    /\ SetMode(File(c), c, "none")
    /\ UNCHANGED <<row, known, disk, key, trimmer>>

\* ... and the file, of an earlier download, deleted.
UndoDelete(c) ==
    /\ Goto(c, "undoDelete", "closeTmp")
    /\ Delete(File(c))
    /\ UNCHANGED <<row, known, mode, key, trimmer>>

\* The row is replaced, or the database throws.
Replace(c) ==
    /\ Goto(c, "replace", "release")
    /\ \/ row' = [row EXCEPT ![key[c]] = "fresh"] /\ known' = {p \in known : p[2] # key[c]}
       \/ UNCHANGED <<row, known>>
    /\ UNCHANGED <<disk, mode, key, trimmer>>

\* The finally block of commit: the temporary file is closed ...
ReleaseTmp(c) ==
    /\ Goto(c, "release", "deleteTmp")
    /\ SetMode(Tmp(c), c, "none")
    /\ UNCHANGED <<row, known, disk, key, trimmer>>

\* ... and deleted by name.  The client has the new file, locked to write,
\* or, after an interrupt, nothing.
DeleteTmp(c) ==
    /\ Goto(c, "deleteTmp", IF mode[File(c)][c] = "write" THEN "open" ELSE "idle")
    /\ Delete(Tmp(c))
    /\ UNCHANGED <<row, known, mode, key, trimmer>>

\* Mutant: FileLoader does not close the temporary file after a failure.
CloseTmpForgotten(c) ==
    /\ Goto(c, "closeTmp", "idle")
    /\ UNCHANGED <<row, known, disk, mode, key, trimmer>>

\* FileLoader's finally block closes the temporary file.
CloseTmp(c) ==
    /\ Goto(c, "closeTmp", "idle")
    /\ SetMode(Tmp(c), c, "none")
    /\ UNCHANGED <<row, known, disk, key, trimmer>>

ClientStep(c) ==
    \/ FileExists(c) \/ ReadLock(c) \/ Check(c) \/ Close(c)
    \/ OpenTmp(c) \/ Written(c) \/ DownloadFails(c) \/ Commit(c) \/ LockFile(c)
    \/ RangeRefused(c) \/ Rename(c) \/ Undo(c) \/ UndoDelete(c) \/ Replace(c) \/ ReleaseTmp(c) \/ DeleteTmp(c)
    \/ CloseTmp(c)

-----------------------------------------------------------------------------
(* The trim thread.                                                        *)

TrimGoto(from, to) == trim = from /\ trim' = to

\* deleteNoIndexFiles lists the directory, ...
ListFiles ==
    /\ TrimGoto("list", "sweep")
    /\ todo' = {n \in Names : Exists(n)}
    /\ UNCHANGED <<row, known, disk, mode, clients, cur>>

\* ... looks for a row with the path of each file ...
Sweep(n) ==
    /\ n \in todo
    /\ todo' = todo \ {n}
    /\ IF n[2] = "file" /\ row[n[1]] # "none"
       THEN trim = "sweep" /\ UNCHANGED <<trim, cur>>
       ELSE TrimGoto("sweep", "sweepDelete") /\ cur' = n
    /\ UNCHANGED <<row, known, disk, mode, clients>>

\* ... and deletes the file without asking for its lock.
SweepDelete ==
    /\ TrimGoto("sweepDelete", "sweep")
    /\ Delete(cur)
    /\ cur' = None
    /\ UNCHANGED <<row, known, mode, clients, todo>>

SweepEnds ==
    /\ TrimGoto("sweep", "idle")
    /\ todo = {}
    /\ UNCHANGED <<row, known, disk, mode, clients, todo, cur>>

\* deleteExpiry selects the expired rows, then deletes the rows that are
\* expired by the same clock value.
DeleteExpired ==
    LET expired == {k \in Keys : row[k] = "expired"}
    IN  /\ TrimGoto("idle", "files")
        /\ todo' = expired \X {"file"}
        /\ row' = [k \in Keys |-> IF k \in expired THEN "none" ELSE row[k]]
        /\ known' = {p \in known : p[2] \notin expired}
        /\ UNCHANGED <<disk, mode, clients, cur>>

\* The count or the size is over its limit: some entities are selected, ...
Select(ks) ==
    /\ \A k \in ks : row[k] # "none"
    /\ TrimGoto("idle", "files")
    /\ todo' = ks \X {"row"}
    /\ known' = {p \in known : p[1] # Trim} \cup ({Trim} \X ks)
    /\ UNCHANGED <<row, disk, mode, clients, cur>>

\* ... and one after the other deleted, each with its files, or kept if the
\* database throws.
DeleteRow(k) ==
    /\ trim = "files" /\ <<k, "row">> \in todo /\ todo \cap Names = {}
    /\ \/ /\ DeleteEntity(Trim, k)
          /\ todo' = (todo \ {<<k, "row">>}) \cup {<<k, "file">>, <<k, "tmp">>}
       \/ /\ todo' = todo \ {<<k, "row">>}
          /\ UNCHANGED <<row, known>>
    /\ UNCHANGED <<disk, mode, clients, trim, cur>>

\* Mutant: the lock is not taken.
DeleteWithoutLock(n) ==
    /\ trim = "files" /\ n \in todo
    /\ n[2] = "tmp" => <<n[1], "file">> \notin todo
    /\ todo' = todo \ {n}
    /\ Delete(n)
    /\ UNCHANGED <<row, known, mode, clients, trim, cur>>

\* deleteFileWithLock: the lock is taken and returned around the deletion.
DeleteFileWithLock(n) ==
    /\ trim = "files" /\ n \in todo
    /\ n[2] = "tmp" => <<n[1], "file">> \notin todo
    /\ todo' = todo \ {n}
    /\ IF \A a \in Agents : mode[n][a] = "none" THEN Delete(n) ELSE UNCHANGED disk
    /\ UNCHANGED <<row, known, mode, clients, trim, cur>>

TrimEnds ==
    /\ TrimGoto("files", "idle")
    /\ todo = {}
    /\ UNCHANGED <<row, known, disk, mode, clients, todo, cur>>

TrimStep ==
    \/ ListFiles \/ SweepDelete \/ SweepEnds \/ TrimEnds
    \/ \E n \in Names : Sweep(n) \/ DeleteFileWithLock(n)
    \/ \E k \in Keys : DeleteRow(k)

-----------------------------------------------------------------------------
\* Time passes getExpires() of an entity.
Expire(k) ==
    /\ row[k] = "fresh"
    /\ row' = [row EXCEPT ![k] = "expired"]
    /\ UNCHANGED <<known, disk, mode, clients, trimmer>>

Next ==
    \/ \E c \in Clients : ClientStep(c)
    \/ \E c \in Clients, k \in Keys : Get(c, k) \/ Create(c, k)
    \/ \E n \in Names : Finalize(n)
    \/ TrimStep \/ DeleteExpired
    \/ \E ks \in SUBSET Keys \ {{}} : Select(ks)
    \/ \E k \in Keys : Expire(k)

Spec == Init /\ [][Next]_vars

\* Clients go on and close what they opened, the trim thread ends its jobs and
\* the collector comes; nobody has to ask for a file or to trim.
FairSpec ==
    /\ Spec
    /\ \A c \in Clients : WF_vars(ClientStep(c))
    /\ WF_vars(TrimStep)
    /\ \A n \in Names : WF_vars(Finalize(n))

-----------------------------------------------------------------------------
States == {"idle", "exists", "lock", "check", "open", "opening", "writing", "commit", "lockFile",
           "rename", "undo", "undoDelete", "replace", "release", "deleteTmp", "closeTmp"}

\* Where a client has its temporary file's lock.
Writing == {"opening", "writing", "commit", "lockFile", "rename", "undo", "undoDelete",
            "replace", "release", "closeTmp"}

\* How it may have its file's lock where it stands.
FileModes(at) ==
    CASE at = "check" -> {"read"}
      [] at = "open" -> {"read", "write"}
      [] at \in {"rename", "undo", "replace"} -> {"write"}
      [] at \in {"release", "deleteTmp"} -> {"none", "write"}
      [] OTHER -> {"none"}

\* Who holds which lock: that of its temporary file a writer from Create to the
\* close, that of its file a client from where it is granted to where it is
\* closed or left to the finaliser.
LocksOf(c) ==
    /\ \A n \in Names \ {File(c), Tmp(c)} : mode[n][c] = "none"
    /\ mode[Tmp(c)][c] = IF pc[c] \in Writing THEN "write" ELSE "none"
    /\ mode[File(c)][c] \in FileModes(pc[c])

Types ==
    /\ row \in [Keys -> {"none", "fresh", "expired"}]
    /\ known \subseteq (Clients \cup {Trim}) \X Keys
    /\ disk \in [Names -> {Absent} \cup Present]
    /\ mode \in [Names -> [Agents -> {"none", "read", "write"}]]
    /\ pc \in [Clients -> States]
    /\ key \in [Clients -> Keys]
    /\ trim \in {"list", "sweep", "sweepDelete", "idle", "files"}
    /\ todo \subseteq Keys \X {"row", "file", "tmp"}
    /\ cur \in Names \cup {None}
    /\ trim = "sweepDelete" => cur \in Names
    /\ trim \in {"sweep", "sweepDelete"} => todo \subseteq Names

\* The variables have their types, and clients the locks they should have.
TypeOK == Types /\ \A c \in Clients : LocksOf(c)

\* What is in the cache is what some download called complete: whatever is
\* deleted under the temporary file's name by others, commit never moves a
\* file that another request is still writing.
CompleteOnly == \A k \in Keys : Exists(<<k, "file">>) => disk[<<k, "file">>].done

\* A file that a client has got and not closed is changed by nobody, but by
\* the two deletions without its lock: the sweep at the start, of a file whose
\* row was not there when it looked (its writer is at replace, or the row was
\* trimmed while the file was in use), and the finally block of a commit whose
\* rename failed.
OpenFilesStay ==
    [][\A c \in Clients :
          pc[c] = "open" /\ disk'[File(c)] # disk[File(c)]
          => trim = "sweepDelete" \/ \E d \in Clients : pc[d] = "undoDelete"]_vars

\* Every lock comes back: of a client that closes what it got, of a download
\* that fails at any step, and of a lookup that found the file gone.
LocksReturn == \A n \in Names, a \in Agents : mode[n][a] # "none" ~> mode[n][a] = "none"
=============================================================================
