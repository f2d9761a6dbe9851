------------------------------ MODULE Download ------------------------------
(***************************************************************************)
(* Downloading a file to a path: HttpTask.doBackground with its            *)
(* RequestWorker, and the FileLoader that resumes partial files.           *)
(*                                                                         *)
(* Each download t is a pool thread; what runs a task and delivers its     *)
(* outcome is TaskProxy's.  Downloads to one path share its lock           *)
(* (ProcessLock, taken here as the RWLock it implements) and its temporary *)
(* file, and the newest one cancels its predecessor.                       *)
(*                                                                         *)
(* A file is the sequence of its blocks (of CHECK_SIZE bytes), each known  *)
(* by the version of the server's file and the place in it that it was     *)
(* read from.  The program sees only their bytes, and blocks of different  *)
(* versions or places may have the same.                                   *)
(*                                                                         *)
(* Outside src/: the server, which honours RANGE or not, may fail any      *)
(* request, and may replace its file; a connection that breaks says so.    *)
(***************************************************************************)
EXTENDS Naturals, Sequences, FiniteSets

CONSTANTS Tasks, Paths,
          Path,          \* Path[t]: getSaveFilePath()
          Resuming,      \* the tasks with isAutoResume()
          Cached,        \* the tasks with a CacheCallback
          Redirecting,   \* the tasks with a RedirectHandler
          MaxWorkers,    \* MAX_FILE_LOAD_WORKER
          MaxRetry,      \* getMaxRetryCount()
          MaxRedirects,  \* bound: redirects one task follows
          Contents,      \* the bytes a block can have
          Bytes,         \* Bytes[v][i]: those of block i of the server's version v
          None           \* no task

ASSUME DownloadAssumption ==
    /\ Path \in [Tasks -> Paths]
    /\ Resuming \subseteq Tasks /\ Cached \subseteq Tasks /\ Redirecting \subseteq Tasks
    /\ MaxWorkers \in Nat \ {0}
    /\ MaxRetry \in Nat /\ MaxRedirects \in Nat
    /\ Bytes \in Seq(Seq(Contents) \ {<<>>}) /\ Bytes # <<>>
    /\ None \notin Tasks

Versions == 1 .. Len(Bytes)

Size(v) == Len(Bytes[v])

Block(v, i) == [version |-> v, place |-> i]

BytesOf(b) == Bytes[b.version][b.place]

VARIABLES pc,         \* pc[t]: where thread t stands
          cancelled,  \* cancelled[t]: isCancelled()
          trust,      \* trust[t]: trustCache
          failure,    \* failure[t]: the exception in flight
          tries,      \* tries[t]: retries and redirects so far
          resume,     \* resume[t]: isAutoResume of its FileLoader
          stream,     \* stream[t]: version and next block of the response
          out,        \* out[t]: how the task ended
          count,      \* sCurrFileLoadCount
          mode,       \* mode[t]: how t holds the lock of its path
          downloads,  \* downloads[p]: tasks put in DOWNLOAD_TASK, the last is there
          temp,       \* temp[p]: the temporary file, <<>> for none
          saved,      \* saved[p]: the file at the save path
          server      \* the version the server has

task == <<pc, cancelled, trust, failure, tries, resume, stream, out>>
shared == <<count, mode, downloads, temp, saved, server>>
vars == <<task, shared>>

Lock == INSTANCE RWLock WITH Clients <- Tasks, Home <- Path

Loading == {"range", "send", "open", "read", "rename", "unlock"}
Working == {"begin", "check", "lock", "give"} \cup Loading

NoStream == [version |-> 1, next |-> 0]

Init ==
    /\ pc = [t \in Tasks |-> "new"]
    /\ cancelled = [t \in Tasks |-> FALSE]
    /\ trust = [t \in Tasks |-> "null"]
    /\ failure = [t \in Tasks |-> "none"]
    /\ tries = [t \in Tasks |-> [retry |-> 0, redirect |-> 0]]
    /\ resume = [t \in Tasks |-> t \in Resuming]
    /\ stream = [t \in Tasks |-> NoStream]
    /\ out = [t \in Tasks |-> "none"]
    /\ count = 0
    /\ Lock!Init
    /\ downloads = [p \in Paths |-> <<>>]
    /\ \E n \in 0 .. Size(1) : temp = [p \in Paths |-> [i \in 1 .. n |-> Block(1, i)]]
    /\ saved = [p \in Paths |-> [by |-> None, via |-> "none", data |-> <<>>]]
    /\ server = 1

Goto(t, from, to) == pc[t] = from /\ pc' = [pc EXCEPT ![t] = to]

\* Thread t throws e, caught at to.
Throw(t, to, e) ==
    /\ pc' = [pc EXCEPT ![t] = to]
    /\ failure' = [failure EXCEPT ![t] = e]

\* doBackground ends; a cancelled task drops its result (TaskProxy, Check3).
End(t, o) ==
    /\ pc' = [pc EXCEPT ![t] = "done"]
    /\ out' = [out EXCEPT ![t] = IF cancelled[t] THEN "cancelled" ELSE o]

-----------------------------------------------------------------------------
(* HttpTask.doBackground up to the request.                                *)

\* Mutant: the predecessor is forgotten without being cancelled.
ReplacedNone(p) == {}

\* The task in DOWNLOAD_TASK, which a new one cancels.
Replaced(p) == IF downloads[p] = <<>> THEN {} ELSE {downloads[p][Len(downloads[p])]}

\* checkDownloadTask runs under the monitor of DOWNLOAD_TASK.
CheckDownloadTask(t) ==
    /\ pc[t] = "new"
    /\ IF cancelled[t]
       THEN End(t, "cancelled") /\ UNCHANGED <<cancelled, downloads>>
       ELSE /\ Goto(t, "new", "cache")
            /\ cancelled' = [u \in Tasks |-> cancelled[u] \/ u \in Replaced(Path[t])]
            /\ downloads' = [downloads EXCEPT ![Path[t]] = Append(@, t)]
            /\ UNCHANGED out
    /\ UNCHANGED <<trust, failure, tries, resume, stream, count, mode, temp, saved, server>>

\* What the disk cache has is outside this module: a result or none.
LoadResultFromCache(t) ==
    /\ pc[t] = "cache"
    /\ IF cancelled[t]
       THEN End(t, "cancelled") /\ UNCHANGED trust
       ELSE /\ \/ t \in Cached /\ Goto(t, "cache", "trust") /\ UNCHANGED trust
               \/ Goto(t, "cache", "request") /\ trust' = [trust EXCEPT ![t] = "no"]
            /\ UNCHANGED out
    /\ UNCHANGED <<cancelled, failure, tries, resume, stream, shared>>

\* The UI thread handles FLAG_CACHE: onCache answers, or throws (no).
OnUpdate(t) ==
    /\ pc[t] = "trust" /\ trust[t] = "null"
    /\ \E a \in {"yes", "no"} : trust' = [trust EXCEPT ![t] = a]
    /\ UNCHANGED <<pc, cancelled, failure, tries, resume, stream, out, shared>>

TrustCache(t) ==
    /\ pc[t] = "trust" /\ trust[t] # "null"
    /\ IF trust[t] = "yes" THEN End(t, "null") ELSE Goto(t, "trust", "request") /\ UNCHANGED out
    /\ UNCHANGED <<cancelled, trust, failure, tries, resume, stream, shared>>

Request(t) ==
    /\ pc[t] = "request"
    /\ IF cancelled[t]
       THEN Throw(t, "after", "cancelled")
       ELSE Throw(t, "slot", "none")
    /\ UNCHANGED <<cancelled, trust, tries, resume, stream, out, shared>>

-----------------------------------------------------------------------------
(* RequestWorker.request: wait for a slot, load, give the slot back.       *)

WaitForSlot(t) ==
    /\ count < MaxWorkers \/ cancelled[t]
    /\ Goto(t, "slot", "take")
    /\ UNCHANGED <<cancelled, trust, failure, tries, resume, stream, out, shared>>

\* incrementAndGet, after the monitor of sCurrFileLoadCount was left.
TakeSlot(t) ==
    /\ Goto(t, "take", "begin")
    /\ count' = count + 1
    /\ UNCHANGED <<cancelled, trust, failure, tries, resume, stream, out, mode, downloads, temp, saved, server>>

\* Mutant: a cancelled worker leaves without its finally block.
BeginLeaks(t) ==
    /\ pc[t] = "begin"
    /\ IF cancelled[t] THEN Throw(t, "after", "cancelled") ELSE Throw(t, "check", "none")
    /\ UNCHANGED <<cancelled, trust, tries, resume, stream, out, shared>>

Begin(t) ==
    /\ pc[t] = "begin"
    /\ IF cancelled[t] THEN Throw(t, "give", "cancelled") ELSE Throw(t, "check", "none")
    /\ UNCHANGED <<cancelled, trust, tries, resume, stream, out, shared>>

\* Mutant: two slots are given back.
GiveTwoSlots(t) ==
    /\ Goto(t, "give", "after")
    /\ count' = count - 2
    /\ UNCHANGED <<cancelled, trust, failure, tries, resume, stream, out, mode, downloads, temp, saved, server>>

GiveSlot(t) ==
    /\ Goto(t, "give", "after")
    /\ count' = count - 1
    /\ UNCHANGED <<cancelled, trust, failure, tries, resume, stream, out, mode, downloads, temp, saved, server>>

-----------------------------------------------------------------------------
(* FileLoader.load(request), then load(in).  updateProgress answers false  *)
(* once the task is cancelled.                                             *)

CheckProgress(t) ==
    /\ pc[t] = "check"
    /\ IF cancelled[t] THEN Throw(t, "give", "cancelled") ELSE Throw(t, "lock", "none")
    /\ UNCHANGED <<cancelled, trust, tries, resume, stream, out, shared>>

\* tryLock answers null when the lock is taken, or for reasons of its own.
TryLock(t) ==
    /\ pc[t] = "lock"
    /\ \/ Lock!Acquire(t, "write") /\ Throw(t, "range", "none")
       \/ Throw(t, "give", "locked") /\ UNCHANGED mode
    /\ UNCHANGED <<cancelled, trust, tries, resume, stream, out, count, downloads, temp, saved, server>>

\* A partial file of one block or less is deleted; of a longer one the last
\* block is asked for again.
SetRange(t) ==
    /\ pc[t] = "range"
    /\ LET p == Path[t]
           long == resume[t] /\ Len(temp[p]) > 1
       IN /\ temp' = [temp EXCEPT ![p] = IF resume[t] /\ ~long THEN <<>> ELSE @]
          /\ stream' = [stream EXCEPT ![t].next = IF long THEN Len(temp[p]) - 1 ELSE 0]
    /\ IF cancelled[t] THEN Throw(t, "unlock", "cancelled") ELSE Throw(t, "send", "none")
    /\ UNCHANGED <<cancelled, trust, tries, resume, out, count, mode, downloads, saved, server>>

\* io: any exception that may be retried; http: one of the black list; empty:
\* a response 204, 205 or 304; redirect: 301 or 302 with a handler.
SendFails(t) ==
    /\ pc[t] = "send"
    /\ \E e \in {"io", "http", "empty", "redirect"} :
          /\ e = "redirect" => t \in Redirecting /\ tries[t].redirect < MaxRedirects
          /\ Throw(t, "unlock", e)
    /\ UNCHANGED <<cancelled, trust, tries, resume, stream, out, shared>>

\* The whole file comes back.  Unless the response still announces ranges
\* (isSupportRange) isAutoResume is cleared, for later attempts too.
SendWhole(t) ==
    /\ pc[t] = "send"
    /\ stream' = [stream EXCEPT ![t] = [version |-> server, next |-> 0]]
    /\ \E announced \in BOOLEAN : resume' = [resume EXCEPT ![t] = @ /\ announced]
    /\ IF cancelled[t] THEN Throw(t, "unlock", "cancelled") ELSE Throw(t, "open", "none")
    /\ UNCHANGED <<cancelled, trust, tries, out, shared>>

SendRanged(t) ==
    /\ pc[t] = "send"
    /\ stream[t].next < Size(server)
    /\ stream' = [stream EXCEPT ![t].version = server]
    /\ IF cancelled[t] THEN Throw(t, "unlock", "cancelled") ELSE Throw(t, "open", "none")
    /\ UNCHANGED <<cancelled, trust, tries, resume, out, shared>>

\* autoRename: the temporary file becomes the saved file; where renameTo fails
\* it stays, and is itself the result.
AutoRename(t, via) ==
    \/ /\ saved' = [saved EXCEPT ![Path[t]] = [by |-> t, via |-> via, data |-> temp[Path[t]]]]
       /\ temp' = [temp EXCEPT ![Path[t]] = <<>>]
    \/ UNCHANGED <<saved, temp>>

\* 416: nothing lies after the partial file, so it is the file.
RangeRefused(t) ==
    /\ pc[t] = "send"
    /\ stream[t].next >= Size(server)
    /\ AutoRename(t, "416")
    /\ Throw(t, "unlock", "none")
    /\ UNCHANGED <<cancelled, trust, tries, resume, stream, out, count, mode, downloads, server>>

\* Mutant: the block is not compared.
SameBlockAlways(t) == TRUE

\* checkBuffer equals fileCheckBuffer: the first block of the response has the
\* bytes of the last one of the file.
SameBlock(t) ==
    LET f == temp[Path[t]]
    IN Len(f) > 1 /\ BytesOf(f[Len(f)]) = BytesOf(Block(stream[t].version, stream[t].next + 1))

Open(t) ==
    /\ pc[t] = "open"
    /\ LET p == Path[t]
       IN IF resume[t] /\ temp[p] # <<>>
          THEN IF SameBlock(t)
               THEN /\ stream' = [stream EXCEPT ![t].next = @ + 1]
                    /\ UNCHANGED temp
                    /\ IF cancelled[t] THEN Throw(t, "unlock", "cancelled") ELSE Throw(t, "read", "none")
               ELSE /\ temp' = [temp EXCEPT ![p] = <<>>]
                    /\ Throw(t, "unlock", "again")
                    /\ UNCHANGED stream
          ELSE /\ temp' = [temp EXCEPT ![p] = <<>>]
               /\ IF cancelled[t] THEN Throw(t, "unlock", "cancelled") ELSE Throw(t, "read", "none")
               /\ UNCHANGED stream
    /\ UNCHANGED <<cancelled, trust, tries, resume, out, count, mode, downloads, saved, server>>

Read(t) ==
    /\ pc[t] = "read"
    /\ stream[t].next < Size(stream[t].version)
    /\ temp' = [temp EXCEPT ![Path[t]] = Append(@, Block(stream[t].version, stream[t].next + 1))]
    /\ stream' = [stream EXCEPT ![t].next = @ + 1]
    /\ IF cancelled[t] THEN Throw(t, "unlock", "cancelled") ELSE UNCHANGED <<pc, failure>>
    /\ UNCHANGED <<cancelled, trust, tries, resume, out, count, mode, downloads, saved, server>>

EndOfStream(t) ==
    /\ stream[t].next >= Size(stream[t].version)
    /\ Goto(t, "read", "rename")
    /\ UNCHANGED <<cancelled, trust, failure, tries, resume, stream, out, shared>>

\* The connection breaks, or closeRequestSync closes it; what was read is kept.
ReadFails(t) ==
    /\ pc[t] \in {"open", "read"}
    /\ Throw(t, "unlock", "io")
    /\ UNCHANGED <<cancelled, trust, tries, resume, stream, out, shared>>

Rename(t) ==
    /\ Goto(t, "rename", "unlock")
    /\ AutoRename(t, "stream")
    /\ UNCHANGED <<cancelled, trust, failure, tries, resume, stream, out, count, mode, downloads, server>>

\* Nothing reads the response again: the next attempt closes it first.
Unlock(t) ==
    /\ Goto(t, "unlock", "give")
    /\ Lock!Release({t})
    /\ stream' = [stream EXCEPT ![t] = NoStream]
    /\ UNCHANGED <<cancelled, trust, failure, tries, resume, out, count, downloads, temp, saved, server>>

-----------------------------------------------------------------------------
(* The catch blocks of doBackground's loop.                                *)

\* Mutant: the attempts are not counted.
CountRetryNot(t) == UNCHANGED tries

CountRetry(t) == tries' = [tries EXCEPT ![t].retry = @ + 1]

\* HttpRetryHandler.canRetry: a download is a GET.
CanRetry(t) == tries[t].retry < MaxRetry /\ failure[t] \in {"io", "locked", "again"}

Retry(t) ==
    /\ ~cancelled[t] /\ CanRetry(t)
    /\ Goto(t, "after", "request")
    /\ CountRetry(t)
    /\ UNCHANGED <<cancelled, trust, failure, resume, stream, out, shared>>

\* A redirect makes a new request with a new loader, and is not counted.
Redirect(t) ==
    /\ ~cancelled[t] /\ failure[t] = "redirect"
    /\ Goto(t, "after", "request")
    /\ resume' = [resume EXCEPT ![t] = t \in Resuming]
    /\ tries' = [tries EXCEPT ![t].redirect = @ + 1]
    /\ UNCHANGED <<cancelled, trust, failure, stream, out, shared>>

Finish(t) ==
    /\ pc[t] = "after"
    /\ cancelled[t] \/ ~(CanRetry(t) \/ failure[t] = "redirect")
    /\ End(t, CASE failure[t] = "none" -> "file"
                [] failure[t] = "empty" -> "null"
                [] OTHER -> "error")
    /\ UNCHANGED <<cancelled, trust, failure, tries, resume, stream, shared>>

-----------------------------------------------------------------------------
\* The user cancels, at any time.
Cancel(t) ==
    /\ pc[t] # "done" /\ ~cancelled[t]
    /\ cancelled' = [cancelled EXCEPT ![t] = TRUE]
    /\ UNCHANGED <<pc, trust, failure, tries, resume, stream, out, shared>>

\* The server's file is replaced.
Publish ==
    /\ server < Len(Bytes)
    /\ server' = server + 1
    /\ UNCHANGED <<task, count, mode, downloads, temp, saved>>

ThreadStep(t) ==
    \/ LoadResultFromCache(t) \/ TrustCache(t) \/ Request(t)
    \/ WaitForSlot(t) \/ TakeSlot(t) \/ Begin(t) \/ GiveSlot(t)
    \/ CheckProgress(t) \/ TryLock(t) \/ SetRange(t)
    \/ SendFails(t) \/ SendWhole(t) \/ SendRanged(t) \/ RangeRefused(t)
    \/ Open(t) \/ Read(t) \/ EndOfStream(t) \/ ReadFails(t) \/ Rename(t) \/ Unlock(t)
    \/ Retry(t) \/ Redirect(t) \/ Finish(t)

Next ==
    \/ \E t \in Tasks : CheckDownloadTask(t) \/ OnUpdate(t) \/ ThreadStep(t) \/ Cancel(t)
    \/ Publish

Spec == Init /\ [][Next]_vars

\* Threads go on (a request or a read returns or fails), the UI thread handles
\* its messages; nobody has to start a download or cancel one.
FairSpec ==
    /\ Spec
    /\ \A t \in Tasks : WF_vars(ThreadStep(t)) /\ WF_vars(OnUpdate(t))

-----------------------------------------------------------------------------
\* Every variable keeps its type.
TypeOK ==
    /\ pc \in [Tasks -> {"new", "cache", "trust", "request", "slot", "take", "after", "done"} \cup Working]
    /\ cancelled \in [Tasks -> BOOLEAN]
    /\ trust \in [Tasks -> {"null", "yes", "no"}]
    /\ failure \in [Tasks -> {"none", "cancelled", "io", "http", "empty", "redirect", "locked", "again"}]
    /\ tries \in [Tasks -> [retry : Nat, redirect : Nat]]
    /\ resume \in [Tasks -> BOOLEAN]
    /\ stream \in [Tasks -> [version : Versions, next : Nat]]
    /\ out \in [Tasks -> {"none", "cancelled", "file", "null", "error"}]
    /\ count \in Nat
    /\ mode \in [Tasks -> {"none", "write"}]
    /\ downloads \in [Paths -> Seq(Tasks)]
    /\ temp \in [Paths -> Seq([version : Versions, place : Nat])]
    /\ saved \in [Paths -> [by : Tasks \cup {None}, via : {"none", "stream", "416"},
                            data : Seq([version : Versions, place : Nat])]]
    /\ server \in Versions

\* Block i of file f is the first of the server's file if it is the first, and
\* goes on after block i - 1: what comes before it on the server has its bytes.
GoesOn(f, i) ==
    IF i = 1 THEN f[i].place = 1
    ELSE f[i].place > 1 /\ BytesOf(f[i - 1]) = BytesOf(Block(f[i].version, f[i].place - 1))

\* f ends with the bytes some version ends with.
EndsLikeAVersion(f) ==
    \E v \in Versions : f # <<>> /\ BytesOf(f[Len(f)]) = BytesOf(Block(v, Size(v)))

\* No saved file has a gap, a repetition or a change of version except where
\* the two blocks that meet have the bytes they would have without it, which
\* is all that load can see; and one that was read to its end does not stop
\* short of it.  However often it was resumed, retried, redirected, cancelled
\* or replaced, and whatever the server answered meanwhile.
SeamsMatch ==
    \A p \in Paths :
        /\ \A i \in DOMAIN saved[p].data : GoesOn(saved[p].data, i)
        /\ saved[p].via = "stream" => EndsLikeAVersion(saved[p].data)

\* Worker slots and locks belong to the threads that are between taking and
\* returning them: no exception, cancellation or retry keeps one.
NothingLeaks ==
    /\ count = Cardinality({t \in Tasks : pc[t] \in Working})
    /\ \A t \in Tasks : mode[t] # "none" <=> pc[t] \in Loading

\* Place of t among the downloads that were started for p.
Place(p, t) == CHOOSE i \in DOMAIN downloads[p] : downloads[p][i] = t

\* A download that was replaced never overwrites the file of a newer one.
NewerWins ==
    [][\A p \in Paths :
          (saved'[p] # saved[p] /\ saved[p].by # None) =>
              Place(p, saved[p].by) < Place(p, saved'[p].by)]_saved

\* Every download that was started ends: slots, locks, retries and the wait for
\* the user's trust in the cache never hold it for ever.
DownloadEnds == \A t \in Tasks : pc[t] # "new" ~> pc[t] = "done"
=============================================================================
