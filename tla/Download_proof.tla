---------------------------- MODULE Download_proof ----------------------------
(***************************************************************************)
(* Proofs about Download for every set of tasks and paths, any number of   *)
(* workers, retries and redirects, and any versions of the server's file,  *)
(* whatever bytes their blocks have.                                       *)
(***************************************************************************)
EXTENDS Download, FiniteSetTheorems, SequenceTheorems, TLAPS

States   == {"new", "cache", "trust", "request", "slot", "take", "after", "done"} \cup Working
Failures == {"none", "cancelled", "io", "http", "empty", "redirect", "locked", "again"}

\* The server has had a first version, and every version has a block.
LEMMA VersionFacts ==
    /\ 1 \in Versions
    /\ \A v \in Versions : v \in Nat /\ Size(v) \in Nat /\ Size(v) >= 1
<1>1. Len(Bytes) \in Nat /\ Len(Bytes) >= 1
  BY DownloadAssumption, EmptySeq, LenProperties
<1>2. ASSUME NEW v \in Versions PROVE v \in Nat /\ Size(v) \in Nat /\ Size(v) >= 1
  <2>1. Bytes[v] \in Seq(Contents) /\ Bytes[v] # <<>>
    BY DownloadAssumption, ElementOfSeq DEF Versions
  <2> QED
    BY <1>1, <2>1, EmptySeq, LenProperties DEF Versions, Size
<1> QED
  BY <1>1, <1>2 DEF Versions

\* What the files are made of.
Blocks == [version : Versions, place : Nat]

LEMMA BlockFacts ==
    ASSUME NEW v \in Versions, NEW i \in Nat
    PROVE  /\ Block(v, i) \in Blocks
           /\ Block(v, i).version = v /\ Block(v, i).place = i
           /\ BytesOf(Block(v, i)) = Bytes[v][i]
  BY DEF Block, Blocks, BytesOf

-----------------------------------------------------------------------------
(* The types, but for the count of workers.                                *)

Types ==
    /\ pc \in [Tasks -> States]
    /\ cancelled \in [Tasks -> BOOLEAN]
    /\ trust \in [Tasks -> {"null", "yes", "no"}]
    /\ failure \in [Tasks -> Failures]
    /\ tries \in [Tasks -> [retry : Nat, redirect : Nat]]
    /\ resume \in [Tasks -> BOOLEAN]
    /\ stream \in [Tasks -> [version : Versions, next : Nat]]
    /\ out \in [Tasks -> {"none", "cancelled", "file", "null", "error"}]
    /\ mode \in [Tasks -> {"none", "write"}]
    /\ downloads \in [Paths -> Seq(Tasks)]
    /\ temp \in [Paths -> Seq(Blocks)]
    /\ saved \in [Paths -> [by : Tasks \cup {None}, via : {"none", "stream", "416"},
                            data : Seq(Blocks)]]
    /\ server \in Versions

LEMMA InitTypes == Init => Types
<1> SUFFICES ASSUME Init PROVE Types
  OBVIOUS
<1>1. PICK n \in 0 .. Size(1) : temp = [p \in Paths |-> [i \in 1 .. n |-> Block(1, i)]]
  BY DEF Init
<1>2. temp \in [Paths -> Seq(Blocks)]
  <2>1. n \in Nat /\ \A i \in 1 .. n : Block(1, i) \in Blocks
    BY VersionFacts, BlockFacts
  <2>2. [i \in 1 .. n |-> Block(1, i)] \in Seq(Blocks)
    BY <2>1
  <2> QED
    BY <1>1, <2>2
<1>3. mode \in [Tasks -> {"none", "write"}]
  BY DEF Init, Lock!Init
<1>4. saved \in [Paths -> [by : Tasks \cup {None}, via : {"none", "stream", "416"},
                           data : Seq(Blocks)]]
  BY DEF Init
<1>5. stream \in [Tasks -> [version : Versions, next : Nat]] /\ server \in Versions
  BY VersionFacts DEF Init, NoStream
<1>6. downloads \in [Paths -> Seq(Tasks)]
  BY DEF Init
<1> QED
  BY <1>2, <1>3, <1>4, <1>5, <1>6 DEF Init, Types, States, Failures

\* autoRename writes a block sequence, and empties or leaves the temporary file.
LEMMA RenameTypes ==
    ASSUME Types, NEW t \in Tasks, NEW via \in {"stream", "416"}, AutoRename(t, via)
    PROVE  /\ saved' \in [Paths -> [by : Tasks \cup {None}, via : {"none", "stream", "416"},
                                   data : Seq(Blocks)]]
           /\ temp' \in [Paths -> Seq(Blocks)]
<1>1. Path[t] \in Paths
  BY DownloadAssumption
<1>2. [by |-> t, via |-> via, data |-> temp[Path[t]]]
          \in [by : Tasks \cup {None}, via : {"none", "stream", "416"}, data : Seq(Blocks)]
  BY <1>1 DEF Types
<1>3. <<>> \in Seq(Blocks)
  OBVIOUS
<1>4. temp \in [Paths -> Seq(Blocks)]
  BY Zenon DEF Types
<1>5. saved \in [Paths -> [by : Tasks \cup {None}, via : {"none", "stream", "416"}, data : Seq(Blocks)]]
  BY Zenon DEF Types
<1>6. CASE UNCHANGED <<saved, temp>>
  BY <1>4, <1>5, <1>6, Zenon
<1>7. CASE ~UNCHANGED <<saved, temp>>
  <2>1. /\ saved' = [saved EXCEPT ![Path[t]] = [by |-> t, via |-> via, data |-> temp[Path[t]]]]
        /\ temp' = [temp EXCEPT ![Path[t]] = <<>>]
    BY <1>7, Zenon DEF AutoRename
  <2>2. temp' \in [Paths -> Seq(Blocks)]
    BY <1>3, <1>4, <2>1, Zenon
  <2> QED
    BY <1>2, <1>5, <2>1, <2>2, Zenon
<1> QED
  BY <1>6, <1>7

\* Where it does rename, the saved file is the temporary one.
LEMMA RenameEffect ==
    ASSUME Types, NEW t \in Tasks, NEW via, AutoRename(t, via), ~UNCHANGED <<saved, temp>>
    PROVE  /\ temp'[Path[t]] = <<>>
           /\ saved'[Path[t]].via = via /\ saved'[Path[t]].data = temp[Path[t]]
<1>1. Path[t] \in Paths /\ Path[t] \in DOMAIN temp /\ Path[t] \in DOMAIN saved
  BY DownloadAssumption DEF Types
<1> DEFINE r == [by |-> t, via |-> via, data |-> temp[Path[t]]]
<1>2. r.via = via /\ r.data = temp[Path[t]]
  OBVIOUS
<1> HIDE DEF r
<1>3. saved' = [saved EXCEPT ![Path[t]] = r] /\ temp' = [temp EXCEPT ![Path[t]] = <<>>]
  BY Zenon DEF AutoRename, r
<1>4. saved'[Path[t]] = r /\ temp'[Path[t]] = <<>>
  BY <1>1, <1>3, Zenon
<1> QED
  BY <1>2, <1>4

LEMMA StreamType ==
    ASSUME Types, NEW t \in Tasks, NEW n \in Nat, stream' = [stream EXCEPT ![t].next = n]
    PROVE  stream' \in [Tasks -> [version : Versions, next : Nat]]
<1>1. stream \in [Tasks -> [version : Versions, next : Nat]]
  BY Zenon DEF Types
<1>2. [stream[t] EXCEPT !.next = n] \in [version : Versions, next : Nat]
  BY <1>1
<1> QED
  BY <1>1, <1>2

LEMMA StreamVersionType ==
    ASSUME Types, NEW t \in Tasks, NEW v \in Versions, stream' = [stream EXCEPT ![t].version = v]
    PROVE  stream' \in [Tasks -> [version : Versions, next : Nat]]
<1>1. stream \in [Tasks -> [version : Versions, next : Nat]]
  BY Zenon DEF Types
<1>2. [stream[t] EXCEPT !.version = v] \in [version : Versions, next : Nat]
  BY <1>1
<1> QED
  BY <1>1, <1>2

\* The stream advances by a block.
LEMMA StreamAdvances ==
    ASSUME Types, NEW t \in Tasks, stream' = [stream EXCEPT ![t].next = @ + 1]
    PROVE  /\ stream' \in [Tasks -> [version : Versions, next : Nat]]
           /\ stream'[t].version = stream[t].version
           /\ stream'[t].next = stream[t].next + 1
           /\ \A u \in Tasks : u # t => stream'[u] = stream[u]
<1>1. stream[t] \in [version : Versions, next : Nat]
  BY DEF Types
<1>2. stream' = [stream EXCEPT ![t].next = stream[t].next + 1] /\ stream[t].next + 1 \in Nat
  BY <1>1
<1>3. stream' \in [Tasks -> [version : Versions, next : Nat]]
  BY <1>2, StreamType
<1> QED
  BY <1>2, <1>3 DEF Types

LEMMA CounterType ==
    ASSUME Types, NEW t \in Tasks, NEW n \in Nat,
           \/ tries' = [tries EXCEPT ![t].retry = n]
           \/ tries' = [tries EXCEPT ![t].redirect = n]
    PROVE  tries' \in [Tasks -> [retry : Nat, redirect : Nat]]
<1>1. PICK r \in [retry : Nat, redirect : Nat] : tries' = [tries EXCEPT ![t] = r]
  <2>1. tries[t] \in [retry : Nat, redirect : Nat]
    BY DEF Types
  <2>2. [tries[t] EXCEPT !.retry = n] \in [retry : Nat, redirect : Nat]
    BY <2>1
  <2>3. [tries[t] EXCEPT !.redirect = n] \in [retry : Nat, redirect : Nat]
    BY <2>1
  <2> QED
    BY <2>2, <2>3
<1> QED
  BY <1>1 DEF Types

LEMMA TriesType ==
    ASSUME Types, NEW t \in Tasks,
           \/ tries' = [tries EXCEPT ![t].retry = @ + 1]
           \/ tries' = [tries EXCEPT ![t].redirect = @ + 1]
    PROVE  tries' \in [Tasks -> [retry : Nat, redirect : Nat]]
<1>1. tries[t] \in [retry : Nat, redirect : Nat]
  BY DEF Types
<1>2. tries[t].retry + 1 \in Nat /\ tries[t].redirect + 1 \in Nat
  BY <1>1
<1>3. CASE tries' = [tries EXCEPT ![t].retry = @ + 1]
  <2>1. tries' = [tries EXCEPT ![t].retry = tries[t].retry + 1]
    BY <1>3
  <2> QED
    BY <1>2, <2>1, CounterType
<1>4. CASE tries' = [tries EXCEPT ![t].redirect = @ + 1]
  <2>1. tries' = [tries EXCEPT ![t].redirect = tries[t].redirect + 1]
    BY <1>4
  <2> QED
    BY <1>2, <2>1, CounterType
<1> QED
  BY <1>3, <1>4

\* One temporary file is replaced.
LEMMA TempType ==
    ASSUME Types, NEW t \in Tasks, NEW f \in Seq(Blocks),
           temp' = temp \/ temp' = [temp EXCEPT ![Path[t]] = f]
    PROVE  temp' \in [Paths -> Seq(Blocks)]
  BY DEF Types

\* Where a thread stands, the exception it carries and how it ended.
Outs == {"none", "cancelled", "file", "null", "error"}
Flow ==
    /\ pc \in [Tasks -> States]
    /\ failure \in [Tasks -> Failures]
    /\ out \in [Tasks -> Outs]

LEMMA GotoFlow ==
    ASSUME Types, NEW t \in Tasks, NEW from, NEW to \in States, Goto(t, from, to),
           UNCHANGED <<failure, out>>
    PROVE  Flow'
<1>1. Flow
  BY Zenon DEF Types, Flow, Outs
<1> QED
  BY <1>1 DEF Goto, Flow

LEMMA ThrowFlow ==
    ASSUME Types, NEW t \in Tasks, NEW to \in States, NEW e \in Failures, Throw(t, to, e),
           UNCHANGED out
    PROVE  Flow'
<1>1. Flow
  BY Zenon DEF Types, Flow, Outs
<1> QED
  BY <1>1 DEF Throw, Flow

LEMMA EndFlow ==
    ASSUME Types, NEW t \in Tasks, NEW o \in Outs, End(t, o), UNCHANGED failure
    PROVE  Flow'
<1>1. Flow
  BY Zenon DEF Types, Flow, Outs
<1>2. "cancelled" \in Outs /\ "done" \in States
  BY DEF Outs, States
<1>3. PICK x \in Outs : out' = [out EXCEPT ![t] = x]
  BY <1>2 DEF End
<1>4. pc' = [pc EXCEPT ![t] = "done"]
  BY DEF End
<1> QED
  BY <1>1, <1>2, <1>3, <1>4 DEF Flow

LEMMA SameFlow ==
    ASSUME Types, UNCHANGED <<pc, failure, out>>
    PROVE  Flow'
  BY DEF Types, Flow, Outs

\* The names of the places and of the exceptions.
LEMMA Labels ==
    /\ "cache" \in States /\ "trust" \in States /\ "request" \in States /\ "slot" \in States
    /\ "take" \in States /\ "after" \in States /\ "done" \in States /\ "begin" \in States
    /\ "check" \in States /\ "lock" \in States /\ "give" \in States /\ "range" \in States
    /\ "send" \in States /\ "open" \in States /\ "read" \in States /\ "rename" \in States
    /\ "unlock" \in States
  BY DEF States, Working, Loading

LEMMA Names ==
    /\ "none" \in Failures /\ "cancelled" \in Failures /\ "io" \in Failures
    /\ "http" \in Failures /\ "empty" \in Failures /\ "redirect" \in Failures
    /\ "locked" \in Failures /\ "again" \in Failures
    /\ "cancelled" \in Outs /\ "file" \in Outs /\ "null" \in Outs /\ "error" \in Outs
  BY DEF Failures, Outs

\* A step that moves threads and nothing else keeps the types.
LEMMA FlowKeeps ==
    ASSUME Types, Flow',
           UNCHANGED <<cancelled, trust, tries, resume, stream, mode, downloads, temp, saved, server>>
    PROVE  Types'
  BY SMT DEF Types, Flow, Outs

LEMMA NextTypes ==
    ASSUME Types, [Next]_vars
    PROVE  Types'
<1>0. \A t \in Tasks : Path[t] \in Paths
  BY DownloadAssumption
<1>1. ASSUME NEW t \in Tasks, CheckDownloadTask(t) PROVE Types'
  <2>1. downloads' \in [Paths -> Seq(Tasks)]
    <3>1. Append(downloads[Path[t]], t) \in Seq(Tasks)
      BY <1>0 DEF Types
    <3>2. \/ downloads' = downloads
          \/ downloads' = [downloads EXCEPT ![Path[t]] = Append(downloads[Path[t]], t)]
      BY <1>1 DEF CheckDownloadTask
    <3> QED
      BY <1>0, <3>1, <3>2 DEF Types
  <2>2. cancelled' \in [Tasks -> BOOLEAN]
    <3>1. \/ cancelled' = cancelled
          \/ cancelled' = [u \in Tasks |-> cancelled[u] \/ u \in Replaced(Path[t])]
      BY <1>1, Zenon DEF CheckDownloadTask
    <3>2. cancelled \in [Tasks -> BOOLEAN]
      BY DEF Types
    <3>3. [u \in Tasks |-> cancelled[u] \/ u \in Replaced(Path[t])] \in [Tasks -> BOOLEAN]
      BY Zenon
    <3> QED
      BY <3>1, <3>2, <3>3, Zenon
  <2>3. Flow'
    <3>1. CASE cancelled[t]
      BY <1>1, <3>1, EndFlow, Names, Zenon DEF CheckDownloadTask
    <3>2. CASE ~cancelled[t]
      BY <1>1, <3>2, GotoFlow, Labels, Zenon DEF CheckDownloadTask
    <3> QED
      BY <3>1, <3>2
  <2>4. UNCHANGED <<trust, tries, resume, stream, mode, temp, saved, server>>
    BY <1>1 DEF CheckDownloadTask
  <2> QED
    BY <2>1, <2>2, <2>3, <2>4 DEF Types, Flow, Outs
<1>2. ASSUME NEW t \in Tasks, OnUpdate(t) PROVE Types'
  <2>1. trust' \in [Tasks -> {"null", "yes", "no"}]
    BY <1>2 DEF OnUpdate, Types
  <2>2. UNCHANGED <<pc, cancelled, failure, tries, resume, stream, out, shared>>
    BY <1>2 DEF OnUpdate
  <2> QED
    BY <2>1, <2>2 DEF Types, shared
<1>3. ASSUME NEW t \in Tasks, Cancel(t) PROVE Types'
  <2>1. cancelled' \in [Tasks -> BOOLEAN]
    BY <1>3 DEF Cancel, Types
  <2>2. UNCHANGED <<pc, trust, failure, tries, resume, stream, out, shared>>
    BY <1>3 DEF Cancel
  <2> QED
    BY <2>1, <2>2 DEF Types, shared
<1>4. CASE Publish
  <2>1. server' \in Versions
    BY <1>4, DownloadAssumption DEF Publish, Versions, Types
  <2>2. UNCHANGED <<task, count, mode, downloads, temp, saved>>
    BY <1>4 DEF Publish
  <2> QED
    BY <2>1, <2>2 DEF Types, task
<1>5. ASSUME NEW t \in Tasks, LoadResultFromCache(t) PROVE Types'
  <2>1. trust' \in [Tasks -> {"null", "yes", "no"}]
    <3>1. trust' = trust \/ trust' = [trust EXCEPT ![t] = "no"]
      BY <1>5 DEF LoadResultFromCache
    <3> QED
      BY <3>1 DEF Types
  <2>2. Flow'
    <3>1. CASE cancelled[t]
      BY <1>5, <3>1, EndFlow, Names, Zenon DEF LoadResultFromCache
    <3>2. CASE ~cancelled[t]
      BY <1>5, <3>2, GotoFlow, Labels, Zenon DEF LoadResultFromCache
    <3> QED
      BY <3>1, <3>2
  <2>3. UNCHANGED <<cancelled, tries, resume, stream, shared>>
    BY <1>5 DEF LoadResultFromCache
  <2> QED
    BY <2>1, <2>2, <2>3 DEF Types, Flow, Outs, shared
<1>6. ASSUME NEW t \in Tasks, TrustCache(t) PROVE Types'
  <2>1. Flow'
    <3>1. CASE trust[t] = "yes"
      BY <1>6, <3>1, EndFlow, Names, Zenon DEF TrustCache
    <3>2. CASE trust[t] # "yes"
      BY <1>6, <3>2, GotoFlow, Labels, Zenon DEF TrustCache
    <3> QED
      BY <3>1, <3>2
  <2> QED
    BY <1>6, <2>1, FlowKeeps, Zenon DEF TrustCache, shared
<1>7. ASSUME NEW t \in Tasks, Request(t) PROVE Types'
  <2>1. Flow'
    BY <1>7, ThrowFlow, Labels, Names, Zenon DEF Request
  <2> QED
    BY <1>7, <2>1, FlowKeeps, Zenon DEF Request, shared
<1>8. ASSUME NEW t \in Tasks, WaitForSlot(t) \/ TakeSlot(t) \/ GiveSlot(t) PROVE Types'
  <2>1. Flow'
    BY <1>8, GotoFlow, Labels, Zenon DEF WaitForSlot, TakeSlot, GiveSlot
  <2>2. UNCHANGED <<cancelled, trust, tries, resume, stream, mode, downloads, temp, saved, server>>
    BY <1>8 DEF WaitForSlot, TakeSlot, GiveSlot, shared
  <2> QED
    BY <2>1, <2>2, FlowKeeps
<1>9. ASSUME NEW t \in Tasks, CheckProgress(t) PROVE Types'
  <2>1. Flow'
    BY <1>9, ThrowFlow, Labels, Names, Zenon DEF CheckProgress
  <2> QED
    BY <1>9, <2>1, FlowKeeps, Zenon DEF CheckProgress, shared
<1>25. ASSUME NEW t \in Tasks, Begin(t) PROVE Types'
  <2>1. Flow'
    BY <1>25, ThrowFlow, Labels, Names, Zenon DEF Begin
  <2> QED
    BY <1>25, <2>1, FlowKeeps, Zenon DEF Begin, shared
<1>10. ASSUME NEW t \in Tasks, TryLock(t) PROVE Types'
  <2>1. mode' \in [Tasks -> {"none", "write"}]
    <3>1. mode' = mode \/ mode' = [mode EXCEPT ![t] = "write"]
      BY <1>10, Zenon DEF TryLock, Lock!Acquire
    <3> QED
      BY <3>1 DEF Types
  <2>2. Flow'
    BY <1>10, ThrowFlow, Labels, Names, Zenon DEF TryLock
  <2>3. UNCHANGED <<cancelled, trust, tries, resume, stream, downloads, temp, saved, server>>
    BY <1>10 DEF TryLock
  <2> QED
    BY <2>1, <2>2, <2>3 DEF Types, Flow, Outs
<1>11. ASSUME NEW t \in Tasks, SetRange(t) PROVE Types'
  <2>1. temp' \in [Paths -> Seq(Blocks)]
    <3>1. temp' = temp \/ temp' = [temp EXCEPT ![Path[t]] = <<>>]
      <4>1. PICK b \in BOOLEAN :
                temp' = [temp EXCEPT ![Path[t]] = IF b THEN <<>> ELSE temp[Path[t]]]
        BY <1>11, Zenon DEF SetRange
      <4>2. temp \in [Paths -> Seq(Blocks)]
        BY Zenon DEF Types
      <4>3. CASE b
        BY <4>1, <4>3, Zenon
      <4>4. CASE ~b
        <5>1. temp' = [temp EXCEPT ![Path[t]] = temp[Path[t]]]
          BY <4>1, <4>4, Zenon
        <5> QED
          BY <1>0, <4>2, <5>1
      <4> QED
        BY <4>3, <4>4
    <3>2. <<>> \in Seq(Blocks)
      OBVIOUS
    <3> QED
      BY <3>1, <3>2, TempType
  <2>2. stream' \in [Tasks -> [version : Versions, next : Nat]]
    <3>1. temp[Path[t]] \in Seq(Blocks)
      BY <1>0 DEF Types
    <3>2. Len(temp[Path[t]]) \in Nat
      BY <3>1, LenProperties
    <3>3. PICK long \in BOOLEAN :
             /\ long => Len(temp[Path[t]]) > 1
             /\ stream' = [stream EXCEPT ![t].next = IF long THEN Len(temp[Path[t]]) - 1 ELSE 0]
      BY <1>11 DEF SetRange
    <3>4. (IF long THEN Len(temp[Path[t]]) - 1 ELSE 0) \in Nat
      BY <3>2, <3>3
    <3> QED
      BY <3>3, <3>4, StreamType
  <2>3. Flow'
    BY <1>11, ThrowFlow, Labels, Names, Zenon DEF SetRange
  <2>4. UNCHANGED <<cancelled, trust, tries, resume, mode, downloads, saved, server>>
    BY <1>11 DEF SetRange
  <2> QED
    BY <2>1, <2>2, <2>3, <2>4 DEF Types, Flow, Outs
<1>12. ASSUME NEW t \in Tasks, SendFails(t) PROVE Types'
  <2>1. PICK e \in {"io", "http", "empty", "redirect"} : Throw(t, "unlock", e)
    BY <1>12, Zenon DEF SendFails
  <2>2. e \in Failures
    BY <2>1 DEF Failures
  <2>3. Flow'
    BY <1>12, <2>1, <2>2, ThrowFlow, Labels, Zenon DEF SendFails
  <2> QED
    BY <1>12, <2>3, FlowKeeps, Zenon DEF SendFails, shared
<1>13. ASSUME NEW t \in Tasks, SendWhole(t) PROVE Types'
  <2>1. stream' \in [Tasks -> [version : Versions, next : Nat]]
    BY <1>13 DEF SendWhole, Types
  <2>2. resume' \in [Tasks -> BOOLEAN]
    BY <1>13 DEF SendWhole, Types
  <2>3. Flow'
    BY <1>13, ThrowFlow, Labels, Names, Zenon DEF SendWhole
  <2>4. UNCHANGED <<cancelled, trust, tries, shared>>
    BY <1>13 DEF SendWhole
  <2> QED
    BY <2>1, <2>2, <2>3, <2>4 DEF Types, Flow, Outs, shared
<1>14. ASSUME NEW t \in Tasks, SendRanged(t) PROVE Types'
  <2>1. stream' \in [Tasks -> [version : Versions, next : Nat]]
    <3>1. stream' = [stream EXCEPT ![t].version = server] /\ server \in Versions
      BY <1>14 DEF SendRanged, Types
    <3> QED
      BY <3>1, StreamVersionType
  <2>2. Flow'
    BY <1>14, ThrowFlow, Labels, Names, Zenon DEF SendRanged
  <2>3. UNCHANGED <<cancelled, trust, tries, resume, shared>>
    BY <1>14 DEF SendRanged
  <2> QED
    BY <2>1, <2>2, <2>3 DEF Types, Flow, Outs, shared
<1>15. ASSUME NEW t \in Tasks, RangeRefused(t) PROVE Types'
  <2>1. saved' \in [Paths -> [by : Tasks \cup {None}, via : {"none", "stream", "416"},
                             data : Seq(Blocks)]]
    BY <1>15, RenameTypes DEF RangeRefused
  <2>2. temp' \in [Paths -> Seq(Blocks)]
    BY <1>15, RenameTypes DEF RangeRefused
  <2>3. Flow'
    BY <1>15, ThrowFlow, Labels, Names, Zenon DEF RangeRefused
  <2>4. UNCHANGED <<cancelled, trust, tries, resume, stream, mode, downloads, server>>
    BY <1>15 DEF RangeRefused
  <2> QED
    BY <2>1, <2>2, <2>3, <2>4 DEF Types, Flow, Outs
<1>16. ASSUME NEW t \in Tasks, Open(t) PROVE Types'
  <2>1. temp' \in [Paths -> Seq(Blocks)]
    <3>1. temp' = temp \/ temp' = [temp EXCEPT ![Path[t]] = <<>>]
      BY <1>16 DEF Open
    <3>2. <<>> \in Seq(Blocks)
      OBVIOUS
    <3> QED
      BY <3>1, <3>2, TempType
  <2>2. stream' \in [Tasks -> [version : Versions, next : Nat]]
    <3>1. stream' = stream \/ stream' = [stream EXCEPT ![t].next = @ + 1]
      BY <1>16 DEF Open
    <3>2. stream \in [Tasks -> [version : Versions, next : Nat]]
      BY Zenon DEF Types
    <3> QED
      BY <3>1, <3>2, StreamAdvances
  <2>3. Flow'
    BY <1>16, ThrowFlow, Labels, Names, Zenon DEF Open
  <2>4. UNCHANGED <<cancelled, trust, tries, resume, mode, downloads, saved, server>>
    BY <1>16 DEF Open
  <2> QED
    BY <2>1, <2>2, <2>3, <2>4 DEF Types, Flow, Outs
<1>17. ASSUME NEW t \in Tasks, Read(t) PROVE Types'
  <2>1. temp' \in [Paths -> Seq(Blocks)]
    <3> DEFINE b == Block(stream[t].version, stream[t].next + 1)
    <3>1. temp' = [temp EXCEPT ![Path[t]] = Append(temp[Path[t]], b)]
      BY <1>17 DEF Read
    <3>2. b \in Blocks
      <4>1. stream[t].version \in Versions /\ stream[t].next + 1 \in Nat
        BY DEF Types
      <4> QED
        BY <4>1, BlockFacts
    <3> HIDE DEF b
    <3>3. Append(temp[Path[t]], b) \in Seq(Blocks)
      BY <1>0, <3>2 DEF Types
    <3> QED
      BY <3>1, <3>3, TempType
  <2>2. stream' \in [Tasks -> [version : Versions, next : Nat]]
    <3>1. stream' = [stream EXCEPT ![t].next = @ + 1]
      BY <1>17 DEF Read
    <3> QED
      BY <3>1, StreamAdvances
  <2>3. Flow'
    <3>1. CASE cancelled[t]
      BY <1>17, <3>1, ThrowFlow, Labels, Names, Zenon DEF Read
    <3>2. CASE ~cancelled[t]
      BY <1>17, <3>2, SameFlow, Zenon DEF Read
    <3> QED
      BY <3>1, <3>2
  <2>4. UNCHANGED <<cancelled, trust, tries, resume, mode, downloads, saved, server>>
    BY <1>17 DEF Read
  <2> QED
    BY <2>1, <2>2, <2>3, <2>4 DEF Types, Flow, Outs
<1>18. ASSUME NEW t \in Tasks, EndOfStream(t) \/ ReadFails(t) PROVE Types'
  <2>1. CASE EndOfStream(t)
    <3>1. Flow'
      BY <2>1, GotoFlow, Labels, Zenon DEF EndOfStream
    <3> QED
      BY <2>1, <3>1, FlowKeeps, Zenon DEF EndOfStream, shared
  <2>2. CASE ReadFails(t)
    <3>1. Flow'
      BY <2>2, ThrowFlow, Labels, Names, Zenon DEF ReadFails
    <3> QED
      BY <2>2, <3>1, FlowKeeps, Zenon DEF ReadFails, shared
  <2> QED
    BY <1>18, <2>1, <2>2
<1>19. ASSUME NEW t \in Tasks, Rename(t) PROVE Types'
  <2>1. saved' \in [Paths -> [by : Tasks \cup {None}, via : {"none", "stream", "416"},
                             data : Seq(Blocks)]]
    BY <1>19, RenameTypes DEF Rename
  <2>2. temp' \in [Paths -> Seq(Blocks)]
    BY <1>19, RenameTypes DEF Rename
  <2>3. Flow'
    BY <1>19, GotoFlow, Labels, Zenon DEF Rename
  <2>4. UNCHANGED <<cancelled, trust, tries, resume, stream, mode, downloads, server>>
    BY <1>19 DEF Rename
  <2> QED
    BY <2>1, <2>2, <2>3, <2>4 DEF Types, Flow, Outs
<1>20. ASSUME NEW t \in Tasks, Unlock(t) PROVE Types'
  <2>1. stream' \in [Tasks -> [version : Versions, next : Nat]]
    <3>1. stream' = [stream EXCEPT ![t] = NoStream]
      BY <1>20 DEF Unlock
    <3>2. NoStream \in [version : Versions, next : Nat]
      BY VersionFacts DEF NoStream
    <3> QED
      BY <3>1, <3>2 DEF Types
  <2>2. mode' \in [Tasks -> {"none", "write"}]
    BY <1>20 DEF Unlock, Lock!Release, Types
  <2>3. Flow'
    BY <1>20, GotoFlow, Labels, Zenon DEF Unlock
  <2>4. UNCHANGED <<cancelled, trust, tries, resume, downloads, temp, saved, server>>
    BY <1>20 DEF Unlock
  <2> QED
    BY <2>1, <2>2, <2>3, <2>4 DEF Types, Flow, Outs
<1>21. ASSUME NEW t \in Tasks, Retry(t) PROVE Types'
  <2>1. tries' \in [Tasks -> [retry : Nat, redirect : Nat]]
    <3>1. tries' = [tries EXCEPT ![t].retry = @ + 1]
      BY <1>21 DEF Retry, CountRetry
    <3> QED
      BY <3>1, TriesType
  <2>2. Flow'
    BY <1>21, GotoFlow, Labels, Zenon DEF Retry
  <2>3. UNCHANGED <<cancelled, trust, resume, stream, shared>>
    BY <1>21 DEF Retry
  <2> QED
    BY <2>1, <2>2, <2>3 DEF Types, Flow, Outs, shared
<1>22. ASSUME NEW t \in Tasks, Redirect(t) PROVE Types'
  <2>1. tries' \in [Tasks -> [retry : Nat, redirect : Nat]]
    <3>1. tries' = [tries EXCEPT ![t].redirect = @ + 1]
      BY <1>22 DEF Redirect
    <3> QED
      BY <3>1, TriesType
  <2>2. Flow'
    BY <1>22, GotoFlow, Labels, Zenon DEF Redirect
  <2>3. resume' \in [Tasks -> BOOLEAN]
    BY <1>22 DEF Redirect, Types
  <2>4. UNCHANGED <<cancelled, trust, stream, shared>>
    BY <1>22 DEF Redirect
  <2> QED
    BY <2>1, <2>2, <2>3, <2>4 DEF Types, Flow, Outs, shared
<1>23. ASSUME NEW t \in Tasks, Finish(t) PROVE Types'
  <2>1. PICK o \in Outs : End(t, o)
    <3>1. CASE failure[t] = "none"
      BY <1>23, <3>1, Names DEF Finish
    <3>2. CASE failure[t] = "empty"
      BY <1>23, <3>2, Names DEF Finish
    <3>3. CASE failure[t] \notin {"none", "empty"}
      BY <1>23, <3>3, Names DEF Finish
    <3> QED
      BY <3>1, <3>2, <3>3
  <2>2. Flow'
    BY <1>23, <2>1, EndFlow, Zenon DEF Finish
  <2> QED
    BY <1>23, <2>2, FlowKeeps, Zenon DEF Finish, shared
<1>24. CASE UNCHANGED vars
  BY <1>24 DEF vars, task, shared, Types
<1> QED
  BY <1>1, <1>2, <1>3, <1>4, <1>5, <1>6, <1>7, <1>8, <1>9, <1>10, <1>11, <1>12, <1>13, <1>14,
     <1>15, <1>16, <1>17, <1>18, <1>19, <1>20, <1>21, <1>22, <1>23, <1>24, <1>25
     DEF Next, ThreadStep

-----------------------------------------------------------------------------
(* What a step of thread t leaves alone.                                   *)

\* No other thread moves, and only the loading t writes the files of its path.
Alone(t) ==
    /\ \A u \in Tasks \ {t} : /\ pc'[u] = pc[u] /\ stream'[u] = stream[u]
                              /\ resume'[u] = resume[u] /\ failure'[u] = failure[u]
    /\ \A p \in Paths : (p = Path[t] => pc[t] \notin Loading)
                           => temp'[p] = temp[p] /\ saved'[p] = saved[p]

\* Without one of the three steps that touch them, the slots and the locks stay.
Steady(t) ==
    /\ mode' = mode /\ count' = count
    /\ pc'[t] \in Working <=> pc[t] \in Working
    /\ pc'[t] \in Loading <=> pc[t] \in Loading

Step(t) == CheckDownloadTask(t) \/ OnUpdate(t) \/ ThreadStep(t) \/ Cancel(t)

LEMMA StepAlone ==
    ASSUME Types, NEW t \in Tasks, Step(t)
    PROVE  Alone(t)
<1> USE DEF Types, States, Failures, Working, Loading, Goto, Throw, End, task, shared, Alone
<1>1. CASE CheckDownloadTask(t)
  BY <1>1 DEF CheckDownloadTask
<1>2. CASE OnUpdate(t) \/ Cancel(t)
  BY <1>2 DEF OnUpdate, Cancel
<1>3. CASE LoadResultFromCache(t) \/ TrustCache(t) \/ Request(t)
  BY <1>3 DEF LoadResultFromCache, TrustCache, Request
<1>4. CASE WaitForSlot(t) \/ TakeSlot(t) \/ Begin(t) \/ GiveSlot(t)
  BY <1>4 DEF WaitForSlot, TakeSlot, Begin, GiveSlot
<1>5. CASE CheckProgress(t) \/ TryLock(t)
  BY <1>5 DEF CheckProgress, TryLock
<1>6. CASE SetRange(t)
  BY <1>6 DEF SetRange
<1>7. CASE SendFails(t) \/ SendWhole(t) \/ SendRanged(t)
  BY <1>7 DEF SendFails, SendWhole, SendRanged
<1>8. CASE RangeRefused(t)
  BY <1>8 DEF RangeRefused, AutoRename
<1>9. CASE Open(t)
  BY <1>9 DEF Open
<1>10. CASE Read(t)
  BY <1>10 DEF Read
<1>11. CASE EndOfStream(t) \/ ReadFails(t)
  BY <1>11 DEF EndOfStream, ReadFails
<1>12. CASE Rename(t)
  BY <1>12 DEF Rename, AutoRename
<1>13. CASE Unlock(t)
  BY <1>13 DEF Unlock
<1>14. CASE Retry(t) \/ Redirect(t) \/ Finish(t)
  BY <1>14 DEF Retry, Redirect, Finish
<1> QED
  BY <1>1, <1>2, <1>3, <1>4, <1>5, <1>6, <1>7, <1>8, <1>9, <1>10, <1>11, <1>12, <1>13, <1>14
     DEF Step, ThreadStep

LEMMA StepSteady ==
    ASSUME Types, NEW t \in Tasks, Step(t)
    PROVE  Steady(t) \/ TakeSlot(t) \/ GiveSlot(t) \/ TryLock(t) \/ Unlock(t)
<1> USE DEF Types, States, Working, Loading, Goto, Throw, End, task, shared, Steady
<1>1. CASE CheckDownloadTask(t) \/ OnUpdate(t) \/ Cancel(t)
  BY <1>1 DEF CheckDownloadTask, OnUpdate, Cancel
<1>2. CASE LoadResultFromCache(t) \/ TrustCache(t) \/ Request(t)
  BY <1>2 DEF LoadResultFromCache, TrustCache, Request
<1>3. CASE WaitForSlot(t) \/ Begin(t) \/ CheckProgress(t)
  BY <1>3 DEF WaitForSlot, Begin, CheckProgress
<1>4. CASE SetRange(t)
  BY <1>4 DEF SetRange
<1>5. CASE SendFails(t) \/ SendWhole(t) \/ SendRanged(t) \/ RangeRefused(t)
  BY <1>5 DEF SendFails, SendWhole, SendRanged, RangeRefused
<1>6. CASE Open(t)
  BY <1>6 DEF Open
<1>7. CASE Read(t)
  BY <1>7 DEF Read
<1>8. CASE EndOfStream(t) \/ ReadFails(t) \/ Rename(t)
  BY <1>8 DEF EndOfStream, ReadFails, Rename
<1>9. CASE Retry(t) \/ Redirect(t) \/ Finish(t)
  BY <1>9 DEF Retry, Redirect, Finish
<1> QED
  BY <1>1, <1>2, <1>3, <1>4, <1>5, <1>6, <1>7, <1>8, <1>9 DEF Step, ThreadStep

-----------------------------------------------------------------------------
(* The worker slots and the locks.                                         *)

Workers == {t \in Tasks : pc[t] \in Working}

Slots == IsFiniteSet(Workers) /\ count = Cardinality(Workers)

Locks ==
    /\ \A t \in Tasks : mode[t] # "none" <=> pc[t] \in Loading
    /\ \A t, u \in Tasks :
           pc[t] \in Loading /\ pc[u] \in Loading /\ Path[t] = Path[u] => t = u

LEMMA NextSlots ==
    ASSUME Types, Slots, [Next]_vars
    PROVE  Slots'
<1>1. CASE Publish \/ UNCHANGED vars
  <2>1. count' = count /\ pc' = pc
    BY <1>1 DEF Publish, vars, task, shared
  <2>2. Workers' = Workers
    BY <2>1 DEF Workers
  <2> QED
    BY <2>1, <2>2 DEF Slots
<1>2. ASSUME NEW t \in Tasks, Step(t) PROVE Slots'
  <2>1. \A u \in Tasks \ {t} : pc'[u] = pc[u]
    BY <1>2, StepAlone DEF Alone
  <2>2. CASE TakeSlot(t)
    <3>1. pc[t] = "take" /\ pc'[t] = "begin" /\ count' = count + 1
      BY <2>2 DEF TakeSlot, Goto, Types
    <3>2. t \notin Workers /\ Workers' = Workers \cup {t}
      BY <2>1, <3>1 DEF Workers, Working, Loading
    <3> QED
      BY <3>1, <3>2, FS_AddElement DEF Slots
  <2>3. CASE GiveSlot(t)
    <3>1. pc[t] = "give" /\ pc'[t] = "after" /\ count' = count - 1
      BY <2>3 DEF GiveSlot, Goto, Types
    <3>2. t \in Workers /\ Workers' = Workers \ {t}
      BY <2>1, <3>1 DEF Workers, Working, Loading
    <3> QED
      BY <3>1, <3>2, FS_RemoveElement DEF Slots
  <2>4. CASE count' = count /\ (pc'[t] \in Working <=> pc[t] \in Working)
    <3>1. Workers' = Workers
      BY <2>1, <2>4 DEF Workers
    <3> QED
      BY <2>4, <3>1 DEF Slots
  <2>5. CASE TryLock(t)
    <3>1. pc[t] \in Working /\ pc'[t] \in Working /\ count' = count
      BY <2>5 DEF TryLock, Throw, Types, Working, Loading
    <3> QED
      BY <2>4, <3>1
  <2>6. CASE Unlock(t)
    <3>1. pc[t] \in Working /\ pc'[t] \in Working /\ count' = count
      BY <2>6 DEF Unlock, Goto, Types, Working, Loading
    <3> QED
      BY <2>4, <3>1
  <2> QED
    BY <1>2, <2>2, <2>3, <2>4, <2>5, <2>6, StepSteady DEF Steady
<1> QED
  BY <1>1, <1>2 DEF Next, Step

LEMMA NextLocks ==
    ASSUME Types, Locks, [Next]_vars
    PROVE  Locks'
<1>1. CASE Publish \/ UNCHANGED vars
  BY <1>1 DEF Publish, vars, task, shared, Locks
<1>2. ASSUME NEW t \in Tasks, Step(t) PROVE Locks'
  <2>1. \A u \in Tasks \ {t} : pc'[u] = pc[u]
    BY <1>2, StepAlone DEF Alone
  <2>2. CASE mode' = mode /\ (pc'[t] \in Loading <=> pc[t] \in Loading)
    BY <2>1, <2>2 DEF Locks
  <2>3. CASE TakeSlot(t) \/ GiveSlot(t)
    <3>1. mode' = mode /\ pc'[t] \notin Loading /\ pc[t] \notin Loading
      BY <2>3 DEF TakeSlot, GiveSlot, Goto, Types, Loading
    <3> QED
      BY <2>2, <3>1
  <2>4. CASE TryLock(t)
    <3>1. CASE mode' = mode
      <4>1. pc[t] = "lock" /\ pc'[t] \in {"range", "give"}
        BY <2>4 DEF TryLock, Throw, Types
      <4>2. pc'[t] = "give"
        <5> SUFFICES ASSUME Lock!Acquire(t, "write") PROVE FALSE
          BY <2>4, <4>1 DEF TryLock, Throw, Types
        <5>1. mode[t] = "none" /\ mode'[t] = "write"
          BY DEF Lock!Acquire, Types
        <5> QED
          BY <3>1, <5>1
      <4> QED
        BY <2>2, <3>1, <4>1, <4>2 DEF Loading
    <3>2. CASE Lock!Acquire(t, "write") /\ Throw(t, "range", "none")
      <4>1. /\ pc'[t] = "range" /\ mode'[t] = "write"
            /\ \A u \in Tasks \ {t} : mode'[u] = mode[u]
        BY <3>2 DEF Lock!Acquire, Throw, Types
      <4>2. \A u \in Tasks \ {t} : Path[u] = Path[t] => mode[u] = "none"
        BY <3>2 DEF Lock!Acquire, Lock!Compatible, Types
      <4>3. \A u \in Tasks \ {t} : Path[u] = Path[t] => pc'[u] \notin Loading
        BY <2>1, <4>2 DEF Locks
      <4> QED
        BY <2>1, <4>1, <4>3 DEF Locks, Loading
    <3> QED
      BY <2>4, <3>1, <3>2 DEF TryLock
  <2>5. CASE Unlock(t)
    <3>1. pc'[t] = "give" /\ mode' = [u \in Tasks |-> IF u \in {t} THEN "none" ELSE mode[u]]
      BY <2>5 DEF Unlock, Goto, Lock!Release, Types
    <3> QED
      BY <2>1, <3>1 DEF Locks, Loading
  <2> QED
    BY <1>2, <2>2, <2>3, <2>4, <2>5, StepSteady DEF Steady
<1> QED
  BY <1>1, <1>2 DEF Next, Step

-----------------------------------------------------------------------------
(* The files.                                                              *)

Continuous(f) == \A i \in DOMAIN f : GoesOn(f, i)

\* What the loader of t knows of the response and of the temporary file: once
\* the file is open, it ends with what comes before the next block.
Reading(t) ==
    LET f == temp[Path[t]]
        v == stream[t].version
        n == stream[t].next
    IN /\ pc[t] \in {"send", "open"} /\ n # 0 => resume[t] /\ Len(f) = n + 1
       /\ pc[t] = "open" => n < Size(v)
       /\ pc[t] \in {"read", "rename"} =>
              /\ n <= Size(v)
              /\ n = 0 => f = <<>>
              /\ n > 0 => f # <<>> /\ BytesOf(f[Len(f)]) = Bytes[v][n]
       /\ pc[t] = "rename" => n >= Size(v)

Files ==
    /\ \A p \in Paths : Continuous(temp[p])
    /\ \A t \in Tasks : Reading(t)
    /\ SeamsMatch

\* What a thread knows stays true when another one moves.
LEMMA OthersRead ==
    ASSUME Types, Locks, NEW t \in Tasks, Alone(t), NEW u \in Tasks \ {t}, Reading(u)
    PROVE  Reading(u)'
<1>1. pc'[u] = pc[u] /\ stream'[u] = stream[u] /\ resume'[u] = resume[u]
  BY DEF Alone
<1>2. CASE pc[u] \in {"send", "open", "read", "rename"}
  <2>1. Path[u] = Path[t] => pc[t] \notin Loading
    BY <1>2 DEF Locks, Loading
  <2>2. temp'[Path[u]] = temp[Path[u]]
    BY <2>1, DownloadAssumption DEF Alone
  <2> QED
    BY <1>1, <2>2 DEF Reading
<1>3. CASE pc[u] \notin {"send", "open", "read", "rename"}
  BY <1>1, <1>3 DEF Reading
<1> QED
  BY <1>2, <1>3

LEMMA EmptyContinuous == Continuous(<<>>)
  BY DEF Continuous

\* The next block of a version goes on after bytes that come before it there.
LEMMA ContinuousAppend ==
    ASSUME NEW f \in Seq(Blocks), NEW v \in Versions, NEW n \in Nat, Continuous(f),
           n = 0 => f = <<>>,
           n > 0 => f # <<>> /\ BytesOf(f[Len(f)]) = Bytes[v][n]
    PROVE  LET g == Append(f, Block(v, n + 1))
           IN g # <<>> /\ BytesOf(g[Len(g)]) = Bytes[v][n + 1] /\ Continuous(g)
<1> DEFINE b == Block(v, n + 1)
<1> DEFINE g == Append(f, b)
<1>1. /\ b \in Blocks /\ b.version = v /\ b.place = n + 1 /\ BytesOf(b) = Bytes[v][n + 1]
      /\ b.place - 1 = n
  BY BlockFacts
<1>2. n > 0 => BytesOf(Block(v, n)) = Bytes[v][n]
  BY BlockFacts
<1> HIDE DEF b
<1>3. /\ Len(f) \in Nat /\ Len(g) = Len(f) + 1 /\ g[Len(f) + 1] = b
      /\ DOMAIN f = 1 .. Len(f) /\ DOMAIN g = 1 .. Len(f) + 1
      /\ \A i \in 1 .. Len(f) : g[i] = f[i]
  <2>1. g \in Seq(Blocks) /\ Len(f) \in Nat /\ Len(g) = Len(f) + 1
    BY <1>1, LenProperties, AppendProperties
  <2> QED
    BY <1>1, <2>1, LenProperties, AppendProperties
<1>4. f # <<>> => Len(f) > 0
  BY <1>3, EmptySeq
<1>5. f = <<>> => Len(f) = 0
  BY EmptySeq
<1> HIDE DEF g
<1>6. ASSUME NEW i \in 1 .. Len(f) PROVE GoesOn(g, i)
  <2>1. GoesOn(f, i) /\ g[i] = f[i]
    BY <1>3 DEF Continuous
  <2>2. CASE i = 1
    BY <2>1, <2>2 DEF GoesOn
  <2>3. CASE i # 1
    <3>1. i - 1 \in 1 .. Len(f)
      BY <1>3, <2>3
    <3>2. g[i - 1] = f[i - 1]
      BY <1>3, <3>1
    <3> QED
      BY <2>1, <2>3, <3>2 DEF GoesOn
  <2> QED
    BY <2>2, <2>3
<1>7. GoesOn(g, Len(f) + 1)
  <2>1. CASE n = 0
    <3>1. Len(f) + 1 = 1 /\ g[1].place = 1
      BY <1>1, <1>3, <1>5, <2>1
    <3> QED
      BY <3>1 DEF GoesOn
  <2>2. CASE n > 0
    <3>1. Len(f) + 1 # 1 /\ (Len(f) + 1) - 1 = Len(f) /\ Len(f) \in 1 .. Len(f)
      BY <1>3, <1>4, <2>2
    <3>2. g[Len(f)] = f[Len(f)]
      BY <1>3, <3>1
    <3>3. g[Len(f) + 1].place > 1 /\ g[Len(f) + 1].place - 1 = n /\ g[Len(f) + 1].version = v
      BY <1>1, <1>3, <2>2
    <3> QED
      BY <1>2, <2>2, <3>1, <3>2, <3>3 DEF GoesOn
  <2> QED
    BY <2>1, <2>2
<1>8. Continuous(g)
  BY <1>3, <1>6, <1>7 DEF Continuous
<1>9. g # <<>> /\ BytesOf(g[Len(g)]) = Bytes[v][n + 1]
  BY <1>1, <1>3, EmptySeq
<1> QED
  BY <1>8, <1>9 DEF g, b

LEMMA InitFiles == Init => Files
<1> SUFFICES ASSUME Init PROVE Files
  OBVIOUS
<1>1. PICK n \in 0 .. Size(1) : temp = [p \in Paths |-> [i \in 1 .. n |-> Block(1, i)]]
  BY DEF Init
<1> DEFINE f == [i \in 1 .. n |-> Block(1, i)]
<1>2. n \in Nat
  BY <1>1, VersionFacts
<1>3. ASSUME NEW i \in 1 .. n PROVE GoesOn(f, i)
  <2>1. i \in Nat /\ f[i] = Block(1, i)
    BY <1>2
  <2>2. f[i].place = i /\ f[i].version = 1
    BY <2>1, VersionFacts, BlockFacts
  <2>3. CASE i = 1
    BY <2>2, <2>3 DEF GoesOn
  <2>4. CASE i # 1
    <3>1. i - 1 \in 1 .. n /\ i > 1
      BY <1>2, <2>4
    <3>2. f[i - 1] = Block(1, i - 1)
      BY <3>1
    <3> QED
      BY <2>2, <2>4, <3>1, <3>2 DEF GoesOn
  <2> QED
    BY <2>3, <2>4
<1>4. Continuous(f)
  BY <1>3 DEF Continuous
<1>5. \A p \in Paths : Continuous(temp[p])
  BY <1>1, <1>4
<1>6. SeamsMatch
  BY DEF Init, SeamsMatch
<1>7. \A t \in Tasks : Reading(t)
  BY DEF Init, Reading
<1> QED
  BY <1>5, <1>6, <1>7 DEF Files

\* A file has no bad seam, and stops short only after a 416.
Good(s) ==
    /\ Continuous(s.data)
    /\ s.via = "stream" => EndsLikeAVersion(s.data)

\* The files of the other paths, and what their threads know, need no proof: it
\* is enough to look at the file of the thread that moves.
LEMMA OwnFiles ==
    ASSUME Types, Locks, Files, NEW t \in Tasks, Alone(t), Reading(t)',
           Continuous(temp'[Path[t]]),
           saved'[Path[t]] = saved[Path[t]] \/ Good(saved'[Path[t]])
    PROVE  Files'
<1>1. \A p \in Paths : p # Path[t] => temp'[p] = temp[p] /\ saved'[p] = saved[p]
  BY DEF Alone
<1>2. \A p \in Paths : Continuous(temp'[p])
  BY <1>1 DEF Files
<1>3. \A u \in Tasks : Reading(u)'
  BY OthersRead DEF Files
<1>4. \A p \in Paths : Good(saved[p])
  BY DEF Files, SeamsMatch, Good, Continuous
<1>5. \A p \in Paths : Good(saved'[p])
  BY <1>1, <1>4
<1>6. SeamsMatch'
  BY <1>5 DEF SeamsMatch, Good, Continuous, EndsLikeAVersion
<1> QED
  BY <1>2, <1>3, <1>6 DEF Files, Continuous, GoesOn

LEMMA NextFiles ==
    ASSUME Types, Types', Locks, Files, [Next]_vars
    PROVE  Files'
<1>1. CASE Publish \/ UNCHANGED vars
  BY <1>1 DEF Publish, vars, task, shared, Files, Reading, SeamsMatch, Continuous, GoesOn, EndsLikeAVersion
<1>2. ASSUME NEW t \in Tasks, Step(t) PROVE Files'
  <2> DEFINE p == Path[t]
  <2> DEFINE f == temp[p]
  <2> DEFINE v == stream[t].version
  <2> DEFINE n == stream[t].next
  <2>1. Alone(t) /\ p \in Paths /\ Reading(t)
    BY <1>2, StepAlone, DownloadAssumption DEF Files
  <2>2. Continuous(f)
    BY <2>1 DEF Files
  <2>3. /\ f \in Seq(Blocks) /\ Len(f) \in Nat /\ (f # <<>> <=> Len(f) > 0)
        /\ stream[t] \in [version : Versions, next : Nat] /\ pc[t] \in States
        /\ v \in Versions /\ n \in Nat /\ Size(v) \in Nat /\ Size(v) >= 1
    <3>1. stream[t] \in [version : Versions, next : Nat] /\ pc[t] \in States /\ f \in Seq(Blocks)
      BY <2>1 DEF Types
    <3> QED
      BY <3>1, VersionFacts, EmptySeq, LenProperties
  <2> HIDE DEF p, f, v, n
  <2>4. ASSUME temp'[p] = f, saved'[p] = saved[p],
               pc'[t] \notin {"send", "open", "read", "rename"}
        PROVE  Files'
    BY <2>1, <2>2, <2>4, OwnFiles DEF Reading, p
  <2>5. ASSUME temp'[p] = <<>>, saved'[p] = saved[p],
               pc'[t] \notin {"send", "open", "read", "rename"}
        PROVE  Files'
    BY <2>1, <2>5, OwnFiles, EmptyContinuous DEF Reading, p
  <2>6. CASE pc[t] \notin Loading
    <3>1. pc'[t] \notin {"send", "open", "read", "rename"}
      <4> USE DEF Types, Loading, Goto, Throw, End
      <4>1. CASE TakeSlot(t) \/ GiveSlot(t) \/ TryLock(t)
        BY <4>1 DEF TakeSlot, GiveSlot, TryLock
      <4>2. CASE Steady(t)
        BY <2>6, <4>2 DEF Steady
      <4> QED
        BY <1>2, <4>1, <4>2, <2>6, StepSteady DEF Unlock
    <3>2. temp'[p] = f /\ saved'[p] = saved[p]
      BY <2>1, <2>6 DEF Alone, p, f
    <3> QED
      BY <2>4, <3>1, <3>2
  <2>7. CASE Cancel(t)
    <3>1. UNCHANGED <<pc, stream, resume, temp, saved>>
      BY <2>7 DEF Cancel, shared
    <3>2. Reading(t)'
      BY <2>1, <3>1 DEF Reading
    <3> QED
      BY <2>1, <2>2, <3>1, <3>2, OwnFiles DEF p, f
  <2>8. CASE SetRange(t)
    <3>1. saved' = saved /\ pc'[t] \in {"unlock", "send"} /\ resume' = resume
      BY <2>8 DEF SetRange, Throw, Types
    <3>2. CASE resume[t] /\ Len(f) > 1
      <4>1. temp'[p] = f
        BY <2>1, <2>8, <3>2 DEF SetRange, Types, p, f
      <4>2. stream'[t].next = Len(f) - 1
        BY <2>8, <3>2 DEF SetRange, Types, p, f
      <4>3. Reading(t)'
        BY <2>3, <3>1, <3>2, <4>1, <4>2 DEF Reading, p
      <4> QED
        BY <2>1, <2>2, <3>1, <4>1, <4>3, OwnFiles DEF p
    <3>3. CASE ~(resume[t] /\ Len(f) > 1)
      <4>1. temp'[p] \in {f, <<>>}
        BY <2>1, <2>8, <3>3 DEF SetRange, Types, p, f
      <4>2. stream'[t].next = 0
        BY <2>8, <3>3 DEF SetRange, Types, p, f
      <4>3. Reading(t)'
        BY <3>1, <4>2 DEF Reading
      <4> QED
        BY <2>1, <2>2, <3>1, <4>1, <4>3, OwnFiles, EmptyContinuous DEF p
    <3> QED
      BY <3>2, <3>3
  <2>9. CASE SendFails(t) \/ ReadFails(t)
    <3>1. temp' = temp /\ saved' = saved /\ pc'[t] = "unlock"
      BY <2>9 DEF SendFails, ReadFails, Throw, shared, Types
    <3> QED
      BY <2>4, <3>1 DEF f
  <2>10. CASE SendWhole(t)
    <3>1. /\ temp' = temp /\ saved' = saved /\ pc'[t] \in {"unlock", "open"}
          /\ stream'[t] = [version |-> server, next |-> 0]
      BY <2>10 DEF SendWhole, Throw, shared, Types
    <3>2. server \in Versions
      BY DEF Types
    <3>3. Reading(t)'
      BY <3>1, <3>2, VersionFacts DEF Reading
    <3> QED
      BY <2>1, <2>2, <3>1, <3>3, OwnFiles DEF p, f
  <2>11. CASE SendRanged(t)
    <3>1. /\ temp' = temp /\ saved' = saved /\ pc[t] = "send" /\ pc'[t] \in {"unlock", "open"}
          /\ stream'[t].next = stream[t].next /\ resume' = resume
          /\ stream'[t].version = server /\ stream[t].next < Size(server)
      BY <2>11 DEF SendRanged, Throw, shared, Types
    <3>2. Reading(t)'
      BY <2>1, <3>1 DEF Reading
    <3> QED
      BY <2>1, <2>2, <3>1, <3>2, OwnFiles DEF p, f
  <2>12. CASE RangeRefused(t)
    <3>1. pc'[t] = "unlock" /\ AutoRename(t, "416")
      BY <2>12 DEF RangeRefused, Throw, Types
    <3>2. CASE temp' = temp /\ saved' = saved
      BY <2>4, <3>1, <3>2 DEF f
    <3>3. CASE ~(temp' = temp /\ saved' = saved)
      <4>1. temp'[p] = <<>> /\ saved'[p].via = "416" /\ saved'[p].data = f
        BY <3>1, <3>3, RenameEffect DEF p, f
      <4>2. Good(saved'[p])
        BY <2>2, <4>1 DEF Good
      <4>3. Reading(t)'
        BY <3>1 DEF Reading
      <4> QED
        BY <2>1, <4>1, <4>2, <4>3, OwnFiles, EmptyContinuous DEF p
    <3> QED
      BY <3>2, <3>3
  <2>13. CASE Open(t)
    <3>1. saved' = saved /\ pc[t] = "open" /\ pc'[t] \in {"unlock", "read"}
      BY <2>13 DEF Open, Throw, Types
    <3>6. n < Size(v)
      BY <2>1, <3>1 DEF Reading, v, n
    <3>2. CASE resume[t] /\ f # <<>> /\ SameBlock(t)
      <4>1. temp' = temp /\ stream' = [stream EXCEPT ![t].next = @ + 1]
        BY <2>13, <3>2 DEF Open, p, f
      <4>2. BytesOf(f[Len(f)]) = BytesOf(Block(v, n + 1))
        BY <3>2 DEF SameBlock, p, f, v, n
      <4>3. BytesOf(f[Len(f)]) = Bytes[v][n + 1]
        BY <2>3, <4>2, BlockFacts
      <4>4. stream'[t].version = v /\ stream'[t].next = n + 1
        BY <4>1, StreamAdvances DEF v, n
      <4>5. n + 1 <= Size(v) /\ n + 1 > 0
        BY <2>3, <3>6
      <4>6. Reading(t)'
        BY <2>3, <3>1, <3>2, <4>1, <4>3, <4>4, <4>5 DEF Reading, p, f
      <4> QED
        BY <2>1, <2>2, <3>1, <4>1, <4>6, OwnFiles DEF p, f
    <3>3. CASE resume[t] /\ f # <<>> /\ ~SameBlock(t)
      <4>1. temp'[p] = <<>> /\ pc'[t] = "unlock"
        BY <2>1, <2>13, <3>3 DEF Open, Throw, Types, p, f
      <4> QED
        BY <2>5, <3>1, <4>1
    <3>4. CASE ~(resume[t] /\ f # <<>>)
      <4>1. temp'[p] = <<>> /\ stream' = stream
        BY <2>1, <2>13, <3>4 DEF Open, Types, p, f
      <4>2. n = 0
        <5> SUFFICES ASSUME n # 0 PROVE FALSE
          OBVIOUS
        <5>1. resume[t] /\ Len(f) = n + 1
          BY <2>1, <3>1 DEF Reading, p, f, n
        <5> QED
          BY <2>3, <3>4, <5>1
      <4>3. stream'[t].next = 0 /\ 0 <= Size(stream'[t].version)
        BY <2>3, <4>1, <4>2 DEF v, n
      <4>4. Reading(t)'
        BY <3>1, <4>1, <4>3 DEF Reading, p
      <4> QED
        BY <2>1, <3>1, <4>1, <4>4, OwnFiles, EmptyContinuous DEF p
    <3> QED
      BY <3>2, <3>3, <3>4
  <2>14. CASE Read(t)
    <3> DEFINE b == Block(v, n + 1)
    <3>1. /\ saved' = saved /\ pc[t] = "read" /\ pc'[t] \in {"unlock", "read"}
          /\ temp' = [temp EXCEPT ![p] = Append(f, b)]
          /\ stream' = [stream EXCEPT ![t].next = @ + 1]
          /\ n < Size(v)
      BY <2>14 DEF Read, Throw, Types, p, f, v, n
    <3>2. (n = 0 => f = <<>>) /\ (n > 0 => f # <<>> /\ BytesOf(f[Len(f)]) = Bytes[v][n])
      BY <2>1, <3>1 DEF Reading, p, f, v, n
    <3>3. temp'[p] = Append(f, b)
      BY <2>1, <3>1 DEF Types
    <3> DEFINE g == Append(f, b)
    <3>4. g # <<>> /\ BytesOf(g[Len(g)]) = Bytes[v][n + 1] /\ Continuous(g)
      BY <2>2, <2>3, <3>2, ContinuousAppend
    <3>5. stream'[t].version = v /\ stream'[t].next = n + 1
      BY <3>1, StreamAdvances DEF v, n
    <3>6. n + 1 <= Size(v) /\ n + 1 > 0
      BY <2>3, <3>1
    <3> HIDE DEF b, g
    <3>7. temp'[p] = g
      BY <3>3 DEF g
    <3>8. Reading(t)'
      BY <2>3, <3>1, <3>4, <3>5, <3>6, <3>7 DEF Reading, p
    <3> QED
      BY <2>1, <3>1, <3>4, <3>7, <3>8, OwnFiles DEF p
  <2>15. CASE EndOfStream(t)
    <3>1. /\ UNCHANGED <<temp, saved, stream>> /\ pc[t] = "read" /\ pc'[t] = "rename"
          /\ stream[t].next >= Size(stream[t].version)
      BY <2>15 DEF EndOfStream, Goto, shared, Types
    <3>2. Reading(t)'
      BY <2>1, <3>1 DEF Reading
    <3> QED
      BY <2>1, <2>2, <3>1, <3>2, OwnFiles DEF p, f
  <2>16. CASE Rename(t)
    <3>1. pc[t] = "rename" /\ pc'[t] = "unlock" /\ AutoRename(t, "stream")
      BY <2>16 DEF Rename, Goto, Types
    <3>2. CASE temp' = temp /\ saved' = saved
      BY <2>4, <3>1, <3>2 DEF f
    <3>3. CASE ~(temp' = temp /\ saved' = saved)
      <4>1. temp'[p] = <<>> /\ saved'[p].data = f
        BY <3>1, <3>3, RenameEffect DEF p, f
      <4>2. n <= Size(v) /\ n >= Size(v) /\ (n > 0 => f # <<>> /\ BytesOf(f[Len(f)]) = Bytes[v][n])
        BY <2>1, <3>1 DEF Reading, p, f, v, n
      <4>3. f # <<>> /\ BytesOf(f[Len(f)]) = BytesOf(Block(v, Size(v)))
        <5>1. n = Size(v) /\ n > 0
          BY <2>3, <4>2
        <5>2. BytesOf(Block(v, Size(v))) = Bytes[v][Size(v)]
          BY <2>3, BlockFacts
        <5> QED
          BY <4>2, <5>1, <5>2
      <4>4. Good(saved'[p])
        BY <2>2, <2>3, <4>1, <4>3 DEF Good, EndsLikeAVersion
      <4>5. Reading(t)'
        BY <3>1 DEF Reading
      <4> QED
        BY <2>1, <4>1, <4>4, <4>5, OwnFiles, EmptyContinuous DEF p
    <3> QED
      BY <3>2, <3>3
  <2>17. CASE Unlock(t)
    <3>1. temp' = temp /\ saved' = saved /\ pc'[t] = "give"
      BY <2>17 DEF Unlock, Goto, Types
    <3> QED
      BY <2>4, <3>1 DEF f
  <2>18. pc[t] \in Loading => \/ Cancel(t) \/ SetRange(t) \/ SendFails(t) \/ ReadFails(t)
                              \/ SendWhole(t) \/ SendRanged(t) \/ RangeRefused(t) \/ Open(t)
                              \/ Read(t) \/ EndOfStream(t) \/ Rename(t) \/ Unlock(t)
    BY <1>2 DEF Step, ThreadStep, CheckDownloadTask, OnUpdate, LoadResultFromCache, TrustCache,
                Request, WaitForSlot, TakeSlot, Begin, GiveSlot, CheckProgress, TryLock, Retry,
                Redirect, Finish, Goto, Loading
  <2> QED
    BY <2>6, <2>7, <2>8, <2>9, <2>10, <2>11, <2>12, <2>13, <2>14, <2>15, <2>16, <2>17, <2>18
<1> QED
  BY <1>1, <1>2 DEF Next, Step

-----------------------------------------------------------------------------
(* The order of the downloads of a path.                                   *)

Listed(p, t) == \E i \in DOMAIN downloads[p] : downloads[p][i] = t

\* A path lists each of its downloads once; all but the last are cancelled.
Queue ==
    /\ \A p \in Paths : \A i \in DOMAIN downloads[p] :
           LET t == downloads[p][i]
           IN /\ Path[t] = p /\ pc[t] # "new"
              /\ i # Len(downloads[p]) => cancelled[t]
    /\ \A p \in Paths : \A i, j \in DOMAIN downloads[p] :
           downloads[p][i] = downloads[p][j] => i = j
    /\ \A t \in Tasks : pc[t] \notin {"new", "done"} => Listed(Path[t], t)

\* s was started before t for path p.
Before(p, s, t) ==
    \E i, j \in DOMAIN downloads[p] : i < j /\ downloads[p][i] = s /\ downloads[p][j] = t

\* t has its file and will not go back.
Finished(t) ==
    \/ pc[t] = "done"
    \/ pc[t] \in {"unlock", "give", "after"} /\ failure[t] = "none"

\* Who saved the file has finished, and who may still save it is newer.
Savers ==
    /\ \A t \in Tasks : pc[t] \in {"read", "rename"} => failure[t] = "none"
    /\ \A p \in Paths : LET s == saved[p].by
                        IN s # None => Listed(p, s) /\ Finished(s)
    /\ \A t \in Tasks : LET s == saved[Path[t]].by
                        IN pc[t] \in {"send", "open", "read", "rename"} /\ s # None
                               => Before(Path[t], s, t)

\* A new download is listed last, and the one before it is cancelled.
LEMMA StartEffect ==
    ASSUME Types, NEW t \in Tasks, CheckDownloadTask(t), ~cancelled[t]
    PROVE  /\ pc[t] = "new" /\ pc'[t] = "cache"
           /\ downloads'[Path[t]] = Append(downloads[Path[t]], t)
           /\ \A p \in Paths : p # Path[t] => downloads'[p] = downloads[p]
           /\ \A u \in Tasks : cancelled[u] \/ u \in Replaced(Path[t]) => cancelled'[u]
<1>1. /\ downloads' = [downloads EXCEPT ![Path[t]] = Append(@, t)]
      /\ cancelled' = [u \in Tasks |-> cancelled[u] \/ u \in Replaced(Path[t])]
      /\ pc[t] = "new" /\ pc' = [pc EXCEPT ![t] = "cache"]
  BY Zenon DEF CheckDownloadTask, Goto
<1>2. /\ downloads'[Path[t]] = Append(downloads[Path[t]], t)
      /\ \A p \in Paths : p # Path[t] => downloads'[p] = downloads[p]
  BY <1>1, DownloadAssumption DEF Types
<1>3. \A u \in Tasks : cancelled[u] \/ u \in Replaced(Path[t]) => cancelled'[u]
  BY <1>1, Zenon
<1> QED
  BY <1>1, <1>2, <1>3 DEF Types

\* No other step lists a download, brings one to life, or takes a cancellation back.
LEMMA OtherEffect ==
    ASSUME Types, NEW t \in Tasks, Step(t), CheckDownloadTask(t) => cancelled[t]
    PROVE  /\ downloads' = downloads
           /\ pc'[t] = "new" => pc[t] = "new"
           /\ pc'[t] \notin {"new", "done"} => pc[t] \notin {"new", "done"}
           /\ \A u \in Tasks : cancelled[u] => cancelled'[u]
<1> USE DEF Types, States, Failures, Working, Loading, Goto, Throw, End, task, shared
<1>1. CASE CheckDownloadTask(t)
  <2>1. UNCHANGED <<downloads, cancelled>> /\ pc' = [pc EXCEPT ![t] = "done"]
    BY <1>1, Zenon DEF CheckDownloadTask
  <2> QED
    BY <2>1
<1>2. CASE Cancel(t)
  <2>1. /\ UNCHANGED <<downloads, pc>>
        /\ cancelled' = [cancelled EXCEPT ![t] = TRUE]
    BY <1>2 DEF Cancel
  <2>2. \A u \in Tasks : cancelled[u] => cancelled'[u]
    BY <2>1, Zenon
  <2> QED
    BY <2>1, <2>2
<1>3. CASE OnUpdate(t) \/ LoadResultFromCache(t) \/ TrustCache(t) \/ Request(t)
  BY <1>3 DEF OnUpdate, LoadResultFromCache, TrustCache, Request
<1>4. CASE WaitForSlot(t) \/ TakeSlot(t) \/ Begin(t) \/ GiveSlot(t)
  BY <1>4 DEF WaitForSlot, TakeSlot, Begin, GiveSlot
<1>5. CASE CheckProgress(t) \/ TryLock(t)
  BY <1>5 DEF CheckProgress, TryLock
<1>6. CASE SetRange(t)
  BY <1>6 DEF SetRange
<1>7. CASE SendFails(t) \/ SendWhole(t) \/ SendRanged(t) \/ RangeRefused(t)
  BY <1>7 DEF SendFails, SendWhole, SendRanged, RangeRefused
<1>8. CASE Open(t)
  BY <1>8 DEF Open
<1>9. CASE Read(t)
  BY <1>9 DEF Read
<1>10. CASE EndOfStream(t) \/ ReadFails(t) \/ Rename(t) \/ Unlock(t)
  BY <1>10 DEF EndOfStream, ReadFails, Rename, Unlock
<1>11. CASE Retry(t) \/ Redirect(t) \/ Finish(t)
  BY <1>11 DEF Retry, Redirect, Finish
<1> QED
  BY <1>1, <1>2, <1>3, <1>4, <1>5, <1>6, <1>7, <1>8, <1>9, <1>10, <1>11 DEF Step, ThreadStep

LEMMA NextQueue ==
    ASSUME Types, Queue, [Next]_vars
    PROVE  Queue'
<1>1. CASE Publish \/ UNCHANGED vars
  BY <1>1 DEF Publish, vars, task, shared, Queue, Listed
<1>2. ASSUME NEW t \in Tasks, Step(t) PROVE Queue'
  <2>1. \A u \in Tasks \ {t} : pc'[u] = pc[u]
    BY <1>2, StepAlone DEF Alone
  <2>2. CASE CheckDownloadTask(t) => cancelled[t]
    <3>1. /\ downloads' = downloads
          /\ pc'[t] = "new" => pc[t] = "new"
          /\ pc'[t] \notin {"new", "done"} => pc[t] \notin {"new", "done"}
          /\ \A u \in Tasks : cancelled[u] => cancelled'[u]
      BY <1>2, <2>2, OtherEffect
    <3>2. \A p \in Paths : \A i \in DOMAIN downloads[p] : downloads[p][i] \in Tasks
      <4>1. \A p \in Paths : downloads[p] \in Seq(Tasks)
        BY DEF Types
      <4> QED
        BY <4>1, ElementOfSeq, LenProperties
    <3>3. ASSUME NEW p \in Paths, NEW i \in DOMAIN downloads[p]
          PROVE  /\ Path[downloads[p][i]] = p /\ pc'[downloads[p][i]] # "new"
                 /\ i # Len(downloads[p]) => cancelled'[downloads[p][i]]
      BY <2>1, <3>1, <3>2 DEF Queue
    <3>4. \A u \in Tasks : pc'[u] \notin {"new", "done"} => Listed(Path[u], u)'
      BY <2>1, <3>1 DEF Queue, Listed
    <3> QED
      BY <3>1, <3>3, <3>4 DEF Queue
  <2>3. CASE CheckDownloadTask(t) /\ ~cancelled[t]
    <3> DEFINE p == Path[t]
    <3> DEFINE d == downloads[p]
    <3>1. /\ pc[t] = "new" /\ pc'[t] = "cache" /\ downloads'[p] = Append(d, t)
          /\ \A q \in Paths : q # p => downloads'[q] = downloads[q]
          /\ \A u \in Tasks : cancelled[u] \/ u \in Replaced(p) => cancelled'[u]
      BY <2>3, StartEffect
    <3>2. p \in Paths /\ d \in Seq(Tasks) /\ Len(d) \in Nat
      BY DownloadAssumption DEF Types
    <3>3. \A q \in Paths : \A i \in DOMAIN downloads[q] : downloads[q][i] \in Tasks \ {t}
      <4>1. \A q \in Paths : downloads[q] \in Seq(Tasks)
        BY DEF Types
      <4> QED
        BY <3>1, <4>1, ElementOfSeq, LenProperties DEF Queue
    <3>4. /\ DOMAIN downloads'[p] = 1 .. Len(d) + 1
          /\ Len(downloads'[p]) = Len(d) + 1 /\ DOMAIN d = 1 .. Len(d)
          /\ downloads'[p][Len(d) + 1] = t
          /\ \A i \in 1 .. Len(d) : downloads'[p][i] = d[i]
      BY <3>1, <3>2, AppendProperties, LenProperties
    <3>5. \A i \in 1 .. Len(d) : cancelled'[d[i]]
      <4>1. ASSUME NEW i \in 1 .. Len(d), i # Len(d) PROVE cancelled[d[i]]
        BY <3>2, <3>4, <4>1 DEF Queue
      <4>2. d # <<>> => d[Len(d)] \in Replaced(p)
        BY DEF Replaced
      <4>3. ASSUME NEW i \in 1 .. Len(d) PROVE d[i] \in Tasks /\ d # <<>>
        BY <3>2, <3>3, <3>4
      <4> QED
        BY <3>1, <4>1, <4>2, <4>3
    <3> HIDE DEF p, d
    <3>6. ASSUME NEW q \in Paths, NEW i \in DOMAIN downloads'[q]
          PROVE  /\ Path[downloads'[q][i]] = q /\ pc'[downloads'[q][i]] # "new"
                 /\ i # Len(downloads'[q]) => cancelled'[downloads'[q][i]]
      <4>1. CASE q # p
        <5>1. downloads'[q] = downloads[q] /\ downloads[q][i] \in Tasks \ {t}
          BY <3>1, <3>3, <4>1
        <5> QED
          BY <2>1, <3>1, <5>1 DEF Queue
      <4>2. CASE q = p /\ i = Len(d) + 1
        BY <3>1, <3>4, <4>2 DEF p
      <4>3. CASE q = p /\ i # Len(d) + 1
        <5>1. i \in 1 .. Len(d) /\ downloads'[p][i] = d[i] /\ d[i] \in Tasks \ {t}
          BY <3>2, <3>3, <3>4, <4>3 DEF d
        <5> QED
          BY <2>1, <3>2, <3>4, <3>5, <4>3, <5>1 DEF Queue, d
      <4> QED
        BY <4>1, <4>2, <4>3
    <3>7. ASSUME NEW q \in Paths, NEW i \in DOMAIN downloads'[q], NEW j \in DOMAIN downloads'[q],
                 downloads'[q][i] = downloads'[q][j]
          PROVE  i = j
      <4>1. CASE q # p
        BY <3>1, <3>7, <4>1 DEF Queue
      <4>2. CASE q = p
        <5>1. \A k \in 1 .. Len(d) : d[k] # t
          BY <3>2, <3>3, <3>4 DEF d
        <5>2. i \in 1 .. Len(d) + 1 /\ j \in 1 .. Len(d) + 1
          BY <3>4, <3>7, <4>2
        <5>3. CASE i = Len(d) + 1 \/ j = Len(d) + 1
          BY <3>2, <3>4, <3>7, <4>2, <5>1, <5>2, <5>3
        <5>4. CASE i \in 1 .. Len(d) /\ j \in 1 .. Len(d)
          BY <3>2, <3>4, <3>7, <4>2, <5>4 DEF Queue, d
        <5> QED
          BY <3>2, <5>2, <5>3, <5>4
      <4> QED
        BY <4>1, <4>2
    <3>8. ASSUME NEW u \in Tasks, pc'[u] \notin {"new", "done"} PROVE Listed(Path[u], u)'
      <4>1. CASE u = t
        BY <3>2, <3>4, <4>1 DEF Listed, p
      <4>2. CASE u # t
        <5>1. PICK i \in DOMAIN downloads[Path[u]] : downloads[Path[u]][i] = u
          BY <2>1, <3>8, <4>2 DEF Queue, Listed
        <5>2. Path[u] \in Paths
          BY DownloadAssumption
        <5> QED
          BY <3>1, <3>2, <3>4, <5>1, <5>2 DEF Listed, d
      <4> QED
        BY <4>1, <4>2
    <3> QED
      BY <3>6, <3>7, <3>8 DEF Queue
  <2> QED
    BY <2>2, <2>3
<1> QED
  BY <1>1, <1>2 DEF Next, Step

\* Lists only grow at their end.
LEMMA ListsGrow ==
    ASSUME Types, [Next]_vars, NEW p \in Paths
    PROVE  /\ \A t : Listed(p, t) => Listed(p, t)'
           /\ \A s, t : Before(p, s, t) => Before(p, s, t)'
<1>1. /\ DOMAIN downloads[p] \subseteq DOMAIN downloads'[p]
      /\ \A i \in DOMAIN downloads[p] : downloads'[p][i] = downloads[p][i]
  <2>1. CASE downloads' = downloads
    BY <2>1
  <2>2. ASSUME NEW t \in Tasks, CheckDownloadTask(t), ~cancelled[t] PROVE <1>1
    <3>1. \/ downloads'[p] = Append(downloads[p], t)
          \/ downloads'[p] = downloads[p]
      BY <2>2, StartEffect
    <3>2. downloads[p] \in Seq(Tasks)
      BY DEF Types
    <3> QED
      BY <3>1, <3>2, AppendProperties, LenProperties
  <2>3. ASSUME NEW t \in Tasks, Step(t), CheckDownloadTask(t) => cancelled[t]
        PROVE  downloads' = downloads
    BY <2>3, OtherEffect
  <2>4. Publish \/ UNCHANGED vars => downloads' = downloads
    BY DEF Publish, vars, shared
  <2> QED
    BY <2>1, <2>2, <2>3, <2>4 DEF Next, Step
<1> QED
  BY <1>1 DEF Listed, Before

\* A thread that has its file keeps it.
LEMMA FinishedStays ==
    ASSUME Types, NEW t \in Tasks, Step(t), Finished(t)
    PROVE  Finished(t)'
<1> USE DEF Types, States, Failures, Working, Loading, Goto, Throw, End, task, shared
<1>1. CASE pc[t] = "done"
  BY <1>1 DEF Step, ThreadStep, Finished, CheckDownloadTask, OnUpdate, Cancel,
              LoadResultFromCache, TrustCache, Request, WaitForSlot, TakeSlot, Begin, GiveSlot,
              CheckProgress, TryLock, SetRange, SendFails, SendWhole, SendRanged, RangeRefused,
              Open, Read, EndOfStream, ReadFails, Rename, Unlock, Retry, Redirect, Finish
<1>2. CASE pc[t] \in {"unlock", "give", "after"} /\ failure[t] = "none"
  <2>1. Cancel(t) \/ Unlock(t) \/ GiveSlot(t) \/ Finish(t)
    BY <1>2 DEF Step, ThreadStep, CheckDownloadTask, OnUpdate, LoadResultFromCache, TrustCache,
                Request, WaitForSlot, TakeSlot, Begin, CheckProgress, TryLock, SetRange, SendFails,
                SendWhole, SendRanged, RangeRefused, Open, Read, EndOfStream, ReadFails, Rename,
                Retry, Redirect, CanRetry
  <2> QED
    BY <1>2, <2>1 DEF Cancel, Unlock, GiveSlot, Finish, Finished
<1> QED
  BY <1>1, <1>2 DEF Finished

\* The last of the list comes after everybody else who is in it.
LEMMA LastIsAfter ==
    ASSUME Types, Queue, NEW t \in Tasks, ~cancelled[t], Listed(Path[t], t),
           NEW s, Listed(Path[t], s), s # t
    PROVE  Before(Path[t], s, t)
<1>1. Path[t] \in Paths
  BY DownloadAssumption
<1>2. PICK i, j \in DOMAIN downloads[Path[t]] :
         downloads[Path[t]][i] = s /\ downloads[Path[t]][j] = t
  BY DEF Listed
<1>3. j = Len(downloads[Path[t]])
  BY <1>1, <1>2 DEF Queue
<1>4. downloads[Path[t]] \in Seq(Tasks)
  BY <1>1 DEF Types
<1>5. i < j
  BY <1>2, <1>3, <1>4, LenProperties
<1> QED
  BY <1>2, <1>5 DEF Before

\* Only the thread that has the file, or is refused the range, saves it, and finishes.
LEMMA SaveEffect ==
    ASSUME Types, Savers, NEW t \in Tasks, Step(t), saved'[Path[t]] # saved[Path[t]]
    PROVE  /\ pc[t] \in {"send", "rename"} /\ saved'[Path[t]].by = t
           /\ pc'[t] = "unlock" /\ failure'[t] = "none"
<1>1. RangeRefused(t) \/ Rename(t)
  BY DEF Step, ThreadStep, CheckDownloadTask, OnUpdate, Cancel, LoadResultFromCache, TrustCache,
         Request, WaitForSlot, TakeSlot, Begin, GiveSlot, CheckProgress, TryLock, SetRange, SendFails,
         SendWhole, SendRanged, Open, Read, EndOfStream, ReadFails, Unlock, Retry, Redirect,
         Finish, shared
<1>2. Path[t] \in Paths /\ pc[t] \in States
  BY DownloadAssumption DEF Types
<1>3. CASE RangeRefused(t)
  BY <1>2, <1>3 DEF RangeRefused, AutoRename, Throw, Types
<1>4. CASE Rename(t)
  BY <1>2, <1>4 DEF Rename, AutoRename, Goto, Types, Savers
<1> QED
  BY <1>1, <1>3, <1>4

\* A thread that may save came from the range step as the newest, or could save before.
LEMMA LoadEffect ==
    ASSUME Types, Savers, NEW t \in Tasks, Step(t), pc'[t] \in {"send", "open", "read", "rename"}
    PROVE  /\ pc'[t] \in {"read", "rename"} => failure'[t] = "none"
           /\ \/ pc[t] \in {"send", "open", "read", "rename"}
              \/ pc[t] = "range" /\ ~cancelled[t]
<1> USE DEF Types, States, Failures, Working, Loading, Goto, Throw, End, task, shared
<1>1. CASE Cancel(t)
  BY <1>1 DEF Cancel, Savers
<1>2. CASE SetRange(t)
  BY <1>2 DEF SetRange
<1>3. CASE SendWhole(t) \/ SendRanged(t)
  BY <1>3 DEF SendWhole, SendRanged
<1>4. CASE Open(t)
  BY <1>4 DEF Open
<1>5. CASE Read(t)
  BY <1>5 DEF Read, Savers
<1>6. CASE EndOfStream(t)
  BY <1>6 DEF EndOfStream, Savers
<1>7. CASE OnUpdate(t)
  BY <1>7 DEF OnUpdate
<1>8. CASE CheckDownloadTask(t)
  BY <1>8 DEF CheckDownloadTask
<1>9. CASE \/ LoadResultFromCache(t) \/ TrustCache(t) \/ Request(t) \/ WaitForSlot(t)
           \/ TakeSlot(t) \/ Begin(t) \/ GiveSlot(t) \/ CheckProgress(t)
  BY <1>9 DEF LoadResultFromCache, TrustCache, Request, WaitForSlot, TakeSlot, Begin, GiveSlot,
              CheckProgress
<1>10. CASE \/ TryLock(t) \/ SendFails(t) \/ RangeRefused(t) \/ ReadFails(t) \/ Rename(t)
            \/ Unlock(t) \/ Retry(t) \/ Redirect(t) \/ Finish(t)
  BY <1>10 DEF TryLock, SendFails, RangeRefused, ReadFails, Rename, Unlock, Retry, Redirect, Finish
<1> QED
  BY <1>1, <1>2, <1>3, <1>4, <1>5, <1>6, <1>7, <1>8, <1>9, <1>10 DEF Step, ThreadStep

LEMMA NextSavers ==
    ASSUME Types, Locks, Queue, Savers, [Next]_vars
    PROVE  Savers'
<1>1. CASE Publish \/ UNCHANGED vars
  BY <1>1 DEF Publish, vars, task, shared, Savers, Listed, Finished, Before
<1>2. ASSUME NEW t \in Tasks, Step(t) PROVE Savers'
  <2>1. Alone(t) /\ Path[t] \in Paths /\ pc[t] \in States
    BY <1>2, StepAlone, DownloadAssumption DEF Types
  <2>2. ASSUME NEW u \in Tasks, pc'[u] \in {"read", "rename"} PROVE failure'[u] = "none"
    BY <1>2, <2>1, <2>2, LoadEffect DEF Alone, Savers
  <2>3. ASSUME NEW u \in Tasks, Finished(u) PROVE Finished(u)'
    <3>1. CASE u = t
      BY <1>2, <2>3, <3>1, FinishedStays
    <3>2. CASE u # t
      BY <2>1, <2>3, <3>2 DEF Alone, Finished
    <3> QED
      BY <3>1, <3>2
  <2>4. ASSUME NEW p \in Paths, NEW s, s = saved'[p].by, s # None
        PROVE  Listed(p, s)' /\ Finished(s)'
    <3>1. CASE saved'[p] = saved[p]
      <4>1. s \in Tasks
        <5>1. saved[p].by \in Tasks \cup {None}
          BY DEF Types
        <5> QED
          BY <2>4, <3>1, <5>1
      <4>2. Listed(p, s) /\ Finished(s)
        BY <2>4, <3>1 DEF Savers
      <4> QED
        BY <2>3, <4>1, <4>2, ListsGrow
    <3>2. CASE saved'[p] # saved[p]
      <4>1. p = Path[t]
        BY <2>1, <3>2 DEF Alone
      <4>2. saved'[p].by = t /\ pc'[t] = "unlock" /\ failure'[t] = "none"
            /\ pc[t] \in {"send", "rename"}
        BY <1>2, <3>2, <4>1, SaveEffect
      <4>3. Listed(p, t)
        BY <4>1, <4>2 DEF Queue
      <4>4. Listed(p, t)'
        BY <4>3, ListsGrow
      <4>5. Finished(t)'
        BY <4>2 DEF Finished
      <4> QED
        BY <2>4, <4>2, <4>4, <4>5
    <3> QED
      BY <3>1, <3>2
  <2>5. ASSUME NEW u \in Tasks, pc'[u] \in {"send", "open", "read", "rename"},
               NEW s, s = saved'[Path[u]].by, s # None
        PROVE  Before(Path[u], s, u)'
    <3>1. Path[u] \in Paths
      BY DownloadAssumption
    <3>2. CASE u = t
      <4>1. saved'[Path[t]] = saved[Path[t]]
        BY <1>2, <2>5, <3>2, SaveEffect
      <4>2. CASE pc[t] \in {"send", "open", "read", "rename"}
        <5>1. Before(Path[t], s, t)
          BY <2>5, <3>2, <4>1, <4>2 DEF Savers
        <5> QED
          BY <3>1, <3>2, <5>1, ListsGrow
      <4>3. CASE pc[t] = "range" /\ ~cancelled[t]
        <5>1. Listed(Path[t], t)
          BY <4>3 DEF Queue
        <5>2. Listed(Path[t], s) /\ Finished(s)
          BY <2>1, <2>5, <3>2, <4>1 DEF Savers
        <5>3. s # t
          BY <4>3, <5>2 DEF Finished
        <5>4. Before(Path[t], s, t)
          BY <4>3, <5>1, <5>2, <5>3, LastIsAfter
        <5> QED
          BY <3>1, <3>2, <5>4, ListsGrow
      <4> QED
        BY <1>2, <2>5, <3>2, <4>2, <4>3, LoadEffect
    <3>3. CASE u # t
      <4>1. pc[u] = pc'[u]
        BY <2>1, <3>3 DEF Alone
      <4>2. Path[u] = Path[t] => pc[t] \notin Loading
        BY <2>5, <3>3, <4>1 DEF Locks, Loading
      <4>3. saved'[Path[u]] = saved[Path[u]]
        BY <2>1, <3>1, <4>2 DEF Alone
      <4>4. Before(Path[u], s, u)
        BY <2>5, <4>1, <4>3 DEF Savers
      <4> QED
        BY <3>1, <4>4, ListsGrow
    <3> QED
      BY <3>2, <3>3
  <2> QED
    BY <2>2, <2>4, <2>5 DEF Savers
<1> QED
  BY <1>1, <1>2 DEF Next, Step

-----------------------------------------------------------------------------
(* The invariant and what it shows.                                        *)

IInv == Types /\ Slots /\ Locks /\ Files /\ Queue /\ Savers

LEMMA InitIInv == Init => IInv
<1> SUFFICES ASSUME Init PROVE IInv
  OBVIOUS
<1>1. Slots
  <2>1. Workers = {} /\ count = 0
    BY DEF Init, Workers, Working, Loading
  <2> QED
    BY <2>1, FS_EmptySet DEF Slots
<1>2. Locks
  BY DEF Init, Lock!Init, Locks, Loading
<1>3. Queue
  BY DEF Init, Queue
<1>4. Savers
  BY DEF Init, Savers
<1> QED
  BY <1>1, <1>2, <1>3, <1>4, InitTypes, InitFiles DEF IInv

LEMMA NextIInv == IInv /\ [Next]_vars => IInv'
<1> SUFFICES ASSUME IInv, [Next]_vars PROVE IInv'
  OBVIOUS
<1>1. Types'
  BY NextTypes DEF IInv
<1> QED
  BY <1>1, NextSlots, NextLocks, NextFiles, NextQueue, NextSavers DEF IInv

LEMMA Invariant == Spec => []IInv
  BY InitIInv, NextIInv, PTL DEF Spec

\* Every variable keeps its type: what a resumed file has are blocks of versions
\* the server had, and the count of workers never goes below zero.
THEOREM TypesKept == Spec => []TypeOK
<1>1. IInv => TypeOK
  <2> SUFFICES ASSUME IInv PROVE TypeOK
    OBVIOUS
  <2>1. count \in Nat
    BY FS_CardinalityType DEF IInv, Slots
  <2> QED
    BY <2>1, Zenon DEF IInv, Types, TypeOK, States, Failures, Blocks
<1> QED
  BY <1>1, Invariant, PTL

\* No end of a download, by exception, cancellation or success, keeps a worker
\* slot (sCurrFileLoadCount) or the lock of its path.
THEOREM NoLeak == Spec => []NothingLeaks
<1>1. IInv => NothingLeaks
  BY DEF IInv, Slots, Locks, Workers, NothingLeaks
<1> QED
  BY <1>1, Invariant, PTL

\* A saved file, from a response or after a 416, has no gap, repetition or
\* change of version but where the comparison of load cannot see it, and one
\* read to the end of a response ends as a version ends.
THEOREM NoBadSeam == Spec => []SeamsMatch
<1>1. IInv => SeamsMatch
  BY DEF IInv, Files
<1> QED
  BY <1>1, Invariant, PTL

\* A download that a newer one of its path replaced does not overwrite the
\* newer one's file.
THEOREM NewestFileStays == Spec => NewerWins
<1>1. IInv /\ [Next]_vars =>
        [\A p \in Paths :
            (saved'[p] # saved[p] /\ saved[p].by # None) =>
                Place(p, saved[p].by) < Place(p, saved'[p].by)]_saved
  <2> SUFFICES ASSUME IInv, [Next]_vars, NEW p \in Paths, saved'[p] # saved[p], saved[p].by # None
               PROVE  Place(p, saved[p].by) < Place(p, saved'[p].by)
    OBVIOUS
  <2> USE DEF IInv
  <2>1. PICK t \in Tasks : Step(t)
    BY DEF Next, Step, Publish, vars, shared
  <2>2. p = Path[t]
    BY <2>1, StepAlone DEF Alone
  <2>3. pc[t] \in {"send", "rename"} /\ saved'[p].by = t
    BY <2>1, <2>2, SaveEffect
  <2>4. Before(p, saved[p].by, t)
    BY <2>2, <2>3 DEF Savers
  <2>5. PICK i, j \in DOMAIN downloads[p] :
           i < j /\ downloads[p][i] = saved[p].by /\ downloads[p][j] = t
    BY <2>4 DEF Before
  <2>6. Place(p, saved[p].by) = i /\ Place(p, t) = j
    BY <2>5 DEF Place, Queue
  <2> QED
    BY <2>3, <2>5, <2>6
<1> QED
  BY <1>1, Invariant, PTL DEF Spec, NewerWins

=============================================================================
