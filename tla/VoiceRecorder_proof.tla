------------------------ MODULE VoiceRecorder_proof ------------------------
(* Proofs about the recorder, for any number of recordings: the type        *)
(* invariant, and, as long as no recording that the user ends reaches the   *)
(* maximum, that one thread records at a time, that nothing is left running *)
(* after stop(), and that the listener is told what became of the file.     *)
EXTENDS VoiceRecorder, FiniteSetTheorems, SequenceTheorems, TLAPS

\* The user ends every recording but perhaps the last before its maximum, which
\* would forget the thread while it still runs.
StoppedInTime == FrameBound + 1 < MaxFrames

-----------------------------------------------------------------------------
(* The inductive invariant.                                                  *)

LiveAt == {"begin", "warm", "warmRead", "loop", "read", "deliver", "max", "started", "uninit",
           "finish"}

\* Only the last recording may be left to its maximum.
MayReachMax(t) == LastIsLeft /\ t = Recordings

\* Recordings after the newest have not begun, those before it have ended, and
\* no thread met a null.
Order ==
    \A t \in Ids :
        /\ t > begun => thread[t] = "none"
        /\ t < begun => thread[t] \in {"none", "done"}
        /\ thread[t] # "crash"

\* Where the UI thread can be; start() finds nothing that runs.
Place ==
    /\ fragment = "idle" => ui.at \in {"idle", "stop", "test", "join", "joining"}
    /\ fragment = "recording" =>
           begun \in Ids /\ ui.at \in {"idle", "ready", "init", "open", "spawn"}
    /\ ui.at \in {"ready", "init", "open", "spawn"} => mThread = 0 /\ thread[begun] = "none"

\* The thread that runs is mThread, but for the last after its maximum; and so
\* stop(), which waits for mThread, waits for it.
Known ==
    /\ \A t \in Ids : thread[t] \in LiveAt =>
        /\ mThread # t => mThread = 0 /\ fragment = "recording" /\ MayReachMax(t)
        /\ fragment = "idle" => ui.at # "idle" /\ ~MayReachMax(t)
        /\ thread[t] \in {"max", "started"} => MayReachMax(t)
    /\ mThread \in {0, begun}
    /\ mThread # 0 => thread[mThread] # "none"
    /\ ui.at \in {"join", "joining"} => mThread # 0
    /\ ui.at = "joining" => ui.on = mThread
    /\ fragment = "idle" /\ ui.at = "idle" => mThread = 0

\* The AudioRecord in use is that of the newest recording, from its creation
\* until the thread releases it.
Mic ==
    /\ mic \in {0, begun}
    /\ mic # 0 => ui.at \in {"open", "spawn"} \/ thread[mic] \in LiveAt \ {"finish"}
    /\ \A t \in Ids : thread[t] = "warmRead" => mic # 0
    /\ \A n \in Ids : device[n] \in {"ready", "recording"} => n = mic

\* The open file is that of the newest recording, until its thread closes it; a
\* file whose close() failed may stay in the field.
Open ==
    /\ raf # 0 => \/ file[raf].closed
                  \/ raf = begun /\ (ui.at = "spawn" \/ thread[raf] \in LiveAt)
    /\ \A n \in Ids : file[n].closed => thread[n] = "done"

\* A frame that was read and not yet delivered.
Held(t) == IF thread[t] = "deliver" THEN 1 ELSE 0

\* The recorder counts the frames that were read, and a thread that is told to
\* end reads one more at most.
Counted ==
    /\ ui.at = "spawn" => count = 0
    /\ \A t \in Ids :
        /\ thread[t] \in LiveAt => captured[t] = count + Held(t)
        /\ thread[t] = "none" => captured[t] = 0
        /\ thread[t] \in LiveAt /\ ~MayReachMax(t) =>
            /\ captured[t] <= FrameBound + 1
            /\ captured[t] > FrameBound => ~isRecord /\ thread[t] # "read"

AllFailed(s) == \A i \in DOMAIN s : s[i] = "failed"

\* Before its end a recording has told of failures only.
Telling == \A t \in Ids : thread[t] # "done" => AllFailed(results[t])

\* The file is dropped once the recording failed; one that has told of no failure
\* has every frame that was delivered.
Written ==
    \A t \in Ids :
        /\ failed[t] => raf # t /\ thread[t] # "none"
        /\ thread[t] = "none" => file[t].frames = 0
        /\ thread[t] \in LiveAt /\ raf = t /\ results[t] = <<>> =>
               file[t].frames + Held(t) = captured[t]

\* One word of success.
SavedOnce(s) == \E k \in DOMAIN s : s[k] = "saved" /\ \A i \in DOMAIN s \ {k} : s[i] = "failed"

\* What is told of a recording that ended well.
Saved(t) ==
    /\ SavedOnce(results[t])
    /\ Len(results[t]) = 1 => file[t].frames = captured[t]
    /\ file[t].sealed /\ ~failed[t]

Ended ==
    \A t \in Ids : thread[t] = "done" =>
        \/ results[t] # <<>> /\ AllFailed(results[t])
        \/ Saved(t)

\* The type invariant in parts.
UiType == ui \in [at : UiAt, on : Ids \cup {0}]
FileType == file \in [Ids -> [frames : Nat, sealed : BOOLEAN, closed : BOOLEAN]]
ToldType == results \in [Ids -> Seq({"saved", "failed"})]
FlagType == isStarted \in BOOLEAN /\ isRecord \in BOOLEAN
FailedType == failed \in [Ids -> BOOLEAN]
FieldType ==
    /\ fragment \in {"idle", "recording"}
    /\ begun \in 0 .. Recordings /\ count \in Nat
    /\ mThread \in Ids \cup {0} /\ mic \in Ids \cup {0}
    /\ raf \in Ids \cup {0} /\ path \in Ids \cup {0}
ThreadType ==
    /\ device \in [Ids -> {"none", "ready", "recording", "refused", "released"}]
    /\ thread \in [Ids -> ThreadAt] /\ captured \in [Ids -> Nat]

IInv == TypeOK /\ Order /\ Place /\ Known /\ Mic /\ Open /\ Counted /\ Telling /\ Written /\ Ended

-----------------------------------------------------------------------------
(* What the actions' lemmas use.                                             *)

\* The type invariant and its parts say the same.
LEMMA TypeParts ==
    /\ TypeOK <=> /\ UiType /\ FileType /\ ToldType /\ FlagType /\ FailedType /\ FieldType
                  /\ ThreadType
    /\ TypeOK' <=> /\ UiType' /\ FileType' /\ ToldType' /\ FlagType' /\ FailedType' /\ FieldType'
                   /\ ThreadType'
  BY DEF TypeOK, UiType, FileType, ToldType, FlagType, FailedType, FieldType, ThreadType

\* Only the newest recording can have a thread that runs.
LEMMA LiveIsNewest ==
    ASSUME IInv, NEW t \in Ids, thread[t] \notin {"none", "done"}
    PROVE  thread[t] \in LiveAt /\ t = begun
  <1>1. FieldType /\ ThreadType /\ Order
    BY TypeParts DEF IInv
  <1>2. thread[t] \in LiveAt
    BY <1>1 DEF Order, LiveAt, ThreadType, ThreadAt
  <1>3. t = begun
    BY <1>1, RecorderAssumption DEF Order, FieldType, Ids
  <1> QED
    BY <1>2, <1>3

\* One more word, of a failure.
LEMMA TellFailed ==
    ASSUME ToldType, NEW t \in Ids, Tell(t, "failed")
    PROVE  /\ ToldType'
           /\ \A u \in Ids : AllFailed(results[u]) => AllFailed(results'[u])
           /\ \A u \in Ids \ {t} : results'[u] = results[u]
           /\ results'[t] # <<>>
  <1> DEFINE s == results[t]  new == Append(s, "failed")
  <1>1. s \in Seq({"saved", "failed"})
    BY DEF ToldType
  <1>2. results' = [results EXCEPT ![t] = new]
    BY DEF Tell
  <1>3. new \in Seq({"saved", "failed"}) /\ new # <<>>
    BY <1>1, AppendProperties
  <1>4. ASSUME AllFailed(s) PROVE AllFailed(new)
    <2>1. Len(new) = Len(s) + 1 /\ Len(s) \in Nat /\ DOMAIN new = 1 .. Len(new)
          /\ DOMAIN s = 1 .. Len(s)
      BY <1>1, <1>3, AppendProperties
    <2>2. \A i \in 1 .. Len(s) : new[i] = s[i]
      BY <1>1, AppendProperties
    <2>3. new[Len(s) + 1] = "failed"
      BY <1>1, AppendProperties
    <2> QED
      BY <1>4, <2>1, <2>2, <2>3 DEF AllFailed
  <1> HIDE DEF new
  <1>5. ToldType'
    BY <1>2, <1>3 DEF ToldType
  <1>6. results'[t] = new /\ \A u \in Ids \ {t} : results'[u] = results[u]
    BY <1>2 DEF ToldType
  <1> QED
    BY <1>3, <1>4, <1>5, <1>6

\* A word of success after failures, and a failure to close after it or not.
LEMMA TellSaved ==
    ASSUME ToldType, NEW t \in Ids, AllFailed(results[t]), Tell(t, "saved") \/ TellBoth(t)
    PROVE  /\ ToldType'
           /\ \A u \in Ids \ {t} : results'[u] = results[u]
           /\ SavedOnce(results'[t])
           /\ Len(results'[t]) = 1 => results[t] = <<>>
  <1> DEFINE s == results[t]
  <1>1. s \in Seq({"saved", "failed"})
    BY DEF ToldType
  <1>2. Len(s) \in Nat /\ DOMAIN s = 1 .. Len(s) /\ (Len(s) = 0 => s = <<>>)
    BY <1>1, EmptySeq, LenProperties
  <1>3. \A i \in 1 .. Len(s) : s[i] = "failed"
    BY <1>2 DEF AllFailed
  <1> DEFINE Goes(w) ==
           /\ w \in Seq({"saved", "failed"})
           /\ results' = [results EXCEPT ![t] = w]
           /\ Len(w) = Len(s) + 1 \/ Len(w) = Len(s) + 2
           /\ \A i \in 1 .. Len(s) : w[i] = s[i]
           /\ w[Len(s) + 1] = "saved"
           /\ Len(w) = Len(s) + 2 => w[Len(s) + 2] = "failed"
  <1>4. PICK new : Goes(new)
    <2>1. CASE Tell(t, "saved")
      <3> DEFINE n == Append(s, "saved")
      <3>1. /\ n \in Seq({"saved", "failed"}) /\ Len(n) = Len(s) + 1
            /\ \A i \in 1 .. Len(s) : n[i] = s[i]
            /\ n[Len(s) + 1] = "saved"
        BY <1>1, AppendProperties
      <3>2. results' = [results EXCEPT ![t] = n]
        BY <2>1 DEF Tell
      <3> HIDE DEF n, s
      <3>3. Len(n) # Len(s) + 2
        BY <1>2, <3>1
      <3>4. Goes(n)
        BY <3>1, <3>2, <3>3, Zenon
      <3> HIDE DEF Goes
      <3> QED
        BY <3>4
    <2>2. CASE TellBoth(t)
      <3> DEFINE e == <<"saved", "failed">>
      <3> DEFINE n == s \o e
      <3>1. e \in Seq({"saved", "failed"}) /\ Len(e) = 2 /\ e[1] = "saved" /\ e[2] = "failed"
        OBVIOUS
      <3>2. results' = [results EXCEPT ![t] = n]
        BY <2>2 DEF TellBoth
      <3> HIDE DEF e
      <3>3. /\ n \in Seq({"saved", "failed"}) /\ Len(n) = Len(s) + Len(e)
            /\ \A i \in 1 .. Len(s) + Len(e) : n[i] = IF i <= Len(s) THEN s[i] ELSE e[i - Len(s)]
        BY <1>1, <3>1, ConcatProperties
      <3> HIDE DEF n
      <3>4. \A i \in 1 .. Len(s) : n[i] = s[i]
        BY <1>2, <3>1, <3>3
      <3>5. n[Len(s) + 1] = e[1] /\ n[Len(s) + 2] = e[2]
        <4>1. Len(s) + 1 \in 1 .. Len(s) + Len(e) /\ ~(Len(s) + 1 <= Len(s)) /\ (Len(s) + 1) - Len(s) = 1
          BY <1>2, <3>1
        <4>2. Len(s) + 2 \in 1 .. Len(s) + Len(e) /\ ~(Len(s) + 2 <= Len(s)) /\ (Len(s) + 2) - Len(s) = 2
          BY <1>2, <3>1
        <4> QED
          BY <3>3, <4>1, <4>2
      <3> HIDE DEF s
      <3>6. Goes(n)
        BY <3>1, <3>2, <3>3, <3>4, <3>5
      <3> HIDE DEF Goes
      <3> QED
        BY <3>6
    <2> HIDE DEF Goes
    <2> QED
      BY <2>1, <2>2
  <1> HIDE DEF s
  <1>5. DOMAIN new = 1 .. Len(new)
    <2>1. new \in Seq({"saved", "failed"})
      BY <1>4
    <2> HIDE DEF Goes
    <2> QED
      BY <2>1, LenProperties
  <1>6. Len(s) + 1 \in DOMAIN new
    <2>1. Len(s) + 1 \in 1 .. Len(new)
      BY <1>2, <1>4
    <2> QED
      BY <1>5, <2>1
  <1>7. ASSUME NEW i \in DOMAIN new, i # Len(s) + 1 PROVE new[i] = "failed"
    <2> DEFINE l == Len(s)
    <2>0. l \in Nat /\ i \in 1 .. Len(new) /\ (Len(new) = l + 1 \/ Len(new) = l + 2) /\ i # l + 1
      BY <1>2, <1>4, <1>5, <1>7
    <2>1. i \in 1 .. Len(s) \/ (i = Len(s) + 2 /\ Len(new) = Len(s) + 2)
      <3> HIDE DEF l, Goes
      <3> DEFINE m == Len(new)
      <3>1. i \in 1 .. m /\ (m = l + 1 \/ m = l + 2) /\ m \in Nat
        BY <2>0
      <3> HIDE DEF m
      <3>2. i \in 1 .. l \/ (i = l + 2 /\ m = l + 2)
        BY <2>0, <3>1
      <3> QED
        BY <3>2 DEF l, m
    <2> QED
      BY <1>3, <1>4, <2>1
  <1>8. SavedOnce(new)
    BY <1>4, <1>6, <1>7 DEF SavedOnce
  <1>9. Len(new) = 1 => s = <<>>
    BY <1>2, <1>4
  <1>10. ToldType' /\ results'[t] = new /\ \A u \in Ids \ {t} : results'[u] = results[u]
    BY <1>4 DEF ToldType
  <1> QED
    BY <1>8, <1>9, <1>10 DEF s

-----------------------------------------------------------------------------
(* Every step keeps the invariant.                                           *)

\* record() finds no thread that runs, so a new recording is the only one.
LEMMA RecordInv ==
    ASSUME IInv, StoppedInTime, Record
    PROVE  IInv'
  <1> USE RecorderAssumption DEF IInv
  <1>1. UiType /\ FileType /\ ToldType /\ FlagType /\ FailedType /\ FieldType /\ ThreadType
    BY TypeParts
  <1>2. UiType' /\ FileType'
    BY <1>1 DEF Record, UiType, UiAt, FileType
  <1>3. ToldType' /\ FieldType' /\ ThreadType'
    <2>1. ToldType'
      BY <1>1 DEF Record, ToldType
    <2>2. FieldType'
      BY <1>1 DEF Record, FieldType
    <2>3. ThreadType'
      BY <1>1 DEF Record, ThreadType
    <2> QED
      BY <2>1, <2>2, <2>3
  <1>4. FlagType' /\ FailedType'
    BY <1>1, Zenon DEF Record, FlagType, FailedType
  <1>5. Order'
    <2>1. Record /\ begun \in Nat /\ begun' = begun + 1 /\ thread' = thread
      BY <1>1 DEF Record, FieldType
    <2>2. ASSUME NEW u \in Ids PROVE thread[u] \in {"none", "done"}
      <3>1. thread[u] \notin LiveAt
        BY DEF Record, Known
      <3> QED
        BY <3>1, LiveIsNewest
    <2>3. ASSUME NEW u \in Ids PROVE u > begun + 1 => u > begun
      BY <2>1 DEF Ids
    <2> QED
      BY <2>1, <2>2, <2>3 DEF Order
  <1>6. Place'
    BY <1>1 DEF Record, Place, Ids, FieldType, UiType, Order, Known
  <1>7. Known'
    BY <1>1 DEF Record, Known, UiType
  <1>8. Mic'
    BY <1>1 DEF Record, Mic, FieldType, Known
  <1>9. Open'
    BY <1>1 DEF Record, Open, FieldType, Known
  <1>10. Counted'
    BY <1>1 DEF Record, Counted, UiType, Known
  <1>11. Telling' /\ Written' /\ Ended'
    BY <1>1 DEF Record, Telling, Written, Held, Ended, Saved
  <1> QED
    BY TypeParts, <1>2, <1>3, <1>4, <1>5, <1>6, <1>7, <1>8, <1>9, <1>10, <1>11

\* There is the permission to record, or start() gives up before it makes anything.
LEMMA ReadyInv ==
    ASSUME IInv, StoppedInTime, Ready
    PROVE  IInv'
  <1> USE RecorderAssumption DEF IInv
  <1>1. UiType /\ FileType /\ ToldType /\ FlagType /\ FailedType /\ FieldType /\ ThreadType
    BY TypeParts
  <1>2. UiType' /\ FileType' /\ ToldType' /\ FieldType' /\ ThreadType'
    BY <1>1 DEF Ready, GiveUp, Ui, Cancel, UiType, UiAt, FileType, ToldType, FieldType,
       ThreadType, ThreadAt
  <1>3. FlagType' /\ FailedType'
    BY <1>1, Zenon DEF Ready, GiveUp, Ui, Cancel, FlagType, FailedType
  <1>4. Order' /\ Mic' /\ Open' /\ Telling' /\ Written' /\ Ended'
    BY <1>1 DEF Ready, GiveUp, Ui, Cancel, Order, Mic, Open, Telling, Written, Held, Ids, Ended,
       Saved
  <1>5. Place'
    BY <1>1 DEF Ready, GiveUp, Ui, Place, UiType, Known, Open
  <1>6. Known'
    BY <1>1 DEF Ready, GiveUp, Ui, Known, UiType, Place, Open
  <1>7. Counted'
    BY <1>1 DEF Ready, GiveUp, Ui, Counted, Held, UiType, Open
  <1> QED
    BY TypeParts, <1>2, <1>3, <1>4, <1>5, <1>6, <1>7

\* The AudioRecord is made while none is in use, or the recording is given up.
LEMMA InitializeRecordInv ==
    ASSUME IInv, StoppedInTime, InitializeRecord
    PROVE  IInv'
  <1> USE RecorderAssumption DEF IInv
  <1>1. UiType /\ FileType /\ ToldType /\ FlagType /\ FailedType /\ FieldType /\ ThreadType
    BY TypeParts
  <1>2. UiType' /\ FileType'
    BY <1>1 DEF InitializeRecord, GiveUp, Ui, Cancel, ReleaseMic, UiType, UiAt, FileType
  <1>3. ToldType' /\ FieldType' /\ ThreadType'
    BY <1>1 DEF InitializeRecord, GiveUp, Ui, Cancel, ReleaseMic, ToldType, FieldType, Ids,
       ThreadType, ThreadAt
  <1>4. FlagType' /\ FailedType'
    BY <1>1, Zenon DEF InitializeRecord, GiveUp, Ui, Cancel, ReleaseMic, FlagType, FailedType
  <1>5. Order' /\ Open' /\ Telling' /\ Written' /\ Ended'
    BY <1>1 DEF InitializeRecord, GiveUp, Ui, Cancel, ReleaseMic, Order, Open, Telling, Written,
       Held, Ids, Ended, Saved
  <1>6. Place'
    BY <1>1 DEF InitializeRecord, GiveUp, Ui, Place, UiType, Mic, Open
  <1>7. Known'
    BY <1>1 DEF InitializeRecord, GiveUp, Ui, Known, UiType, Place, Open, Counted
  <1>8. Mic'
    <2>1. mic = 0 /\ begun \in Ids
      BY <1>1 DEF InitializeRecord, GiveUp, Ui, Place, Mic, LiveAt, FieldType
    <2>2. /\ \A n \in Ids : device[n] \notin {"ready", "recording"}
          /\ thread' = thread /\ begun' = begun
          /\ \A u \in Ids : thread[u] # "warmRead"
      <3>1. ui.at = "init" /\ thread[begun] = "none"
        BY DEF InitializeRecord, GiveUp, Ui, Place
      <3>2. \A u \in Ids : thread[u] # "warmRead"
        BY <3>1, LiveIsNewest
      <3> QED
        BY <2>1, <3>2 DEF Mic, InitializeRecord, Ids
    <2>3. CASE Ui("init", "open") /\ mic' = begun
               /\ device' = [n \in Ids |-> IF n = begun THEN "ready"
                                           ELSE IF n = mic THEN "released" ELSE device[n]]
      BY <1>1, <2>1, <2>2, <2>3 DEF Mic, Ui, UiType
    <2>4. CASE mic' = 0 /\ ReleaseMic
      BY <2>1, <2>2, <2>4 DEF Mic, ReleaseMic
    <2> QED
      BY <2>3, <2>4 DEF InitializeRecord
  <1>9. Counted'
    BY <1>1 DEF InitializeRecord, GiveUp, Ui, Cancel, Counted, Held, UiType
  <1> QED
    BY TypeParts, <1>2, <1>3, <1>4, <1>5, <1>6, <1>7, <1>8, <1>9

\* The file opens, or a failure is told before the thread runs.
LEMMA OpenFileInv ==
    ASSUME IInv, StoppedInTime, OpenFile
    PROVE  IInv'
  <1> USE RecorderAssumption DEF IInv
  <1>1. UiType /\ FileType /\ ToldType /\ FlagType /\ FailedType /\ FieldType /\ ThreadType
    BY TypeParts
  <1>2. UiType'
    BY <1>1 DEF OpenFile, Ui, UiType, UiAt
  <1>3. FileType' /\ FieldType' /\ ThreadType'
    BY <1>1 DEF OpenFile, Ui, Tell, FileType, FieldType, shared, Ids, ThreadType, ThreadAt
  <1>4. ToldType'
    <2>1. begun \in Ids
      BY <1>1 DEF OpenFile, Ui, Place, FieldType
    <2> QED
      BY <1>1, <2>1, TellFailed DEF OpenFile, ToldType
  <1>5. FlagType' /\ FailedType'
    BY <1>1, Zenon DEF OpenFile, Ui, Tell, FlagType, shared, FailedType
  <1>6. Order' /\ Place' /\ Known' /\ Mic' /\ Open'
    BY <1>1 DEF OpenFile, Ui, Tell, Order, Place, shared, Known, Mic, Open
  <1>7. Counted'
    BY <1>1 DEF OpenFile, Ui, Counted, MayReachMax, Held, Ids, Place, Order, Known
  <1>8. Telling'
    <2>1. begun \in Ids /\ thread' = thread
      BY <1>1 DEF OpenFile, Ui, Place, FieldType
    <2>2. \A u \in Ids : AllFailed(results[u]) => AllFailed(results'[u])
      <3>1. CASE results' = results
        BY <3>1
      <3>2. CASE Tell(begun, "failed")
        BY <1>1, <2>1, <3>2, TellFailed
      <3> QED
        BY <3>1, <3>2 DEF OpenFile
    <2> QED
      BY <2>1, <2>2 DEF Telling
  <1>9. Written'
    BY <1>1 DEF OpenFile, Ui, Written, Ids, LiveAt, Place, Order, Known
  <1>10. Ended'
    <2>1. begun \in Ids /\ thread[begun] = "none"
      BY <1>1 DEF OpenFile, Ui, Place, FieldType
    <2>2. ASSUME NEW u \in Ids, thread[u] = "done" PROVE results'[u] = results[u]
      <3>1. u # begun
        BY <2>1, <2>2
      <3> QED
        BY <1>1, <2>1, <3>1, TellFailed DEF OpenFile
    <2>3. thread' = thread /\ file' = file /\ failed' = failed /\ captured' = captured
      BY DEF OpenFile
    <2> QED
      BY <2>2, <2>3 DEF Ended, Saved
  <1> QED
    BY TypeParts, <1>2, <1>3, <1>4, <1>5, <1>6, <1>7, <1>8, <1>9, <1>10

\* start() sets mThread to the thread of the recording just prepared.
LEMMA SpawnInv ==
    ASSUME IInv, StoppedInTime, Spawn
    PROVE  IInv'
  <1> USE RecorderAssumption DEF IInv
  <1>1. UiType /\ FileType /\ ToldType /\ FlagType /\ FailedType /\ FieldType /\ ThreadType
    BY TypeParts
  <1>2. UiType' /\ FileType'
    BY <1>1 DEF Spawn, Ui, UiType, UiAt, FileType, disk
  <1>3. ToldType' /\ FieldType'
    BY <1>1 DEF Spawn, ToldType, disk, FieldType, Ids
  <1>4. FlagType' /\ FailedType'
    BY <1>1, Zenon DEF Spawn, Ui, FlagType, FailedType
  <1>5. ThreadType'
    BY <1>1 DEF Spawn, Ui, ThreadType, ThreadAt, FieldType, Place
  <1>6. Order' /\ Place' /\ Ended'
    BY <1>1 DEF Spawn, Ui, Order, Ids, Place, Ended, Saved, disk
  <1>7. Known'
    <2>1. /\ fragment' = "recording" /\ mThread' = begun /\ begun' = begun
          /\ begun \in Ids /\ ui'.at = "idle"
      <3>1. ui.at = "spawn" /\ ui' = [ui EXCEPT !.at = "idle"]
        BY DEF Spawn, Ui
      <3>2. fragment = "recording"
        BY <1>1, <3>1 DEF Place, FieldType
      <3>3. begun \in Ids
        BY <3>2 DEF Place
      <3>4. ui'.at = "idle"
        BY <1>1, <3>1 DEF UiType
      <3>5. UNCHANGED <<fragment, begun>> /\ mThread' = begun
        BY DEF Spawn
      <3> QED
        BY <3>2, <3>3, <3>4, <3>5
    <2>2. \A t \in Ids : thread'[t] = IF t = begun THEN "begin" ELSE thread[t]
      BY <1>1 DEF Spawn, ThreadType
    <2>3. \A t \in Ids : t # begun => thread[t] \notin LiveAt
      BY <1>1 DEF Order, Ids, FieldType, LiveAt
    <2>4. \A t \in Ids : thread'[t] \in LiveAt => t = begun /\ thread'[t] = "begin"
      BY <2>2, <2>3
    <2> QED
      BY <2>1, <2>2, <2>4 DEF Known
  <1>8. Mic'
    BY <1>1 DEF Spawn, Mic, FieldType, ThreadType, LiveAt
  <1>9. Open'
    <2>1. /\ raf' = raf /\ file' = file /\ begun' = begun /\ ui.at = "spawn"
          /\ thread' = [thread EXCEPT ![begun] = "begin"]
      BY DEF Spawn, Ui, disk
    <2>2. begun \in Ids /\ thread[begun] = "none"
      BY <1>1, <2>1 DEF Place, FieldType
    <2>3. thread'[begun] = "begin" /\ \A n \in Ids : n # begun => thread'[n] = thread[n]
      BY <1>1, <2>1, <2>2 DEF ThreadType
    <2>4. \A n \in Ids : file'[n].closed => thread'[n] = "done"
      BY <2>1, <2>2, <2>3 DEF Open
    <2>5. raf' # 0 => file'[raf'].closed \/ raf' = begun'
      BY <2>1 DEF Open
    <2> QED
      BY <2>1, <2>3, <2>4, <2>5 DEF Open, LiveAt
  <1>10. Counted'
    BY <1>1 DEF Spawn, Ui, Counted, Held, Place
  <1>11. Telling'
    BY <1>1 DEF Spawn, Ui, Telling, disk, Place
  <1>12. Written'
    BY <1>1 DEF Spawn, Ui, Written, Held, disk, Place, Counted
  <1> QED
    BY TypeParts, <1>2, <1>3, <1>4, <1>5, <1>6, <1>7, <1>8, <1>9, <1>10, <1>11, <1>12

\* stop() is called by the user or by onStop(), before the maximum.
LEMMA StopInv ==
    ASSUME IInv, StoppedInTime, Stop
    PROVE  IInv'
  <1> USE RecorderAssumption DEF IInv
  <1>1. UiType /\ FileType /\ ToldType /\ FlagType /\ FailedType /\ FieldType /\ ThreadType
    BY TypeParts
  <1>2. UiType'
    BY <1>1 DEF Stop, Ui, UiType, UiAt
  <1>3. FileType' /\ ToldType' /\ FieldType' /\ ThreadType'
    BY <1>1 DEF Stop, Ui, FileType, disk, ToldType, FieldType, ThreadType, ThreadAt
  <1>4. FlagType' /\ FailedType'
    BY <1>1, Zenon DEF Stop, Ui, FlagType, FailedType
  <1>5. Order' /\ Place' /\ Mic' /\ Open' /\ Counted' /\ Telling' /\ Written' /\ Ended'
    BY <1>1 DEF Stop, Ui, Order, Place, Mic, Open, disk, Counted, MayReachMax, Held, Telling,
       Written, Ended, Saved
  <1>6. Known'
    BY <1>1 DEF Stop, Ui, Known, MayReachMax, FieldType, LiveAt, Order
  <1> QED
    BY TypeParts, <1>2, <1>3, <1>4, <1>5, <1>6

\* isRecord becomes false: the thread reads one frame more at most.
LEMMA ImmediateStopInv ==
    ASSUME IInv, StoppedInTime, ImmediateStop
    PROVE  IInv'
  <1> USE RecorderAssumption DEF IInv
  <1>1. UiType /\ FileType /\ ToldType /\ FlagType /\ FailedType /\ FieldType /\ ThreadType
    BY TypeParts
  <1>2. UiType'
    BY <1>1 DEF ImmediateStop, Ui, UiType, UiAt
  <1>3. FileType' /\ ToldType' /\ FieldType' /\ ThreadType'
    BY <1>1 DEF ImmediateStop, Ui, FileType, disk, ToldType, FieldType, ThreadType, ThreadAt
  <1>4. FlagType' /\ FailedType'
    BY <1>1, Zenon DEF ImmediateStop, Ui, FlagType, FailedType
  <1>5. Order' /\ Place' /\ Known' /\ Mic' /\ Open' /\ Counted' /\ Telling' /\ Written' /\ Ended'
    BY <1>1 DEF ImmediateStop, Ui, Order, Place, Known, MayReachMax, Mic, Open, disk, Counted,
       Held, Telling, Written, Ended, Saved
  <1> QED
    BY TypeParts, <1>2, <1>3, <1>4, <1>5

\* mThread is tested against null: if it is, no thread runs.
LEMMA TestThreadInv ==
    ASSUME IInv, StoppedInTime, TestThread
    PROVE  IInv'
  <1> USE RecorderAssumption DEF IInv
  <1>1. UiType /\ FileType /\ ToldType /\ FlagType /\ FailedType /\ FieldType /\ ThreadType
    BY TypeParts
  <1>2. UiType'
    <2>1. ui' = [ui EXCEPT !.at = "idle"] \/ ui' = [ui EXCEPT !.at = "join"]
      BY DEF TestThread, Ui
    <2> QED
      BY <1>1, <2>1 DEF UiType, UiAt
  <1>3. FileType' /\ ToldType' /\ FieldType' /\ ThreadType'
    BY <1>1 DEF TestThread, Ui, FileType, disk, ToldType, FieldType, shared, ThreadType,
       ThreadAt
  <1>4. FlagType' /\ FailedType'
    BY <1>1, Zenon DEF TestThread, Ui, FlagType, shared, FailedType
  <1>5. Order' /\ Place' /\ Known' /\ Mic' /\ Open' /\ Counted' /\ Telling' /\ Written' /\ Ended'
    BY <1>1 DEF TestThread, Ui, Order, Place, Known, shared, Ids, Mic, Open, disk, Counted,
       Held, Telling, Written, Ended, Saved
  <1> QED
    BY TypeParts, <1>2, <1>3, <1>4, <1>5

\* mThread is read again: it is still the thread that was tested.
LEMMA JoinInv ==
    ASSUME IInv, StoppedInTime, Join
    PROVE  IInv'
  <1> USE RecorderAssumption DEF IInv
  <1>1. UiType /\ FileType /\ ToldType /\ FlagType /\ FailedType /\ FieldType /\ ThreadType
    BY TypeParts
  <1>2. UiType' /\ FileType' /\ ToldType' /\ FieldType' /\ ThreadType'
    BY <1>1 DEF Join, UiType, UiAt, FieldType, FileType, disk, ToldType, shared, ThreadType,
       ThreadAt
  <1>3. FlagType' /\ FailedType'
    BY <1>1, Zenon DEF Join, FlagType, shared, FailedType
  <1>4. Order' /\ Known' /\ Mic' /\ Open' /\ Counted' /\ Telling' /\ Written' /\ Ended'
    BY <1>1 DEF Join, Order, Known, shared, Mic, Open, disk, Counted, Held, Telling, Written,
       Ended, Saved
  <1>5. Place'
    BY <1>1 DEF Join, Place, Known
  <1> QED
    BY TypeParts, <1>2, <1>3, <1>4, <1>5

\* The thread that was joined, the newest, has ended, and mThread is forgotten.
LEMMA JoinedInv ==
    ASSUME IInv, StoppedInTime, Joined
    PROVE  IInv'
  <1> USE RecorderAssumption DEF IInv
  <1>1. UiType /\ FileType /\ ToldType /\ FlagType /\ FailedType /\ FieldType /\ ThreadType
    BY TypeParts
  <1>2. UiType' /\ FileType' /\ ToldType' /\ FieldType' /\ ThreadType'
    BY <1>1 DEF Joined, UiType, UiAt, FileType, disk, ToldType, FieldType, ThreadType, ThreadAt
  <1>3. FlagType' /\ FailedType'
    BY <1>1, Zenon DEF Joined, FlagType, FailedType
  <1>4. Order' /\ Place' /\ Mic' /\ Open' /\ Counted' /\ Telling' /\ Written' /\ Ended'
    BY <1>1 DEF Joined, Order, Place, Mic, Open, disk, Counted, MayReachMax, Held, Telling,
       Written, Ended, Saved
  <1>5. Known'
    BY <1>1 DEF Joined, Known, LiveAt
  <1> QED
    BY TypeParts, <1>2, <1>3, <1>4, <1>5

\* The thread starts its AudioRecord, or drops it and reports the failure.
LEMMA BeginInv ==
    ASSUME IInv, StoppedInTime, NEW t \in Ids, Begin(t)
    PROVE  IInv'
  <1> USE RecorderAssumption DEF IInv
  <1>1. UiType /\ FileType /\ ToldType /\ FlagType /\ FailedType /\ FieldType /\ ThreadType
    BY TypeParts
  <1>2. thread[t] \in LiveAt /\ t = begun
    BY LiveIsNewest DEF Begin, Goto
  <1>3. UiType' /\ FileType' /\ ToldType' /\ FieldType' /\ ThreadType'
    <2>1. UiType' /\ FileType'
      BY <1>1, <1>2 DEF Begin, Goto, RecordedFail, Cancel, UiType, FileType
    <2>2. ToldType'
      BY <1>1, <1>2 DEF Begin, RecordedFail, Tell, ToldType
    <2>3. FieldType'
      BY <1>1, <1>2 DEF Begin, RecordedFail, Cancel, FieldType, shared
    <2>4. ThreadType'
      BY <1>1, <1>2 DEF Begin, Goto, ThreadType, ThreadAt
    <2> QED
      BY <2>1, <2>2, <2>3, <2>4
  <1>4. FlagType' /\ FailedType'
    BY <1>1, <1>2, Zenon DEF Begin, Goto, RecordedFail, Cancel, FlagType, shared, FailedType
  <1>5. Order' /\ Place' /\ Known' /\ Counted' /\ Telling'
    BY <1>1, <1>2 DEF Begin, Goto, RecordedFail, Cancel, Order, Place, Known, shared, Counted,
       Held, Telling
  <1>6. Mic'
    <2>1. thread' = [thread EXCEPT ![t] = "warm"] /\ begun' = begun /\ ui' = ui
      BY DEF Begin, Goto
    <2>2. mic # 0 => mic = t
      BY <1>2 DEF Mic
    <2>3. thread'[t] = "warm" /\ \A u \in Ids \ {t} : thread'[u] = thread[u]
      BY <1>1, <2>1 DEF ThreadType
    <2>4. \A u \in Ids : thread'[u] # "warmRead"
      BY <1>2, <2>3, LiveIsNewest
    <2>5. CASE mic # 0 /\ mic' = mic /\ device' = [device EXCEPT ![mic] = "recording"]
      <3>1. mic = t /\ \A n \in Ids : device'[n] \in {"ready", "recording"} => n = mic'
        BY <1>1, <2>2, <2>5 DEF Mic, ThreadType
      <3>2. thread'[mic'] \in LiveAt \ {"finish"} /\ mic' \in {0, begun'}
        BY <1>2, <2>1, <2>3, <2>5, <3>1 DEF LiveAt
      <3> QED
        BY <2>4, <3>1, <3>2 DEF Mic
    <2>6. CASE mic # 0 /\ mic' = 0 /\ device' = [device EXCEPT ![mic] = "refused"]
      <3>1. \A n \in Ids : device'[n] \notin {"ready", "recording"}
        BY <1>1, <2>2, <2>6 DEF Mic, ThreadType
      <3> QED
        BY <2>4, <2>6, <3>1 DEF Mic
    <2>7. CASE mic = 0 /\ mic' = mic /\ device' = device
      BY <2>4, <2>7 DEF Mic
    <2> QED
      BY <2>5, <2>6, <2>7 DEF Begin
  <1>7. Open'
    BY <1>1, <1>2 DEF Begin, Goto, RecordedFail, Cancel, Open, LiveAt
  <1>8. Written'
    <2>1. /\ thread[t] = "begin" /\ thread'[t] = "warm"
          /\ \A u \in Ids \ {t} : thread'[u] = thread[u]
          /\ file' = file /\ captured' = captured /\ results' = results
      BY <1>1 DEF Begin, Goto, RecordedFail, Cancel, ThreadType
    <2>2. CASE failed' = failed /\ raf' = raf
      BY <1>2, <2>1, <2>2 DEF Written, Held, LiveAt
    <2>3. CASE failed' = [failed EXCEPT ![t] = TRUE] /\ raf' = 0
      <3>1. \A u \in Ids \ {t} : failed'[u] = failed[u]
        BY <1>1, <2>3 DEF FailedType
      <3> QED
        BY <2>1, <2>3, <3>1 DEF Written, Held, Ids
    <2> QED
      BY <2>2, <2>3 DEF Begin, RecordedFail, Cancel
  <1>9. Ended'
    <2>1. /\ thread'[t] = "warm" /\ \A u \in Ids \ {t} : thread'[u] = thread[u]
          /\ file' = file /\ captured' = captured /\ results' = results
      BY <1>1 DEF Begin, Goto, RecordedFail, Cancel, ThreadType
    <2>2. \A u \in Ids \ {t} : failed'[u] = failed[u]
      BY <1>1 DEF Begin, RecordedFail, FailedType
    <2> QED
      BY <2>1, <2>2 DEF Ended, Saved
  <1> QED
    BY TypeParts, <1>3, <1>4, <1>5, <1>6, <1>7, <1>8, <1>9

\* The thread throws two reads away, or has no AudioRecord and ends.
LEMMA WarmInv ==
    ASSUME IInv, StoppedInTime, NEW t \in Ids, Warm(t)
    PROVE  IInv'
  <1> USE RecorderAssumption DEF IInv
  <1>1. UiType /\ FileType /\ ToldType /\ FlagType /\ FailedType /\ FieldType /\ ThreadType
    BY TypeParts
  <1>2. thread[t] \in LiveAt /\ t = begun
    BY LiveIsNewest DEF Warm, Goto
  <1>3. UiType' /\ FileType' /\ ToldType' /\ FieldType' /\ ThreadType'
    BY <1>1, <1>2 DEF Warm, Goto, UiType, UiAt, FileType, disk, ToldType, FieldType, ThreadType,
       ThreadAt
  <1>4. FlagType' /\ FailedType'
    BY <1>1, <1>2, Zenon DEF Warm, Goto, FlagType, FailedType
  <1>5. Order' /\ Place' /\ Known' /\ Counted' /\ Telling' /\ Written' /\ Ended'
    BY <1>1, <1>2 DEF Warm, Goto, Order, Place, Known, MayReachMax, Counted, Held, Telling,
       disk, Written, Ended, Saved
  <1>6. Mic'
    BY <1>1, <1>2 DEF Warm, Goto, Mic, LiveAt
  <1>7. Open'
    BY <1>1, <1>2 DEF Warm, Goto, Open, disk, LiveAt
  <1> QED
    BY TypeParts, <1>3, <1>4, <1>5, <1>6, <1>7

\* Those reads find the AudioRecord still there: no thread meets a null.
LEMMA WarmReadInv ==
    ASSUME IInv, StoppedInTime, NEW t \in Ids, WarmRead(t)
    PROVE  IInv'
  <1> USE RecorderAssumption DEF IInv
  <1>1. UiType /\ FileType /\ ToldType /\ FlagType /\ FailedType /\ FieldType /\ ThreadType
    BY TypeParts
  <1>2. thread[t] \in LiveAt /\ t = begun
    BY LiveIsNewest DEF WarmRead, Goto
  <1>3. UiType' /\ FileType' /\ ToldType' /\ FieldType' /\ ThreadType'
    BY <1>1, <1>2 DEF WarmRead, Goto, UiType, UiAt, FileType, disk, ToldType, FieldType, shared,
       ThreadType, ThreadAt
  <1>4. FlagType' /\ FailedType'
    BY <1>1, <1>2, Zenon DEF WarmRead, Goto, FlagType, shared, FailedType
  <1>5. Order'
    BY <1>1, <1>2 DEF WarmRead, Goto, Order, Mic
  <1>6. Place' /\ Known' /\ Counted' /\ Telling' /\ Written' /\ Ended'
    BY <1>1, <1>2 DEF WarmRead, Goto, Place, Known, shared, Counted, Held, Telling, disk,
       Written, Ended, Saved
  <1>7. Mic'
    BY <1>1, <1>2 DEF WarmRead, Goto, Mic, LiveAt
  <1>8. Open'
    BY <1>1, <1>2 DEF WarmRead, Goto, Open, disk, LiveAt, Mic
  <1> QED
    BY TypeParts, <1>3, <1>4, <1>5, <1>6, <1>7, <1>8

\* The test of the recording loop.
LEMMA LoopInv ==
    ASSUME IInv, StoppedInTime, NEW t \in Ids, Loop(t)
    PROVE  IInv'
  <1> USE RecorderAssumption DEF IInv
  <1>1. UiType /\ FileType /\ ToldType /\ FlagType /\ FailedType /\ FieldType /\ ThreadType
    BY TypeParts
  <1>2. thread[t] \in LiveAt /\ t = begun
    BY LiveIsNewest DEF Loop, Goto
  <1>3. UiType' /\ FileType' /\ ToldType' /\ FieldType' /\ ThreadType'
    BY <1>1, <1>2 DEF Loop, Goto, UiType, UiAt, FileType, disk, ToldType, FieldType, shared,
       ThreadType, ThreadAt
  <1>4. FlagType' /\ FailedType'
    BY <1>1, <1>2, Zenon DEF Loop, Goto, FlagType, shared, FailedType
  <1>5. Order' /\ Place' /\ Known' /\ Counted' /\ Telling' /\ Written' /\ Ended'
    BY <1>1, <1>2 DEF Loop, Goto, Order, Place, Known, shared, Counted, Held, Telling, disk,
       Written, Ended, Saved
  <1>6. Mic'
    BY <1>1, <1>2 DEF Loop, Goto, Mic, LiveAt
  <1>7. Open'
    BY <1>1, <1>2 DEF Loop, Goto, Open, disk, LiveAt
  <1> QED
    BY TypeParts, <1>3, <1>4, <1>5, <1>6, <1>7

\* One more frame is read, or the read fails and the file is closed.
LEMMA ReadInv ==
    ASSUME IInv, StoppedInTime, NEW t \in Ids, Read(t)
    PROVE  IInv'
  <1> USE RecorderAssumption DEF IInv
  <1>1. UiType /\ FileType /\ ToldType /\ FlagType /\ FailedType /\ FieldType /\ ThreadType
    BY TypeParts
  <1>2. thread[t] \in LiveAt /\ t = begun
    BY LiveIsNewest DEF Read, Goto
  <1>3. UiType' /\ FileType' /\ ToldType' /\ FieldType'
    BY <1>1, <1>2 DEF Read, Goto, RecordedFail, Cancel, UiType, UiAt, FileType, ToldType,
       FieldType
  <1>4. FlagType' /\ FailedType'
    BY <1>1, <1>2, Zenon DEF Read, Goto, RecordedFail, Cancel, FlagType, FailedType
  <1>5. ThreadType'
    <2>1. thread' = [thread EXCEPT ![t] = "deliver"] \/ thread' = [thread EXCEPT ![t] = "loop"]
      BY DEF Read, Goto
    <2>2. thread' \in [Ids -> ThreadAt]
      BY <1>1, <2>1 DEF ThreadType, ThreadAt
    <2>3. captured' = captured \/ captured' = [captured EXCEPT ![t] = captured[t] + 1]
      BY DEF Read
    <2>4. captured' \in [Ids -> Nat]
      BY <1>1, <2>3 DEF ThreadType
    <2>5. device' = device
      BY DEF Read
    <2> QED
      BY <1>1, <2>2, <2>4, <2>5 DEF ThreadType
  <1>6. Order'
    <2>1. begun' = begun /\ thread'[t] \in {"deliver", "loop"}
      BY <1>1 DEF Read, Goto, ThreadType
    <2>2. \A u \in Ids \ {t} : thread'[u] = thread[u]
      BY <1>1 DEF Read, Goto, ThreadType
    <2>3. ~(t < begun) /\ ~(t > begun)
      BY <1>1, <1>2 DEF FieldType
    <2> QED
      BY <2>1, <2>2, <2>3 DEF Order
  <1>7. Place' /\ Known' /\ Telling'
    BY <1>1, <1>2 DEF Read, Goto, RecordedFail, Cancel, Place, Known, ThreadType, Telling
  <1>8. Mic'
    BY <1>1, <1>2 DEF Read, Goto, Mic, ThreadType, LiveAt
  <1>9. Open'
    BY <1>1, <1>2 DEF Read, Goto, RecordedFail, Cancel, Open, ThreadType, LiveAt
  <1>10. Counted'
    <2>1. count \in Nat /\ captured \in [Ids -> Nat] /\ thread \in [Ids -> ThreadAt]
      BY <1>1 DEF FieldType, ThreadType
    <2>2. /\ thread[t] = "read" /\ count' = count
          /\ captured[t] = count /\ (~MayReachMax(t) => captured[t] <= FrameBound)
      <3>1. thread[t] = "read" /\ count' = count
        BY DEF Read, Goto
      <3>2. captured[t] = count
        BY <1>2, <2>1, <3>1 DEF Counted, Held
      <3>3. ASSUME ~MayReachMax(t) PROVE captured[t] <= FrameBound
        BY <1>2, <2>1, <3>1, <3>3, RecorderAssumption DEF Counted
      <3> QED
        BY <3>1, <3>2, <3>3
    <2>3. \A u \in Ids \ {t} : /\ thread'[u] = thread[u] /\ captured'[u] = captured[u]
                               /\ thread[u] \notin LiveAt
      <3>1. \A u \in Ids \ {t} : thread[u] \notin LiveAt
        BY <1>2, LiveIsNewest DEF LiveAt
      <3> QED
        BY <2>1, <3>1 DEF Read, Goto
    <2>4. ui' = ui /\ ui.at # "spawn"
      BY <1>2, <2>2 DEF Read, Place
    <2>5. CASE /\ captured[t] < FrameBound \/ ~isRecord \/ (LastIsLeft /\ t = Recordings)
               /\ Goto(t, "read", "deliver")
               /\ captured' = [captured EXCEPT ![t] = @ + 1] /\ isRecord' = isRecord
      <3>1. thread'[t] = "deliver" /\ captured'[t] = captured[t] + 1
        BY <2>1, <2>5 DEF Goto
      <3>2. captured'[t] = count' + 1
        BY <2>2, <3>1
      <3>3. ASSUME ~MayReachMax(t)
            PROVE  /\ captured'[t] <= FrameBound + 1
                   /\ captured'[t] > FrameBound => ~isRecord'
        BY <2>1, <2>2, <2>5, <3>1, <3>3, RecorderAssumption DEF MayReachMax
      <3> QED
        BY <2>3, <2>4, <3>1, <3>2, <3>3 DEF Counted, Held, MayReachMax, LiveAt
    <2>6. CASE Goto(t, "read", "loop") /\ isRecord' = FALSE /\ captured' = captured
      <3>1. thread'[t] = "loop" /\ captured'[t] = count'
        BY <2>1, <2>2, <2>6 DEF Goto
      <3>2. ~MayReachMax(t) => captured'[t] <= FrameBound + 1
        BY <2>1, <2>2, <2>6, RecorderAssumption
      <3> QED
        BY <2>1, <2>3, <2>4, <2>6, <3>1, <3>2 DEF Counted, Held, MayReachMax, LiveAt
    <2> QED
      BY <2>5, <2>6 DEF Read
  <1>11. Written'
    <2>1. file' = file /\ results' = results /\ captured[t] \in Nat /\ file[t].frames \in Nat
      BY <1>1 DEF Read, RecordedFail, Cancel, ThreadType, FileType
    <2>2. CASE /\ Goto(t, "read", "deliver") /\ captured' = [captured EXCEPT ![t] = @ + 1]
               /\ failed' = failed /\ raf' = raf
      <3>1. /\ thread[t] = "read" /\ thread'[t] = "deliver" /\ captured'[t] = captured[t] + 1
            /\ \A u \in Ids \ {t} : thread'[u] = thread[u] /\ captured'[u] = captured[u]
        BY <1>1, <2>2 DEF Goto, ThreadType
      <3>2. ASSUME raf = t, results[t] = <<>>
            PROVE  file[t].frames = captured[t]
        BY <1>2, <2>1, <3>1, <3>2 DEF Written, Held
      <3>3. ASSUME NEW u \in Ids, u # t
            PROVE  /\ failed'[u] => raf' # u /\ thread'[u] # "none"
                   /\ thread'[u] = "none" => file'[u].frames = 0
                   /\ thread'[u] \in LiveAt /\ raf' = u /\ results'[u] = <<>> =>
                          file'[u].frames + Held(u)' = captured'[u]
        BY <2>1, <2>2, <3>1, <3>3 DEF Written, Held
      <3>4. /\ failed'[t] => raf' # t
            /\ raf' = t /\ results'[t] = <<>> => file'[t].frames + Held(t)' = captured'[t]
        BY <2>1, <2>2, <3>1, <3>2 DEF Written, Held
      <3> QED
        BY <3>1, <3>3, <3>4 DEF Written
    <2>3. CASE /\ Goto(t, "read", "loop") /\ captured' = captured
               /\ failed' = [failed EXCEPT ![t] = TRUE] /\ raf' = 0
      <3>1. thread'[t] = "loop" /\ \A u \in Ids \ {t} : thread'[u] = thread[u]
        BY <1>1, <2>3 DEF Goto, ThreadType
      <3>2. \A u \in Ids \ {t} : failed'[u] = failed[u]
        BY <1>1, <2>3 DEF FailedType
      <3> QED
        BY <2>1, <2>3, <3>1, <3>2 DEF Written, Ids
    <2> QED
      BY <2>2, <2>3 DEF Read, RecordedFail, Cancel
  <1>12. Ended'
    <2>1. /\ thread'[t] \in {"deliver", "loop"} /\ \A u \in Ids \ {t} : thread'[u] = thread[u]
          /\ file' = file /\ results' = results
      BY <1>1 DEF Read, Goto, RecordedFail, Cancel, ThreadType
    <2>2. \A u \in Ids \ {t} : failed'[u] = failed[u]
      BY <1>1 DEF Read, RecordedFail, FailedType
    <2>3. \A u \in Ids \ {t} : captured'[u] = captured[u]
      BY <1>1 DEF Read, ThreadType
    <2> QED
      BY <2>1, <2>2, <2>3 DEF Ended, Saved
  <1> QED
    BY TypeParts, <1>3, <1>4, <1>5, <1>6, <1>7, <1>8, <1>9, <1>10, <1>11, <1>12

\* A delivered frame goes to no file but that of the recording.
LEMMA DeliverFile ==
    ASSUME IInv, NEW t \in Ids, Deliver(t)
    PROVE  /\ \A u \in Ids : file'[u].closed = file[u].closed
           /\ \A u \in Ids \ {t} : file'[u] = file[u]
  <1>1. FileType /\ FieldType /\ Open
    BY TypeParts DEF IInv
  <1>2. t = begun
    BY LiveIsNewest DEF Deliver, Goto
  <1>3. CASE file' = file
    BY <1>3
  <1>4. CASE /\ raf # 0 => ~file[raf].closed
             /\ file' = [n \in Ids |-> IF n = raf THEN [file[n] EXCEPT !.frames = @ + 1]
                                      ELSE file[n]]
    <2>1. raf \in {0, t}
      BY <1>1, <1>2, <1>4 DEF Open
    <2>2. ASSUME NEW u \in Ids PROVE file'[u].closed = file[u].closed
      <3>1. file[u] \in [frames : Nat, sealed : BOOLEAN, closed : BOOLEAN]
        BY <1>1 DEF FileType
      <3>2. [file[u] EXCEPT !.frames = @ + 1].closed = file[u].closed
        BY <3>1
      <3>3. file'[u] = file[u] \/ file'[u] = [file[u] EXCEPT !.frames = @ + 1]
        BY <1>4
      <3> QED
        BY <3>2, <3>3
    <2>3. ASSUME NEW u \in Ids \ {t} PROVE file'[u] = file[u]
      BY <1>4, <2>1 DEF Ids
    <2> QED
      BY <2>2, <2>3
  <1> QED
    BY <1>3, <1>4, Zenon DEF Deliver

\* The frame is written, or the failure to write it is told.
LEMMA DeliverInv ==
    ASSUME IInv, StoppedInTime, NEW t \in Ids, Deliver(t)
    PROVE  IInv'
  <1> USE RecorderAssumption DEF IInv
  <1>1. UiType /\ FileType /\ ToldType /\ FlagType /\ FailedType /\ FieldType /\ ThreadType
    BY TypeParts
  <1>2. thread[t] \in LiveAt /\ t = begun
    BY LiveIsNewest DEF Deliver, Goto
  <1>3. UiType' /\ FieldType' /\ ThreadType'
    BY <1>1, <1>2 DEF Deliver, Goto, Tell, UiType, UiAt, FieldType, shared, ThreadType, ThreadAt
  <1>4. FileType'
    <2>1. CASE file' = file
      BY <1>1, <2>1 DEF FileType
    <2>2. CASE file' = [n \in Ids |-> IF n = raf THEN [file[n] EXCEPT !.frames = @ + 1]
                                      ELSE file[n]]
      <3>1. ASSUME NEW n \in Ids
            PROVE  /\ file[n] \in [frames : Nat, sealed : BOOLEAN, closed : BOOLEAN]
                   /\ [file[n] EXCEPT !.frames = @ + 1] \in [frames : Nat, sealed : BOOLEAN, closed : BOOLEAN]
        BY <1>1 DEF FileType
      <3> QED
        BY <2>2, <3>1 DEF FileType
    <2> QED
      BY <2>1, <2>2 DEF Deliver
  <1>5. ToldType'
    BY <1>1, TellFailed DEF Deliver, ToldType
  <1>6. FlagType' /\ FailedType'
    BY <1>1, <1>2, Zenon DEF Deliver, Goto, Tell, FlagType, shared, FailedType
  <1>7. Order' /\ Place'
    BY <1>1, <1>2 DEF Deliver, Goto, Tell, Order, Place
  <1>8. Known'
    BY <1>1, <1>2 DEF Deliver, Goto, Tell, Known, MayReachMax, FieldType, Counted, shared, disk,
       StoppedInTime, Held
  <1>9. Mic'
    BY <1>1, <1>2 DEF Deliver, Goto, Mic, LiveAt
  <1>10. Open'
    <2>1. /\ raf' = raf /\ begun' = begun /\ ui' = ui
          /\ thread[t] = "deliver" /\ thread'[t] \in {"max", "loop"}
          /\ \A u \in Ids \ {t} : thread'[u] = thread[u]
      BY <1>1 DEF Deliver, Goto, ThreadType
    <2>2. \A u \in Ids : file'[u].closed = file[u].closed
      BY DeliverFile
    <2>3. \A n \in Ids : file'[n].closed => thread'[n] = "done"
      BY <2>1, <2>2 DEF Open
    <2>4. raf \in Ids \cup {0}
      BY <1>1 DEF FieldType
    <2>5. raf' # 0 => \/ file'[raf'].closed
                      \/ raf' = begun' /\ (ui'.at = "spawn" \/ thread'[raf'] \in LiveAt)
      BY <1>2, <2>1, <2>2, <2>4 DEF Open, LiveAt
    <2> QED
      BY <2>3, <2>5 DEF Open
  <1>11. Counted'
    <2>1. count \in Nat /\ captured \in [Ids -> Nat] /\ thread \in [Ids -> ThreadAt]
      BY <1>1 DEF FieldType, ThreadType
    <2>2. /\ thread[t] = "deliver" /\ count' = count + 1 /\ captured' = captured
          /\ isRecord' = isRecord /\ ui' = ui /\ thread'[t] \in {"max", "loop"}
          /\ (count' >= MaxFrames => thread'[t] = "max") /\ ui.at # "spawn"
      <3>1. /\ thread[t] = "deliver" /\ count' = count + 1 /\ captured' = captured
            /\ isRecord' = isRecord /\ ui' = ui /\ thread'[t] \in {"max", "loop"}
            /\ (count' >= MaxFrames => thread'[t] = "max")
        BY <2>1 DEF Deliver, Goto, shared
      <3> QED
        BY <1>2, <3>1 DEF Place
    <2>3. captured[t] = count'
      BY <1>2, <2>1, <2>2 DEF Counted, Held
    <2>4. \A u \in Ids \ {t} : thread'[u] = thread[u] /\ thread[u] \notin LiveAt
      <3>1. \A u \in Ids \ {t} : thread[u] \notin LiveAt
        BY <1>2, LiveIsNewest DEF LiveAt
      <3> QED
        BY <2>1, <3>1 DEF Deliver, Goto
    <2>5. ~MayReachMax(t) => /\ captured[t] <= FrameBound + 1
                             /\ captured[t] > FrameBound => ~isRecord
      BY <1>2 DEF Counted
    <2>6. thread'[t] \notin {"none", "deliver", "read"}
      BY <2>2
    <2> QED
      BY <2>1, <2>2, <2>3, <2>4, <2>5, <2>6 DEF Counted, Held, MayReachMax
  <1>12. Telling'
    <2>1. \A u \in Ids : AllFailed(results[u]) => AllFailed(results'[u])
      <3>1. CASE results' = results
        BY <3>1
      <3>2. CASE Tell(t, "failed")
        BY <1>1, <3>2, TellFailed
      <3> QED
        BY <3>1, <3>2 DEF Deliver
    <2>2. \A u \in Ids : thread'[u] # "done" => thread[u] # "done"
      BY <1>1, <1>2 DEF Deliver, Goto, ThreadType, LiveAt
    <2> QED
      BY <2>1, <2>2 DEF Telling
  <1>13. Written'
    <2>1. /\ failed' = failed /\ raf' = raf /\ captured' = captured
          /\ \A u \in Ids \ {t} : thread'[u] = thread[u]
          /\ thread[t] = "deliver" /\ thread'[t] \in {"max", "loop"}
      BY <1>1 DEF Deliver, Goto, ThreadType
    <2>2. \A u \in Ids \ {t} : file'[u] = file[u] /\ results'[u] = results[u]
      BY <1>1, DeliverFile, TellFailed DEF Deliver
    <2>3. ASSUME raf = t, results'[t] = <<>>
          PROVE  file'[t].frames = captured[t]
      <3>1. ~Tell(t, "failed")
        BY <1>1, <2>3, TellFailed
      <3>2. /\ file' = [n \in Ids |-> IF n = raf THEN [file[n] EXCEPT !.frames = @ + 1]
                                      ELSE file[n]]
            /\ results' = results
        BY <3>1 DEF Deliver
      <3>3. file[t] \in [frames : Nat, sealed : BOOLEAN, closed : BOOLEAN]
        BY <1>1 DEF FileType
      <3>4. file'[t].frames = file[t].frames + 1
        BY <2>3, <3>2, <3>3
      <3>5. file[t].frames + 1 = captured[t]
        BY <1>2, <2>1, <2>3, <3>2 DEF Written, Held
      <3> QED
        BY <3>4, <3>5
    <2>4. ASSUME NEW u \in Ids
          PROVE  /\ failed'[u] => raf' # u /\ thread'[u] # "none"
                 /\ thread'[u] = "none" => file'[u].frames = 0
                 /\ thread'[u] \in LiveAt /\ raf' = u /\ results'[u] = <<>> =>
                        file'[u].frames + Held(u)' = captured'[u]
      <3>1. CASE u # t
        BY <2>1, <2>2, <3>1 DEF Written, Held
      <3>2. CASE u = t
        <4>1. captured[t] \in Nat /\ Held(t)' = 0
          BY <1>1, <2>1 DEF ThreadType, Held
        <4> QED
          BY <2>1, <2>3, <3>2, <4>1 DEF Written
      <3> QED
        BY <3>1, <3>2
    <2> QED
      BY <2>4 DEF Written
  <1>14. Ended'
    <2>1. /\ failed' = failed /\ captured' = captured
          /\ \A u \in Ids \ {t} : thread'[u] = thread[u]
          /\ thread'[t] # "done"
      BY <1>1 DEF Deliver, Goto, ThreadType
    <2>2. \A u \in Ids \ {t} : file'[u] = file[u] /\ results'[u] = results[u]
      BY <1>1, DeliverFile, TellFailed DEF Deliver
    <2> QED
      BY <2>1, <2>2 DEF Ended, Saved
  <1> QED
    BY TypeParts, <1>3, <1>4, <1>5, <1>6, <1>7, <1>8, <1>9, <1>10, <1>11, <1>12, <1>13, <1>14

\* The maximum is reached by the last recording only, the one left to it.
LEMMA MaxTimeInv ==
    ASSUME IInv, StoppedInTime, NEW t \in Ids, MaxTime(t)
    PROVE  IInv'
  <1> USE RecorderAssumption DEF IInv
  <1>1. UiType /\ FileType /\ ToldType /\ FlagType /\ FailedType /\ FieldType /\ ThreadType
    BY TypeParts
  <1>2. thread[t] \in LiveAt /\ t = begun
    BY LiveIsNewest DEF MaxTime, Goto
  <1>3. UiType' /\ FileType' /\ ToldType' /\ FieldType' /\ ThreadType'
    BY <1>1, <1>2 DEF MaxTime, Goto, Monitor, UiType, UiAt, FileType, disk, ToldType, FieldType,
       ThreadType, ThreadAt
  <1>4. FlagType' /\ FailedType'
    BY <1>1, <1>2, Zenon DEF MaxTime, Goto, Monitor, FlagType, FailedType
  <1>5. Order' /\ Place' /\ Counted' /\ Telling' /\ Written' /\ Ended'
    BY <1>1, <1>2 DEF MaxTime, Goto, Monitor, Order, Place, Counted, MayReachMax, Held, Telling,
       disk, Written, Ended, Saved
  <1>6. Known'
    BY <1>1, <1>2 DEF MaxTime, Goto, Known, FieldType, Place
  <1>7. Mic'
    BY <1>1, <1>2 DEF MaxTime, Goto, Mic, LiveAt
  <1>8. Open'
    BY <1>1, <1>2 DEF MaxTime, Goto, Open, disk, LiveAt
  <1> QED
    BY TypeParts, <1>3, <1>4, <1>5, <1>6, <1>7, <1>8

\* The maximum, the second of its two assignments.
LEMMA MaxTimeStartedInv ==
    ASSUME IInv, StoppedInTime, NEW t \in Ids, MaxTimeStarted(t)
    PROVE  IInv'
  <1> USE RecorderAssumption DEF IInv
  <1>1. UiType /\ FileType /\ ToldType /\ FlagType /\ FailedType /\ FieldType /\ ThreadType
    BY TypeParts
  <1>2. thread[t] \in LiveAt /\ t = begun
    BY LiveIsNewest DEF MaxTimeStarted, Goto
  <1>3. UiType' /\ FileType' /\ ToldType' /\ FieldType' /\ ThreadType'
    BY <1>1, <1>2 DEF MaxTimeStarted, Goto, UiType, UiAt, FileType, disk, ToldType, FieldType,
       ThreadType, ThreadAt
  <1>4. FlagType' /\ FailedType'
    BY <1>1, <1>2, Zenon DEF MaxTimeStarted, Goto, FlagType, FailedType
  <1>5. Order' /\ Place' /\ Known' /\ Counted' /\ Telling' /\ Written' /\ Ended'
    BY <1>1, <1>2 DEF MaxTimeStarted, Goto, Order, Place, Known, MayReachMax, Counted, Held,
       Telling, disk, Written, Ended, Saved
  <1>6. Mic'
    BY <1>1, <1>2 DEF MaxTimeStarted, Goto, Mic, LiveAt
  <1>7. Open'
    BY <1>1, <1>2 DEF MaxTimeStarted, Goto, Open, disk, LiveAt
  <1> QED
    BY TypeParts, <1>3, <1>4, <1>5, <1>6, <1>7

\* The thread releases the AudioRecord, which is still its own.
LEMMA UnInitializeRecordInv ==
    ASSUME IInv, StoppedInTime, NEW t \in Ids, UnInitializeRecord(t)
    PROVE  IInv'
  <1> USE RecorderAssumption DEF IInv
  <1>1. UiType /\ FileType /\ ToldType /\ FlagType /\ FailedType /\ FieldType /\ ThreadType
    BY TypeParts
  <1>2. thread[t] \in LiveAt /\ t = begun
    BY LiveIsNewest DEF UnInitializeRecord, Goto
  <1>3. UiType' /\ FileType' /\ ToldType' /\ FieldType' /\ ThreadType'
    BY <1>1, <1>2 DEF UnInitializeRecord, Goto, Monitor, ReleaseMic, UiType, UiAt, FileType,
       disk, ToldType, FieldType, shared, ThreadType, ThreadAt
  <1>4. FlagType' /\ FailedType'
    BY <1>1, <1>2, Zenon DEF UnInitializeRecord, Goto, Monitor, ReleaseMic, FlagType, shared,
       FailedType
  <1>5. Order' /\ Place' /\ Known' /\ Counted' /\ Telling' /\ Written' /\ Ended'
    BY <1>1, <1>2 DEF UnInitializeRecord, Goto, Monitor, ReleaseMic, Order, Place, Known,
       shared, Counted, Held, Telling, disk, Written, Ended, Saved
  <1>6. Mic'
    BY <1>1, <1>2 DEF UnInitializeRecord, Goto, ReleaseMic, Mic, Ids, Order
  <1>7. Open'
    BY <1>1, <1>2 DEF UnInitializeRecord, Goto, Open, disk, LiveAt
  <1> QED
    BY TypeParts, <1>3, <1>4, <1>5, <1>6, <1>7

\* How Finish can end: without a file or with an error, with the success, with
\* the success and an error of close().
LEMMA FinishEffect ==
    ASSUME FileType, FieldType, NEW t \in Ids, Finish(t)
    PROVE  /\ Tell(t, "failed") \/ (raf # 0 /\ ~file[raf].closed /\ file'[raf].sealed
                                    /\ (Tell(t, "saved") \/ TellBoth(t)))
           /\ raf' # 0 => raf' = raf /\ file'[raf].closed
           /\ FileType'
           /\ \A n \in Ids : /\ file'[n].frames = file[n].frames
                             /\ n # raf => file'[n] = file[n]
                             /\ file[n].closed => file'[n].closed
  <1>1. CASE raf = 0 /\ Tell(t, "failed") /\ UNCHANGED <<raf, file>>
    BY <1>1 DEF FileType
  <1>2. ASSUME raf # 0, ~file[raf].closed,
               file' = [file EXCEPT ![raf] = [@ EXCEPT !.sealed = TRUE, !.closed = TRUE]],
               raf' \in {0, raf}, Tell(t, "saved") \/ TellBoth(t)
        PROVE  /\ file'[raf].sealed /\ file'[raf].closed /\ FileType'
               /\ \A n \in Ids : /\ file'[n].frames = file[n].frames
                                 /\ n # raf => file'[n] = file[n]
                                 /\ file[n].closed => file'[n].closed
    <2>1. raf \in Ids
      BY <1>2 DEF FieldType
    <2> DEFINE r == [file[raf] EXCEPT !.sealed = TRUE, !.closed = TRUE]
    <2>2. /\ r \in [frames : Nat, sealed : BOOLEAN, closed : BOOLEAN]
          /\ r.sealed = TRUE /\ r.closed = TRUE /\ r.frames = file[raf].frames
      BY <2>1 DEF FileType
    <2>3. file' = [file EXCEPT ![raf] = r]
      BY <1>2
    <2> HIDE DEF r
    <2>4. file'[raf] = r /\ \A n \in Ids : n # raf => file'[n] = file[n]
      BY <2>1, <2>3 DEF FileType
    <2>5. FileType'
      BY <2>2, <2>3 DEF FileType
    <2> QED
      BY <2>2, <2>4, <2>5
  <1>3. ASSUME raf # 0, file' = [file EXCEPT ![raf].closed = TRUE]
        PROVE  /\ file'[raf].closed /\ FileType'
               /\ \A n \in Ids : /\ file'[n].frames = file[n].frames
                                 /\ n # raf => file'[n] = file[n]
                                 /\ file[n].closed => file'[n].closed
    <2>1. raf \in Ids
      BY <1>3 DEF FieldType
    <2> DEFINE r == [file[raf] EXCEPT !.closed = TRUE]
    <2>2. /\ r \in [frames : Nat, sealed : BOOLEAN, closed : BOOLEAN]
          /\ r.closed = TRUE /\ r.frames = file[raf].frames
      BY <2>1 DEF FileType
    <2>3. file' = [file EXCEPT ![raf] = r]
      BY <1>3
    <2> HIDE DEF r
    <2>4. file'[raf] = r /\ \A n \in Ids : n # raf => file'[n] = file[n]
      BY <2>1, <2>3 DEF FileType
    <2>5. FileType'
      BY <2>2, <2>3 DEF FileType
    <2> QED
      BY <2>2, <2>4, <2>5
  <1>4. \/ raf = 0 /\ Tell(t, "failed") /\ UNCHANGED <<raf, file>>
        \/ /\ raf # 0 /\ ~file[raf].closed
           /\ file' = [file EXCEPT ![raf] = [@ EXCEPT !.sealed = TRUE, !.closed = TRUE]]
           /\ raf' \in {0, raf} /\ (Tell(t, "saved") \/ TellBoth(t))
        \/ /\ raf # 0 /\ file' = [file EXCEPT ![raf].closed = TRUE]
           /\ Tell(t, "failed") /\ raf' \in {0, raf}
    BY Zenon DEF Finish
  <1> QED
    BY <1>1, <1>2, <1>3, <1>4

\* The file is closed and the listener is told the last word.
LEMMA FinishInv ==
    ASSUME IInv, StoppedInTime, NEW t \in Ids, Finish(t)
    PROVE  IInv'
  <1> USE RecorderAssumption DEF IInv
  <1>1. UiType /\ FileType /\ ToldType /\ FlagType /\ FailedType /\ FieldType /\ ThreadType
    BY TypeParts
  <1>2. thread[t] \in LiveAt /\ t = begun
    BY LiveIsNewest DEF Finish, Goto
  <1>3. /\ thread[t] = "finish" /\ thread' = [thread EXCEPT ![t] = "done"]
        /\ UNCHANGED <<fragment, ui, begun, isStarted, isRecord, mThread, mic, device, count,
                       captured, failed, path>>
    BY DEF Finish, Goto, shared
  <1>4. /\ thread'[t] = "done" /\ \A u \in Ids \ {t} : thread'[u] = thread[u]
        /\ AllFailed(results[t])
    BY <1>1, <1>2, <1>3 DEF ThreadType, Telling, LiveAt
  <1>5. /\ Tell(t, "failed") \/ (raf # 0 /\ ~file[raf].closed /\ file'[raf].sealed
                                 /\ (Tell(t, "saved") \/ TellBoth(t)))
        /\ raf' # 0 => raf' = raf /\ file'[raf].closed
        /\ FileType'
        /\ \A n \in Ids : /\ file'[n].frames = file[n].frames
                          /\ n # raf => file'[n] = file[n]
                          /\ file[n].closed => file'[n].closed
    BY <1>1, FinishEffect
  <1>6. ToldType' /\ \A u \in Ids \ {t} : results'[u] = results[u]
    BY <1>1, <1>4, <1>5, TellFailed, TellSaved
  <1>7. raf # 0 /\ ~file[raf].closed => raf = t
    BY <1>2 DEF Open
  <1>8. UiType' /\ FieldType' /\ ThreadType' /\ FlagType' /\ FailedType'
    <2>1. FlagType' /\ FailedType'
      BY <1>1, <1>3, Zenon DEF FlagType, FailedType
    <2>2. UiType' /\ FieldType' /\ ThreadType'
      BY <1>1, <1>3, <1>5 DEF UiType, FieldType, ThreadType, ThreadAt
    <2> QED
      BY <2>1, <2>2
  <1>9. Order' /\ Place' /\ Known' /\ Mic' /\ Counted'
    BY <1>1, <1>2, <1>3, <1>4 DEF Order, Place, Known, Mic, Counted, Held, LiveAt
  <1>10. Open'
    <2>1. \A n \in Ids : file'[n].closed => thread'[n] = "done"
      <3> SUFFICES ASSUME NEW n \in Ids, file'[n].closed, n # t PROVE thread'[n] = "done"
        BY <1>4
      <3>1. file[n].closed
        <4>1. CASE n # raf
          BY <1>5, <4>1
        <4>2. CASE n = raf
          BY <1>7, <4>2 DEF Ids
        <4> QED
          BY <4>1, <4>2
      <3>2. thread[n] = "done"
        BY <3>1 DEF Open
      <3> QED
        BY <1>4, <3>2
    <2>2. raf' # 0 => file'[raf'].closed
      BY <1>5
    <2> QED
      BY <2>1, <2>2 DEF Open
  <1>11. Telling'
    BY <1>4, <1>6 DEF Telling
  <1>12. Written'
    <2>1. \A u \in Ids : failed[u] => raf' # u /\ thread'[u] # "none"
      BY <1>4, <1>5 DEF Written, Ids
    <2>2. \A u \in Ids : thread'[u] = "none" => file'[u].frames = 0
      BY <1>4, <1>5 DEF Written
    <2>3. \A u \in Ids : thread'[u] \notin LiveAt
      BY <1>2, <1>4, LiveIsNewest DEF LiveAt
    <2> QED
      BY <1>3, <2>1, <2>2, <2>3 DEF Written
  <1>13. Ended'
    <2>1. \A u \in Ids \ {t} : thread[u] = "done" => file'[u].frames = file[u].frames
                                 /\ (file[u].sealed => file'[u].sealed)
      <3> SUFFICES ASSUME NEW u \in Ids \ {t}, file[u].sealed PROVE file'[u].sealed
        BY <1>5
      <3>1. CASE u # raf
        BY <1>5, <3>1
      <3>2. CASE u = raf
        <4>1. file[raf].closed /\ raf # 0
          BY <1>7, <3>2 DEF Ids
        <4>2. file' = [file EXCEPT ![raf].closed = TRUE]
          BY <4>1, Zenon DEF Finish
        <4> QED
          BY <1>1, <3>2, <4>2 DEF FileType
      <3> QED
        BY <3>1, <3>2
    <2>2. ASSUME NEW u \in Ids, u # t, thread'[u] = "done"
          PROVE  (results'[u] # <<>> /\ AllFailed(results'[u])) \/ Saved(u)'
      BY <1>3, <1>4, <1>6, <2>1, <2>2 DEF Ended, Saved
    <2>3. CASE Tell(t, "failed")
      <3>1. results'[t] # <<>> /\ AllFailed(results'[t])
        BY <1>1, <1>4, <2>3, TellFailed
      <3> QED
        BY <2>2, <3>1 DEF Ended
    <2>4. CASE raf # 0 /\ ~file[raf].closed /\ file'[raf].sealed /\ (Tell(t, "saved") \/ TellBoth(t))
      <3>1. raf = t /\ file'[t].sealed /\ file'[t].frames = file[t].frames
        BY <1>5, <1>7, <2>4
      <3>2. ~failed[t]
        BY <3>1 DEF Written
      <3>3. SavedOnce(results'[t]) /\ (Len(results'[t]) = 1 => results[t] = <<>>)
        BY <1>1, <1>4, <2>4, TellSaved
      <3>4. results[t] = <<>> => file[t].frames = captured[t]
        <4>1. Held(t) = 0 /\ file[t].frames \in Nat
          BY <1>1, <1>3 DEF Held, FileType
        <4> QED
          BY <1>2, <3>1, <4>1 DEF Written
      <3>5. Saved(t)'
        BY <1>3, <3>1, <3>2, <3>3, <3>4 DEF Saved
      <3> QED
        BY <2>2, <3>5 DEF Ended
    <2> QED
      BY <1>5, <2>3, <2>4
  <1> QED
    BY TypeParts, <1>5, <1>6, <1>8, <1>9, <1>10, <1>11, <1>12, <1>13

-----------------------------------------------------------------------------
(* The invariant holds at the start and after every step.                    *)

\* No recording has begun: the parts hold at the start.
LEMMA InitInv == Init => IInv
  <1> SUFFICES ASSUME Init PROVE IInv
    OBVIOUS
  <1>1. UiType /\ FileType /\ ToldType /\ FlagType /\ FailedType /\ FieldType /\ ThreadType
    <2>1. FlagType /\ FailedType
      BY Zenon DEF Init, FlagType, FailedType
    <2>2. UiType /\ FileType /\ FieldType /\ ThreadType
      BY RecorderAssumption DEF Init, UiType, FileType, FieldType, ThreadType, UiAt, ThreadAt
    <2>3. ToldType
      BY EmptySeq DEF Init, ToldType
    <2> QED
      BY <2>1, <2>2, <2>3
  <1>2. AllFailed(<<>>)
    BY DEF AllFailed
  <1>3. Order /\ Place /\ Known /\ Mic /\ Open /\ Counted
    BY DEF Init, Order, Place, Known, Mic, Open, Counted, LiveAt, Ids
  <1>4. Telling /\ Written /\ Ended
    BY <1>2 DEF Init, Telling, Written, Ended, LiveAt, Ids
  <1> QED
    BY <1>1, <1>3, <1>4, TypeParts DEF IInv

\* Every step of the UI thread and of a recording thread keeps the invariant.
LEMMA NextInv == ASSUME StoppedInTime PROVE IInv /\ [Next]_vars => IInv'
  <1> SUFFICES ASSUME IInv, [Next]_vars PROVE IInv'
    OBVIOUS
  <1>1. CASE Record \/ Stop
    BY <1>1, RecordInv, StopInv
  <1>2. CASE UiStep
    BY <1>2, ReadyInv, InitializeRecordInv, OpenFileInv, SpawnInv, ImmediateStopInv, TestThreadInv,
       JoinInv, JoinedInv DEF UiStep
  <1>3. ASSUME NEW t \in Ids, ThreadStep(t) PROVE IInv'
    BY <1>3, BeginInv, WarmInv, WarmReadInv, LoopInv, ReadInv, DeliverInv, MaxTimeInv,
       MaxTimeStartedInv, UnInitializeRecordInv, FinishInv DEF ThreadStep
  <1>4. CASE UNCHANGED vars
    BY <1>4 DEF IInv, TypeOK, Order, Place, Known, Mic, Open, Held, Counted, Telling, Written,
       Saved, SavedOnce, AllFailed, Ended, vars, shared, disk
  <1> QED
    BY <1>1, <1>2, <1>3, <1>4 DEF Next

\* The invariant holds in every behaviour of the recorder.
LEMMA RecorderInvariant == ASSUME StoppedInTime PROVE Spec => []IInv
  BY InitInv, NextInv, PTL DEF Spec

-----------------------------------------------------------------------------
(* Theorems.                                                                 *)

\* The fields of the recorder keep their types as long as no recording that the
\* user ends reaches the maximum.
THEOREM RecorderTypeCorrect == ASSUME StoppedInTime PROVE Spec => []TypeOK
  <1>1. IInv => TypeOK
    BY DEF IInv
  <1> QED
    BY <1>1, RecorderInvariant, PTL

\* One thread records at a time, whatever fails and whenever the user stops or
\* leaves, as long as no recording that the user ends reaches the maximum.
THEOREM OneRecordingOnly == ASSUME StoppedInTime PROVE Spec => []OneRecording
  <1>1. IInv => OneRecording
    <2> SUFFICES ASSUME IInv PROVE OneRecording
      OBVIOUS
    <2>1. Live \subseteq {begun}
      BY LiveIsNewest DEF Live
    <2>2. Live = {} \/ Live = {begun}
      BY <2>1
    <2>3. Cardinality({}) = 0 /\ Cardinality({begun}) = 1
      BY FS_EmptySet, FS_Singleton
    <2> QED
      BY <2>2, <2>3 DEF OneRecording
  <1> QED
    BY <1>1, RecorderInvariant, PTL

\* When stop() has returned, its thread has ended, the microphone is released
\* and no file is written any more.
THEOREM StopLeavesNothing == ASSUME StoppedInTime PROVE Spec => []StopMeansStopped
  <1>1. IInv => StopMeansStopped
    <2> SUFFICES ASSUME IInv, fragment = "idle", ui.at = "idle"
                 PROVE  /\ Live = {} /\ mic = 0 /\ (raf # 0 => file[raf].closed)
                        /\ \A n \in Ids : device[n] \notin {"ready", "recording"}
      BY DEF StopMeansStopped
    <2>1. \A t \in Ids : thread[t] \notin LiveAt
      BY DEF IInv, Known
    <2>2. Live = {}
      BY <2>1, LiveIsNewest DEF Live
    <2>3. mic = 0 /\ (raf # 0 => file[raf].closed)
      <3>1. raf \in Ids \cup {0} /\ mic \in Ids \cup {0}
        BY DEF IInv, TypeOK
      <3> QED
        BY <2>1, <3>1 DEF IInv, Open, Mic
    <2>4. \A n \in Ids : device[n] \notin {"ready", "recording"}
      BY <2>3 DEF IInv, Mic, Ids
    <2> QED
      BY <2>2, <2>3, <2>4
  <1> QED
    BY <1>1, RecorderInvariant, PTL

\* What Told counts.
LEMMA ToldCounts ==
    ASSUME TypeOK, NEW t \in Ids, NEW r
    PROVE  /\ (\A i \in DOMAIN results[t] : results[t][i] # r) => Told(t, r) = 0
           /\ (\E i \in DOMAIN results[t] : results[t][i] = r) => Told(t, r) > 0
           /\ \A j \in DOMAIN results[t] :
                  (\A i \in DOMAIN results[t] : results[t][i] = r => i = j) => Told(t, r) <= 1
  <1> DEFINE S == {i \in DOMAIN results[t] : results[t][i] = r}
  <1>1. results[t] \in Seq({"saved", "failed"})
    BY DEF TypeOK
  <1>2. Len(results[t]) \in Nat /\ DOMAIN results[t] = 1 .. Len(results[t])
    BY <1>1
  <1>3. IsFiniteSet(DOMAIN results[t])
    BY <1>2, FS_Interval
  <1>4. IsFiniteSet(S) /\ Cardinality(S) \in Nat
    BY <1>3, FS_Subset, FS_CardinalityType
  <1>5. Told(t, r) = Cardinality(S)
    BY DEF Told
  <1>6. ASSUME \A i \in DOMAIN results[t] : results[t][i] # r PROVE Told(t, r) = 0
    <2>1. S = {}
      BY <1>6
    <2> QED
      BY <1>5, <2>1, FS_EmptySet
  <1>7. ASSUME \E i \in DOMAIN results[t] : results[t][i] = r PROVE Told(t, r) > 0
    <2>1. S # {}
      BY <1>7
    <2>2. Cardinality(S) # 0
      BY <1>4, <2>1, FS_EmptySet
    <2> HIDE DEF S
    <2> QED
      BY <1>4, <1>5, <2>2
  <1>8. ASSUME NEW j \in DOMAIN results[t],
               \A i \in DOMAIN results[t] : results[t][i] = r => i = j
        PROVE  Told(t, r) <= 1
    <2>1. S = {} \/ S = {j}
      BY <1>8
    <2>2. Cardinality(S) = 0 \/ Cardinality(S) = 1
      BY <2>1, FS_EmptySet, FS_Singleton
    <2> HIDE DEF S
    <2> QED
      BY <1>5, <2>2
  <1> QED
    BY <1>6, <1>7, <1>8

\* The listener is told what became of its file: success once at most, never
\* after an error, and of a whole file or beside a failure.
THEOREM ResultIsTold == ASSUME StoppedInTime PROVE Spec => []ResultIsTrue
  <1>1. IInv => ResultIsTrue
    <2> SUFFICES ASSUME IInv, NEW t \in Ids, thread[t] = "done"
                 PROVE  /\ results[t] # <<>>
                        /\ Told(t, "saved") <= IF failed[t] THEN 0 ELSE 1
                        /\ \/ file[t].sealed /\ file[t].frames = captured[t]
                           \/ Told(t, "failed") > 0
      BY DEF ResultIsTrue
    <2> DEFINE s == results[t]
    <2>1. TypeOK /\ s \in Seq({"saved", "failed"})
      BY DEF IInv, TypeOK
    <2>2. Len(s) \in Nat /\ DOMAIN s = 1 .. Len(s) /\ (s # <<>> => Len(s) >= 1)
      BY <2>1, EmptySeq
    <2>3. CASE s # <<>> /\ AllFailed(s)
      <3>1. 1 \in DOMAIN s /\ s[1] = "failed" /\ \A i \in DOMAIN s : s[i] # "saved"
        BY <2>2, <2>3 DEF AllFailed
      <3>2. Told(t, "failed") > 0 /\ Told(t, "saved") = 0
        BY <2>1, <3>1, ToldCounts
      <3> QED
        BY <2>3, <3>2
    <2>4. CASE Saved(t)
      <3>1. PICK k \in DOMAIN s : s[k] = "saved" /\ \A i \in DOMAIN s \ {k} : s[i] = "failed"
        BY <2>4 DEF Saved, SavedOnce
      <3>2. /\ s # <<>> /\ Len(s) >= 1 /\ (Len(s) = 1 => file[t].frames = captured[t])
            /\ file[t].sealed /\ ~failed[t]
        BY <2>2, <2>4, <3>1 DEF Saved
      <3>3. Told(t, "saved") <= 1
        <4>1. \A i \in DOMAIN s : s[i] = "saved" => i = k
          BY <3>1
        <4> QED
          BY <2>1, <4>1, ToldCounts
      <3>4. Len(s) # 1 => Told(t, "failed") > 0
        <4> SUFFICES ASSUME Len(s) # 1 PROVE Told(t, "failed") > 0
          OBVIOUS
        <4> HIDE DEF s
        <4>1. Len(s) > 1
          BY <2>2, <3>2
        <4>2. PICK i \in DOMAIN s : i # k
          <5>1. 1 \in DOMAIN s /\ 2 \in DOMAIN s
            BY <2>2, <4>1
          <5> QED
            BY <5>1
        <4>3. s[i] = "failed"
          BY <3>1, <4>2
        <4> USE DEF s
        <4> QED
          BY <2>1, <4>2, <4>3, ToldCounts
      <3> QED
        BY <3>2, <3>3, <3>4
    <2> QED
      BY <2>3, <2>4 DEF IInv, Ended
  <1> QED
    BY <1>1, RecorderInvariant, PTL
=============================================================================
