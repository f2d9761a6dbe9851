---------------------------- MODULE VoiceRecorder ----------------------------
(***************************************************************************)
(* Recording a voice message: RecorederFragment (record, reset), the       *)
(* IdealRecorder singleton, its Recorder with the AudioRecord and the      *)
(* recording thread, and AudioFileHelper, which writes the WAV file.       *)
(*                                                                         *)
(* The UI thread and the recording threads share every field; only the     *)
(* steps marked with Monitor are synchronized on the Recorder.  One step   *)
(* makes one access to the shared fields, or one call that nothing else    *)
(* can come between.  Recording n is done by thread n, with AudioRecord n, *)
(* into file n (an inode); all files are made under the same path.         *)
(*                                                                         *)
(* Outside src/: AudioRecord may be refused, fail to start, and fail a     *)
(* read (MicFails); writing the file may fail (DiskFails).                 *)
(***************************************************************************)
EXTENDS Naturals, Sequences, FiniteSets

CONSTANTS Recordings,  \* bound: how often the user starts a recording
          MaxFrames,   \* maxRecordTime / TIMER_INTERVAL
          FrameBound,  \* bound: full reads of one thread before it is stopped
          LastIsLeft,  \* the user leaves the last recording alone until it ends
          MicFails, DiskFails

ASSUME RecorderAssumption ==
    /\ Recordings \in Nat \ {0}
    /\ MaxFrames \in Nat \ {0}
    /\ FrameBound \in Nat \ {0}
    /\ LastIsLeft \in BOOLEAN /\ MicFails \in BOOLEAN /\ DiskFails \in BOOLEAN

Ids == 1 .. Recordings

UiAt == {"idle", "ready", "init", "open", "spawn", "stop", "test", "join", "joining", "crash"}

ThreadAt == {"none", "begin", "warm", "warmRead", "loop", "read", "deliver", "max", "started",
             "uninit", "finish", "done", "crash"}

VARIABLES fragment,   \* STATE of the fragment: "idle" (-1) or "recording" (1)
          ui,         \* ui.at: where the UI thread stands, ui.on: whom it joins
          begun,      \* recordings begun
          isStarted,  \* of IdealRecorder
          isRecord,   \* of Recorder
          mThread,    \* of Recorder: the thread, 0 for null
          mic,        \* mAudioRecorder: its number, 0 for null
          device,     \* device[n]: the state of AudioRecord n
          thread,     \* thread[n]: where recording thread n stands
          count,      \* of IdealRecorder
          raf,        \* randomAccessFile: the number of the file, 0 for null
          path,       \* the file the save path leads to, 0 for none
          file,       \* file[n]: frames written, whether the sizes are patched,
                      \* and whether close() was called
          captured,   \* captured[n]: frames thread n was given by the device
          failed,     \* failed[n]: thread n reported onRecordError
          results     \* results[n]: what recording n told of the file, in order

shared == <<isStarted, isRecord, mThread>>
disk == <<raf, path, file, results>>
vars == <<fragment, ui, begun, shared, mic, device, thread, count, captured, failed, disk>>

Init ==
    /\ fragment = "idle"
    /\ ui = [at |-> "idle", on |-> 0]
    /\ begun = 0
    /\ isStarted = FALSE /\ isRecord = FALSE /\ mThread = 0
    /\ mic = 0
    /\ device = [n \in Ids |-> "none"]
    /\ thread = [n \in Ids |-> "none"]
    /\ count = 0
    /\ raf = 0 /\ path = 0
    /\ file = [n \in Ids |-> [frames |-> 0, sealed |-> FALSE, closed |-> FALSE]]
    /\ captured = [n \in Ids |-> 0]
    /\ failed = [n \in Ids |-> FALSE]
    /\ results = [n \in Ids |-> <<>>]

Ui(from, to) == ui.at = from /\ ui' = [ui EXCEPT !.at = to]

Goto(t, from, to) == thread[t] = from /\ thread' = [thread EXCEPT ![t] = to]

\* No thread is inside Recorder.start(), which is synchronized on the Recorder.
Monitor == ui.at \notin {"ready", "init", "open", "spawn"}

\* Mutant: the listener is told another word.
TellOther(t, r) == results' = [results EXCEPT ![t] = Append(@, IF r = "saved" THEN r ELSE "error")]

Tell(t, r) == results' = [results EXCEPT ![t] = Append(@, r)]

TellBoth(t) == results' = [results EXCEPT ![t] = @ \o <<"saved", "failed">>]

\* AudioFileHelper.cancel, part of every onRecordedFail.
Cancel ==
    /\ raf' = 0
    /\ path' = IF raf = 0 THEN path ELSE 0
    /\ UNCHANGED file

-----------------------------------------------------------------------------
(* The UI thread: record(), IdealRecorder.start(), Recorder.start().       *)

\* record() deletes the old file and calls start().
Record ==
    /\ fragment = "idle"
    /\ begun < Recordings
    /\ ui.at = "idle"
    /\ fragment' = "recording"
    /\ begun' = begun + 1
    /\ path' = 0
    /\ IF isStarted
       THEN UNCHANGED <<ui, isStarted, isRecord>>
       ELSE /\ isStarted' = TRUE
            /\ isRecord' = TRUE
            /\ ui' = [ui EXCEPT !.at = "ready"]
    /\ UNCHANGED <<mThread, mic, device, thread, count, raf, file, captured, failed, results>>

\* Recorder.start() gives up: isRecord is reset, isStarted is not.
GiveUp(from) ==
    /\ Ui(from, "idle")
    /\ isRecord' = FALSE
    /\ Cancel

\* onRecorderReady: is there the permission to record?
Ready ==
    /\ \/ /\ Ui("ready", "init")
          /\ UNCHANGED <<isRecord, raf, path, file>>
       \/ MicFails /\ GiveUp("ready")
    /\ UNCHANGED <<fragment, begun, isStarted, mThread, mic, device, thread, count, captured,
                   failed, results>>

ReleaseMic == device' = [n \in Ids |-> IF n = mic THEN "released" ELSE device[n]]

\* initializeRecord: release an AudioRecord that is still there, make one.
InitializeRecord ==
    /\ \/ /\ Ui("init", "open")
          /\ device' = [n \in Ids |-> IF n = begun THEN "ready"
                                      ELSE IF n = mic THEN "released" ELSE device[n]]
          /\ mic' = begun
          /\ UNCHANGED <<isRecord, raf, path, file>>
       \/ /\ MicFails
          /\ GiveUp("init")
          /\ ReleaseMic
          /\ mic' = 0
    /\ UNCHANGED <<fragment, begun, isStarted, mThread, thread, count, captured, failed, results>>

\* onRecorderStart: open the file; a failure is reported and forgotten.
OpenFile ==
    /\ Ui("open", "spawn")
    /\ count' = 0
    /\ \/ raf' = begun /\ path' = begun /\ UNCHANGED results
       \/ DiskFails /\ raf' = begun /\ path' = begun /\ Tell(begun, "failed")
       \/ DiskFails /\ path' = 0 /\ UNCHANGED raf /\ Tell(begun, "failed")
    /\ UNCHANGED <<fragment, begun, shared, mic, device, thread, file, captured, failed>>

Spawn ==
    /\ Ui("spawn", "idle")
    /\ mThread' = begun
    /\ thread' = [thread EXCEPT ![begun] = "begin"]
    /\ UNCHANGED <<fragment, begun, isStarted, isRecord, mic, device, count, captured, failed,
                   disk>>

-----------------------------------------------------------------------------
(* The UI thread: record() or reset(), IdealRecorder.stop(), immediateStop *)

\* reset() stops whatever the state is.
Stop ==
    /\ LastIsLeft /\ begun = Recordings => thread[begun] \in {"none", "done"}
    /\ Ui("idle", "stop")
    /\ fragment' = "idle"
    /\ isStarted' = FALSE
    /\ UNCHANGED <<begun, isRecord, mThread, mic, device, thread, count, captured, failed, disk>>

ImmediateStop ==
    /\ Ui("stop", "test")
    /\ isRecord' = FALSE
    /\ UNCHANGED <<fragment, begun, isStarted, mThread, mic, device, thread, count, captured,
                   failed, disk>>

\* if (mThread != null): the field is read once here and again by the call.
TestThread ==
    /\ Ui("test", IF mThread = 0 THEN "idle" ELSE "join")
    /\ UNCHANGED <<fragment, begun, shared, mic, device, thread, count, captured, failed, disk>>

\* mThread.join() on null throws.
Join ==
    /\ ui.at = "join"
    /\ ui' = IF mThread = 0 THEN [at |-> "crash", on |-> 0] ELSE [at |-> "joining", on |-> mThread]
    /\ UNCHANGED <<fragment, begun, shared, mic, device, thread, count, captured, failed, disk>>

\* Mutant: the UI thread does not wait.
JoinedAtOnce ==
    /\ ui.at = "joining"
    /\ ui' = [at |-> "idle", on |-> 0]
    /\ mThread' = 0
    /\ UNCHANGED <<fragment, begun, isStarted, isRecord, mic, device, thread, count, captured,
                   failed, disk>>

Joined ==
    /\ ui.at = "joining"
    /\ thread[ui.on] = "done"
    /\ ui' = [at |-> "idle", on |-> 0]
    /\ mThread' = 0
    /\ UNCHANGED <<fragment, begun, isStarted, isRecord, mic, device, thread, count, captured,
                   failed, disk>>

UiStep ==
    \/ Ready \/ InitializeRecord \/ OpenFile \/ Spawn
    \/ ImmediateStop \/ TestThread \/ Join \/ Joined

-----------------------------------------------------------------------------
(* Recording thread t: RecordRun.                                          *)

\* onRecordedFail: onRecordError is posted, the file is cancelled.
RecordedFail(t) ==
    /\ failed' = [failed EXCEPT ![t] = TRUE]
    /\ Cancel

\* startRecording() works, throws, or leaves the AudioRecord stopped; it is
\* then dropped without being released.
Begin(t) ==
    /\ Goto(t, "begin", "warm")
    /\ \/ /\ mic # 0
          /\ device' = [device EXCEPT ![mic] = "recording"]
          /\ UNCHANGED <<mic, failed, raf, path, file>>
       \/ /\ mic # 0
          /\ MicFails
          /\ device' = [device EXCEPT ![mic] = "refused"]
          /\ mic' = 0
          /\ RecordedFail(t)
       \/ /\ mic = 0
          /\ UNCHANGED <<mic, device, failed, raf, path, file>>
    /\ UNCHANGED <<fragment, ui, begun, shared, count, captured, results>>

\* Two reads whose data is thrown away; they are one here.
Warm(t) ==
    /\ Goto(t, "warm", IF mic = 0 THEN "loop" ELSE "warmRead")
    /\ isRecord' = IF mic = 0 THEN FALSE ELSE isRecord
    /\ UNCHANGED <<fragment, ui, begun, isStarted, mThread, mic, device, count, captured, failed,
                   disk>>

\* mAudioRecorder is read again; nothing catches a null here.
WarmRead(t) ==
    /\ Goto(t, "warmRead", IF mic = 0 THEN "crash" ELSE "loop")
    /\ UNCHANGED <<fragment, ui, begun, shared, mic, device, count, captured, failed, disk>>

Loop(t) ==
    /\ Goto(t, "loop", IF isRecord THEN "read" ELSE "uninit")
    /\ UNCHANGED <<fragment, ui, begun, shared, mic, device, count, captured, failed, disk>>

\* A full buffer; or an exception (of a null, too) or a short one, which ends
\* the recording.
Read(t) ==
    /\ \/ /\ mic # 0
          /\ device[mic] = "recording"
          /\ captured[t] < FrameBound \/ ~isRecord \/ (LastIsLeft /\ t = Recordings)
          /\ Goto(t, "read", "deliver")
          /\ captured' = [captured EXCEPT ![t] = @ + 1]
          /\ UNCHANGED <<isRecord, failed, raf, path, file>>
       \/ /\ IF mic = 0 THEN TRUE ELSE MicFails \/ device[mic] # "recording"
          /\ Goto(t, "read", "loop")
          /\ isRecord' = FALSE
          /\ RecordedFail(t)
          /\ UNCHANGED captured
    /\ UNCHANGED <<fragment, ui, begun, isStarted, mThread, mic, device, count, results>>

\* onRecorded: save the frame if a file is open, look at the time.  A file that
\* close() was called on cannot be written.
Deliver(t) ==
    /\ count' = count + 1
    /\ Goto(t, "deliver", IF count' >= MaxFrames THEN "max" ELSE "loop")
    /\ \/ /\ raf # 0 => ~file[raf].closed
          /\ file' = [n \in Ids |-> IF n = raf THEN [file[n] EXCEPT !.frames = @ + 1]
                                    ELSE file[n]]
          /\ UNCHANGED results
       \/ /\ DiskFails
          /\ raf # 0
          /\ Tell(t, "failed")
          /\ UNCHANGED file
    /\ UNCHANGED <<fragment, ui, begun, shared, mic, device, captured, failed, raf, path>>

\* recorder.stop() from the recording thread, then isStarted.set(false).
MaxTime(t) ==
    /\ Monitor
    /\ Goto(t, "max", "started")
    /\ mThread' = 0
    /\ isRecord' = FALSE
    /\ UNCHANGED <<fragment, ui, begun, isStarted, mic, device, count, captured, failed, disk>>

MaxTimeStarted(t) ==
    /\ Goto(t, "started", "loop")
    /\ isStarted' = FALSE
    /\ UNCHANGED <<fragment, ui, begun, isRecord, mThread, mic, device, count, captured, failed,
                   disk>>

\* Mutant: the AudioRecord is dropped without being released.
UnInitializeRecordDrops(t) ==
    /\ Monitor
    /\ Goto(t, "uninit", "finish")
    /\ mic' = 0
    /\ UNCHANGED <<fragment, ui, begun, shared, device, count, captured, failed, disk>>

UnInitializeRecord(t) ==
    /\ Monitor
    /\ Goto(t, "uninit", "finish")
    /\ ReleaseMic
    /\ mic' = 0
    /\ UNCHANGED <<fragment, ui, begun, shared, count, captured, failed, disk>>

\* Mutant: success is reported without a look at the file.
FinishAnyway(t) ==
    /\ Goto(t, "finish", "done")
    /\ raf' = 0
    /\ Tell(t, "saved")
    /\ file' = [n \in Ids |-> IF n = raf THEN [file[n] EXCEPT !.sealed = TRUE] ELSE file[n]]
    /\ UNCHANGED <<fragment, ui, begun, shared, mic, device, count, captured, failed, path>>

\* AudioFileHelper.close patches the two sizes of the header and tells onSuccess,
\* then closes the file on every path.  If that throws the field keeps the file,
\* and finish() tells onFailure, after the success too.
Finish(t) ==
    /\ Goto(t, "finish", "done")
    /\ \/ /\ raf = 0
          /\ Tell(t, "failed")
          /\ UNCHANGED <<raf, file>>
       \/ /\ raf # 0
          /\ ~file[raf].closed
          /\ file' = [file EXCEPT ![raf] = [@ EXCEPT !.sealed = TRUE, !.closed = TRUE]]
          /\ \/ /\ Tell(t, "saved")
                /\ raf' = 0
             \/ /\ DiskFails
                /\ TellBoth(t)
                /\ UNCHANGED raf
       \/ /\ raf # 0
          /\ DiskFails
          /\ file' = [file EXCEPT ![raf].closed = TRUE]
          /\ Tell(t, "failed")
          /\ \/ raf' = 0
             \/ ~file[raf].closed /\ UNCHANGED raf
    /\ UNCHANGED <<fragment, ui, begun, shared, mic, device, count, captured, failed, path>>

ThreadStep(t) ==
    \/ Begin(t) \/ Warm(t) \/ WarmRead(t) \/ Loop(t) \/ Read(t) \/ Deliver(t)
    \/ MaxTime(t) \/ MaxTimeStarted(t) \/ UnInitializeRecord(t) \/ Finish(t)

Next == Record \/ Stop \/ UiStep \/ \E t \in Ids : ThreadStep(t)

Spec == Init /\ [][Next]_vars

-----------------------------------------------------------------------------
\* Every variable keeps its type.
TypeOK ==
    /\ fragment \in {"idle", "recording"}
    /\ ui \in [at : UiAt, on : Ids \cup {0}]
    /\ begun \in 0 .. Recordings
    /\ isStarted \in BOOLEAN /\ isRecord \in BOOLEAN
    /\ mThread \in Ids \cup {0} /\ mic \in Ids \cup {0}
    /\ device \in [Ids -> {"none", "ready", "recording", "refused", "released"}]
    /\ thread \in [Ids -> ThreadAt]
    /\ count \in Nat
    /\ raf \in Ids \cup {0} /\ path \in Ids \cup {0}
    /\ file \in [Ids -> [frames : Nat, sealed : BOOLEAN, closed : BOOLEAN]]
    /\ captured \in [Ids -> Nat]
    /\ failed \in [Ids -> BOOLEAN]
    /\ results \in [Ids -> Seq({"saved", "failed"})]

Live == {t \in Ids : thread[t] \notin {"none", "done"}}

\* At most one recording thread runs: start() refuses while one is started
\* (the log message of IdealRecorder.start).
OneRecording == Cardinality(Live) <= 1

\* When stop() has returned the thread has ended, the microphone is off and no
\* file is written any more: it was dropped, or close() was called on it even
\* if that failed.  So the file may be played or deleted.
StopMeansStopped ==
    (fragment = "idle" /\ ui.at = "idle") =>
        /\ Live = {} /\ mic = 0 /\ (raf # 0 => file[raf].closed)
        /\ \A n \in Ids : device[n] \notin {"ready", "recording"}

Told(t, r) == Cardinality({i \in DOMAIN results[t] : results[t][i] = r})

\* A recording that ran tells how the file turned out: saved at most once, never
\* after an error during the recording; and unless it also tells a failure its
\* file has its sizes and all frames that were read, whatever failed in the
\* microphone, in write or in close (onFailure, onSuccess).
ResultIsTrue ==
    \A t \in Ids : thread[t] = "done" =>
        /\ results[t] # <<>>
        /\ Told(t, "saved") <= IF failed[t] THEN 0 ELSE 1
        /\ \/ file[t].sealed /\ file[t].frames = captured[t]
           \/ Told(t, "failed") > 0
=============================================================================
