# Verification of WxMusic

WxMusic is an Android application in two halves.  An *application* lets its user
record, pick, change and send voice messages; a *core* is loaded into the host
messenger's process by hooks and does the sending.  Underneath lie a copy of the
xUtils library (`org.core`): asynchronous tasks, HTTP, a disk cache, a database
mapper; and a copy of the OpenCORE AMR speech codec in C++, by far the largest part.
The repository has no tests and no documents; comments, log messages and
texts shown to the user say what the code is meant to do.

The project models the parts where several threads, processes or callbacks meet, and
the parts of the codec that have control: its state machines and its codes.
TLC checks small instances of them; TLAPS proves the invariants that carry them for
instances of any size.

## Inventory

### Asynchronous tasks (`jar/.../org/core/common/task`)
*State:* the `State` and the `isCancelled` flag of an `AbsTask` and of its
`TaskProxy`, the queue of a `PriorityExecutor`, the messages of the main-thread
handler, the two flags that drop duplicate messages.
*Operations:* `start`, `cancel` on task or proxy, the pool thread's run, updates,
`handleMessage`; `startTasks` and its group callbacks.
*Interaction:* pool threads, cancelling threads and the UI thread share the state
without one lock; everything the user of a task hears goes through the UI queue.
*Hard:* a cancel between two checks of the run; two threads posting outcomes;
counting `onFinished`.
*Correct when:* an outcome is heard before `onFinished`, `onFinished` is heard once,
one outcome excludes the others, a cancel that came in time is never followed by
success.

### ProcessLock (`jar/.../common/util/ProcessLock.java`)
*State:* `LOCK_MAP` of each process, the lock objects, the file of a lock name and
the record locks on it.
*Operations:* `tryLock`, `release` (and `close`), `finalize`, class initialisation.
*Interaction:* the disk cache and the file download take it; processes meet only in
the file system.
*Hard:* the steps of `tryLock` (create, open, lock) and of `release` (unlock, delete)
interleave between processes; a process dies or starts at any point; any call fails.
*Correct when:* a writer is alone; the map lists what is held; nothing leaks.

### Voice recorder (`app/.../recorder`, `RecorederFragment`)
*State:* `isStarted`, `isRecord`, `mThread`, `mAudioRecorder`, the WAV file, what the
listener was told.
*Operations:* record, stop, leaving the page (reset), the recording thread, the
maximum length, failures.
*Hard:* UI thread and recording thread share unsynchronized fields; stop joins the
thread; the maximum ends the thread from inside.
*Correct when:* one thread records at a time, a stop that has returned left nothing running, a
recording is told how its file turned out.

### HTTP, download and disk cache (`jar/.../http`, `jar/.../cache`)
*State:* the count of file workers, the running download by path, `trustCache`, the
retry count; the rows and files of the disk cache; the partial file of a download.
*Operations:* `HttpTask.doBackground`, `RequestWorker.request`, `FileLoader.load`;
`get`, `put`, `commit`, `trimSize`, `deleteNoIndexFiles` of `LruDiskCache`.
*Interaction:* `HttpTask` is a task of the first part, its loader locks with
`ProcessLock` and commits into the disk cache.
*Hard:* cancel while waiting for a slot; retry over what a failed attempt left on
disk; trimming and cleaning up beside a download; row and file changed in two steps.
*Correct when:* the number of workers is bounded and slots come back; a finished
download has no gap that could have been seen; a row's file is there or the reader finds out.

### Playback (`app/.../media`)
*State:* the player of each manager and its status, the wifi lock's count, the audio
focus and its owner, the items marked as playing.
*Operations:* play, pause, resume, stop, release, the player's callbacks, focus changes.
*Interaction:* the two managers never know of each other, but each one's focus manager
acts on the network player; the system sends focus changes to whoever asked last.
*Hard:* callbacks of an earlier track, a call in any state, a player called in a wrong state.
*Correct when:* the marked item is the one that is played, whatever sounds has its wifi lock,
whatever does not sound has given the focus back, and what a call interrupted goes on after it.

### Voice changer and send pipeline (`app/.../fragment`, `FMODService`, `decode`, `down`)
*State:* the table of downloaded files, `tmp.wav`, `new_tmp.wav`, `tmp.amr`, the native
engine and encoder, each thread's progress, the activity and its dialog.
*Operations:* record, preview, end, send an effect or a voice of the list; download,
convert to WAV and AMR, broadcast to the host process; rotate, die, start again.
*Interaction:* one engine, one encoder and one name per file are shared by all of them
without a lock; only the modal dialog keeps them apart, and it goes with the activity.
*Hard:* a preview ended by a send and the other way round; a conversion that fails; work that
goes on for an activity that is gone.
*Correct when:* an undisturbed send sends what was confirmed, every send ends, and an item
marked as playing is watched by a thread that will unmark it.

### AMR codec (`amr/src/main/jni/opencore/.../amr_nb`)
*Discontinuous transmission* (`dtx_enc`, `sid_sync`, `dtx_dec`, the frame state of `dec_amr`):
the encoder stops speaking after a hangover and describes the noise now and then;
the decoder has to find the same counts from the frames that arrive.
*Correct when:* the noise is described on time, the decoder knows of each hangover, mutes only when it
has heard nothing for long, and recovers after damage.

*Voice activity* (`vad1`): decides which frames are speech, from an estimate of the noise that it
may adapt only while there is no speech.  *Correct when:* it leaves speech again: hangovers end, and
a noise that became louder is not taken for speech for ever.

*Codes* (`pitch_fr`, `enc_lag`/`dec_lag`, the codebooks `c*pf`/`d*pf`, `prm2bits`/`bits2prm`, the
formats `ets_to_*`/`*_to_ets`): pure functions, twice, in encoder and decoder.  *Correct when:*
each decoder inverts its encoder, lengths agree, and nothing that arrives leads outside an array.

### Core loading (`MMCore`), images (`org/core/image`), cookies, database mapper
Version check, download and loading of the core; views bound to their newest
request; a cookie table trimmed in the background; SQL.  Not modelled yet.

### Not modelled
* The codec's signal processing: filters, quantisers, gains, searches, and their tables.  It computes
  samples; what it computes is specified by bit-exact test sequences (not in the repository), not by properties
  of its control.  It is the bulk of the implementation's lines, so the share of lines
  that the models stand for stays small whatever is modelled beside it.
  Where its results steer what is modelled (the best lag, the pulses, the levels of
  the bands), they are free choices.
* The codec's wrappers (`amr_encoder.cpp`, `wrapper.cpp`): a single encoder without a choice; what
  they share among threads is in `SendVoice`.
* fastjson, the dialog library and the stubs of the host application are vendored or empty; the JNI
  bridge has no state; activities, adapters and views are wiring.

## Modules

| Module | Code | State and actions |
|---|---|---|
| `TaskProxy` | `TaskProxy`, `AbsTask`, `TaskControllerImpl.start`, `PriorityExecutor`, `UIHandler` | One variable per field; `wpc` is the line of the starting and then the pool thread, `cpc` the `cancel()` frame of each cancelling thread. One step per read or write another thread can see; `uiQueue` is the looper's queue, in order. |
| `TaskCallbacks` | what a task promises its listener | Only what the listener has heard: which callbacks must come before which (`Needs`), which exclude which (`Bars`), what a cancel-fast task may do beside. |
| `TaskGroup` | `TaskControllerImpl.startTasks` | `TaskProxy` composed with the counter of `callIfOnAllFinished`: each group step is a task step and what the wrapper adds to it. |
| `RWLock` | what `ProcessLock` promises to one process | A read/write lock that may refuse; a client gives it back alone, a death clears all of its process. |
| `ProcessLock` | `ProcessLock` | The steps of `tryLock` and `release` that other processes can see between: exists, create, open, lock, enter; unlock, delete. Each process has one frame, because both run under its monitor; any call of the file system may fail. The file system and the POSIX record locks are external. |
| `VoiceRecorder` | `Recorder`, `IdealRecorder`, `AudioFileHelper`, `RecorederFragment.record` | The UI thread, the recording threads, and the fields they share; a frame of sound is a unit of length, and a file knows whether its header is complete and whether it was closed, if only by a `close()` that failed. |
| `Download` | `HttpTask`, `RequestWorker`, `FileLoader`, `HttpRetryHandler` | `pc[t]` runs from `checkDownloadTask` to the end of `doBackground`; files are sequences of blocks, each known by the version of the server's file and the place in it that it comes from; the code compares only their bytes, which other versions and places may share. The lock is used as its specification has it. |
| `DiskCache` | `LruDiskCache`, `DiskCacheFile`, `FileLoader` where it uses them | One step per call of the database, the file system or the lock; a file is who wrote it and whether its download was complete. |
| `MediaPlayback` | `NetMediaPlayManager`, `LocalMediaPlayManager`, `ManagedMediaPlayer`, `AudioFocusManager` | `player[m]` is the platform's player of each manager with what it has to tell; one step per click, event or focus message, since all run on the UI thread. The platform's player and the focus system are external. |
| `SendVoice` | `LocalMusicFragment`, `FMODService`, `MusicInfoListFragment`, `MusicInfoPresenter`, `DownloadAPI`, `DecodeUtil`, `Wav2Arm` | Each preview and each send is a thread whose steps are separate where another can see them; files hold what was written into them, or a mix. |
| `AmrDtx` | `dtx_enc`, `sid_sync`, `dtx_dec`, `dec_amr`, `amrencode`, `sp_dec` | Both ends of the line; a step is a frame, with what the encoder sent and what the line made of it. |
| `AmrVad` | `vad1` | Its flag is the `vad` of `tx_dtx_handler` in `AmrDtx`. A step is a frame; one operator per function. |
| `AmrPitch` | `pitch_fr`, `enc_lag3`, `enc_lag6`, `dec_lag3`, `dec_lag6`, `pred_lt`, `dec_amr` | Operators: the ranges a lag is searched in, its index, its decoding, its concealment. |
| `AmrCodebook` | `c2_9pf` ... `c1035pf`, `d2_9pf` ... `d1035pf` | Operators: pulses to index and back, one pair for each mode. |
| `AmrFrame`, `AmrTables` | `prm2bits`, `bits2prm`, `ets_to_*`, `*_to_ets`; `bitreorder_tab`, `bitno_tab` | Operators: parameters to bits to octets and back; the tables as they are. |

`TaskProxy_proof` (with `TaskGroup`), `ProcessLock_proof`, `VoiceRecorder_proof`, `Download_proof`, `DiskCache_proof`,
`MediaPlayback_proof`, `SendVoice_proof` and `Amr_proof` (for all modules of the codec) hold the proofs, the `MC`
modules the instances.  A definition that starts with a comment "Mutant" is the form a plausible bug
would give the definition after it; no specification uses it.

## What the runs show

| Run | Question | Result |
|---|---|---|
| `task_race` | A task whose callbacks throw, two cancelling threads, each on the task or the proxy, one progress update | The callback protocol of a task: which callbacks come before which, an outcome before `onFinished` among them, as `TaskCallbacks` has it (`ImplementsCallbacks`), one outcome only (`ExclusiveOutcome`), nothing after `onFinished` (`NothingAfterFinished`), and a cancel that came in time is never followed by success (`CancelBeatsSuccess`). |
| `group_all` | Two tasks of different priority, one pool thread, a canceller | `onAllFinished` runs exactly once (`AllFinishedOnce`), after all tasks if nobody cancels (`AllFinishedSound`), and no task is lost in the queue (`EventuallyFinished`). |
| `lock_two` | Two processes, three threads, crashes and failing calls | Exclusion inside a process (`InProcessExclusion`), an exact map (`MapExact`), no record lock left behind (`NoLeakedLock`). |
| `lock_across` | The same, across processes | `CrossProcessExclusion` is **violated**: a release or a starting process deletes the lock file under a lock that is held, and the next process locks a new inode. |
| `rec_all` | Three recordings, two stopped by the user or left, the third up to its maximum, with a failing microphone and disk | One thread at a time as long as nobody records again after a maximum (`OneRecording`), stop leaves nothing running (`StopMeansStopped`), and what the listener was told is what became of the file (`ResultIsTrue`). |
| `rec_maxtime` | A click after the maximum | `OneRecording` is **violated**: the maximum forgets the thread before it has ended, so a second one starts beside it. |
| `down_resume` | Two downloads to one path and one slot, one trusted cache, retry, redirect, a server that changes its file | A saved file has no gap, repetition or change of version that the comparison of a block can see, and one read to its end does not stop short (`SeamsMatch`); slots and locks come back (`NothingLeaks`), a replaced download never overwrites a newer one (`NewerWins`), each download ends (`DownloadEnds`). |
| `cache_one` | Two clients, one key, the clean-up and the trim thread | Only complete downloads are in the cache (`CompleteOnly`); an open file changes only by the two deletions that take no lock (`OpenFilesStay`); every lock comes back (`LocksReturn`). |
| `media_two` | Both players, calls, notifications, other applications, errors | The marked item is the current one (`ShownIsCurrent`); what sounds holds its wifi lock, and what is paused, stopped or released has given the focus back (`ResourcesFollow`). |
| `media_call` | A call during playback | `CallResumes` is **violated**: the pause on the loss gives the focus up, so the gain that should resume never comes. |
| `send_all` | Up to three previews and sends, a recording, a rotation, the process's end | A marked item has a thread that will unmark it (`MarkHasThread`), an undisturbed send sends what was confirmed (`AloneIsRight`), every send ends (`SendEnds`). |
| `amr_dtx` | Both ends of a discontinuous transmission over a line that damages frames in every way | A description of the noise before the period is over (`SidsOnTime`), hangovers are followed (`HangoverAgreed`), muted only when nothing came for long (`MutedOnlyWhenStale`), good frames are heard at full level again (`Recovers`). Its `ASSUME`s compare the bit tables of `AmrTables` with what `AmrFrame` needs of them. |

Each passing run but `group_all` also checks the type invariant of its module (that of `TaskProxy` is checked in `task_race`).

### Bounds, and why they suffice

* *Tasks*: all actions of a task touch that task alone but for the two queues, so races
  need one task and two cancellers (one on each object, or two on one); the queue needs two tasks
  and one thread.  `MaxUpdates` caps progress messages: one is enough to be late.  Tasks that
  are cancelled fast are an instance of the theorems only.
* *Locks*: two threads in one process and one in another meet in every combination of
  states; three inodes let both processes hold an orphan while a third has the name.  An
  inode without holder and name is used again.
* *Recorder*: the third recording starts after every way the second can follow the first.
  `MaxFrames` lies above `FrameBound`, so a recording the user ends does not reach its maximum;
  `LastIsLeft` lets the third do so (`rec_maxtime` shows why the two are apart).
* *Download*: one retry, one redirect, one slot; a file of three blocks replaced by one of two, so that a
  resumed file can be too long, equal at the block compared, or different there.  Both blocks of
  the new version have the bytes of the second block of the old, so files that mix the two are saved.
* *Cache*: steps name only files of their key, so one key meets everything but the order of
  a trim list.  The two clients can each be reader, writer or both in turn.
* *Playback*: two items, to tell the marked one from another; four clicks on play, so that both
  managers play, are interrupted and play again; two focus messages on their way, so that one can be stale.
* *Sending*: two lives of the activity, so that work of the first meets work of the second; three
  pieces of work, of which one can begin, one disturb and one come after.
* *Transmission*: the periods of the code (hangover 7, frames after which it is due again 30, update 8, muting 50) are scaled
  to 3, 4, 4 and 5, within the order the assumptions demand; counters saturate at 8, beyond all
  of them.  The proofs hold for every choice that meets the assumptions, the code's included.

### Fairness

Threads that are inside a method go on: weak fairness of the steps of every thread that has
been started, which preemptive scheduling gives.  The looper delivers
its queue, the pool takes its tasks.  I/O returns or fails (a connection has time-outs; a read of the microphone
returns).  `DiskCache` also assumes the garbage collector to run finalizers eventually, which a process that
lives long enough and allocates sees; without it a lookup that finds its file gone keeps the lock for good.
Nobody has to start, cancel, click, look up or trim.  `MediaPlayback` assumes that the looper delivers and that a call ends;
`SendVoice` that threads and the FFmpeg process go on, and that a download and a sound end, if only by failing;
`AmrDtx` that frames keep coming, which the sample clock does.

### Abstractions

* *Tasks*: a message of a group and the counting it runs are one step, as `handleMessage` is
  one step of the UI thread.  The runnable of a task is its `doBackground` that returns or throws.
* *ProcessLock*: one lock name; names that `customHash` maps to one file behave like one name.
  `SharedTable` says whether the VM keeps its own table of file locks that refuses a second reader; the
  instances take `FALSE`, the proofs neither.  A `close()` that fails after the lock is gone is left out.
* *Recorder*: a stale read of the unsynchronized `isRecord` looks like a thread that is late.  The two
  warm-up reads are one.
* *Download*: prepare callbacks, `onlyCache` and results that are not files are left out; a connection that ends
  early is reported as an exception.
* *Disk cache*: no sizes: trimming takes any rows at any time, its three parts as separate jobs.  `put`, hit
  counts and `clearCacheFiles` are left out.  A lock that is tried once is refused or tried when
  free.  `deleteFileWithLock` is one step, since whoever meets its lock is refused or waits.
* *Playback*: positions and progress are left out.  The platform's player has the states its documentation
  gives it, and throws where it says so.
* *Sending*: a file's content is what it was made from; a write that meets another leaves a mix.
  The two hundred milliseconds between two looks of a polling thread are any time.
* *Transmission*: a level stands for the spectrum and the gains that travel with it.  Homing frames, which
  reset the codec, are left out.
* *Voice activity*: the signal is whatever the filter bank and the comparison with the noise make of it: any.
* *Codes*: which lag or pulses the search prefers is any choice it could make.

## What is proved

Every safety property of a passing run is a theorem; liveness is not, and of `AllFinishedOnce`, which is half
liveness, only the other half (`AllFinishedAtMostOnce`).
The theorems hold for every number of tasks, cancellers and pool threads, every finite group of tasks (`TaskProxy_proof`), of
processes, threads and inodes (`ProcessLock_proof`), of recordings (`VoiceRecorder_proof`), of downloads, paths,
slots, retries and versions on the server (`Download_proof`), of keys and clients (`DiskCache_proof`), of items, clicks
and messages (`MediaPlayback_proof`), of previews, sends, voices, effects and lives of the activity
(`SendVoice_proof`), for all periods and levels, all signals, all
parameters and octets (`Amr_proof`); assumed are only the named
assumptions on the constants, which TLC evaluates for the instances.

* `TypeCorrect`, `LockTypeCorrect`, `RecorderTypeCorrect`, `CacheTypeCorrect`, `MediaTypeCorrect`, `VadTypeCorrect`, and
  `TypesKept` of the downloads and of the sends: the type invariants.
* `FinishOrder`, `OutcomeAlwaysBeforeFinished`: `OutcomeBeforeFinished` alone is not inductive, because
  `onFinished` may already be on its way.  `FinishInv` adds that a queued `FINISHED` has an outcome in front of it, and
  that a thread about to post `FINISHED` has posted its outcome; the queue being first-in first-out does the rest.
* `CancelHonoured`, `OutcomesExclude`: `CancelInv` ties a cancellation some thread has *announced* (seen `WAITING` or
  `STARTED`) to a check `run()` still has before it, or to a run that has chosen `CANCEL`.  This is where the second check of
  `run()` is needed.
* `FinishedIsLast` (`NothingAfterFinished`): messages are still on their way when `onFinished` runs, so the proof is about
  the order of the queue.  `LateInv`: an update is queued before the outcome of its task, success and error are queued
  once and not after they were heard.  With `FinishInv` and `CancelInv` an outcome after `onFinished` can only be a second
  `CANCEL`, which the handler drops.
* `CancelWins` (`CancelBeatsSuccess`): a task is `Doomed` when a flag is up, the pool thread has a check before it or has
  taken another outcome, and success is not on its way.  Every step keeps that (`DoomedStays`), and what
  `CancelBeatsSuccess` starts from implies it.
* `CallbacksRefined` (`ImplementsCallbacks`): every step of `TaskProxy` is a step of `TaskCallbacks`, or none that the
  listener hears, under the mapping that forgets all but the calls.  `OrderInv` says of each queued message what is in front
  of it, by the same tables (`Needs`, `Bars`) the abstract specification is written with, and what the pool thread has posted where it
  stands (`PostedBy`).  Handling a message shifts the queue and changes nothing of this (`HandleShifts`); posting has to be in order
  only at its place.  What depends on the cancellers is taken from `FinishInv`, `CancelInv` and `LateInv`.  `onStarted` may still come
  after `onFinished`, and `onWaiting` after `onCancelled`: the code promises no more.
* `AllFinishedLast` (`AllFinishedSound`): the steps of a group are steps of its tasks (`GroupIsTasks`), so what is proved of
  tasks holds in groups.  While no task's flag is up (`Quiet`), no canceller is past the entry of `cancel()`, every task posts
  `FINISHED` once, and the counter is the number of tasks whose `FINISHED` was handled (`CountInv`); it reaches the
  number of tasks when it has counted all of them, for which the group must be finite (it is an array).
  `AllFinishedAtMostOnce` holds with cancellations too: the counter passes the number of tasks once.
* `Invariant`: `TypeOK` and `LockInv` hold together; neither is inductive alone, since an entry of the map needs the
  client of a well-typed frame.  `FrameFree` carries what `tryLock` found in the map over its steps in the file
  system, which the monitor protects.  `WriterAloneInProcess` and `MapListsHeldLocks` follow.
* `NoLockLeaks` (`NoLeakedLock`): a step that takes a record lock leaves it to the object in the frame; a step that
  gives up an object's inode gives up its process's record locks on it.  Inductive with `FrameFree` and `LockInv` beside it.
* `Refinement`: every step of `ProcessLock` is a step of `RWLock`, or none, under the mapping of each client
  to the mode it holds, whatever the file system does.  It says little more than `WriterAloneInProcess`, and is there because
  `Download` takes `RWLock` for the lock of its path.
* `RecorderTypeCorrect`, `OneRecordingOnly`, `StopLeavesNothing`, `ResultIsTold` hold as long as no recording that
  the user ends reaches the maximum length (`StoppedInTime`: a recording is allowed fewer frames than that before
  its stop; the last may still run into the maximum).  The condition is needed: `rec_maxtime` lifts it and
  loses `OneRecording`.  `OneRecording` is not inductive.  `Known` adds that the thread that runs is the one
  `mThread` names, unless the maximum has forgotten it, so that the thread `stop()` joins is the right one; that
  no other thread reaches the maximum needs `Counted`: the recorder's count is the number of frames the
  running thread has read, one more at most after `isRecord` is cleared.  `Mic` and `Open` say whose the microphone and
  the file are, `Telling`, `Written` and `Ended` what was told about the file at each point.
* `NoLeak` (`NothingLeaks`): the worker count is the number of threads between taking and giving back a slot (`Slots`,
  by the cardinality of that set), a lock is held exactly between taking and giving it back, by one thread for a path (`Locks`).
* `NoBadSeam` (`SeamsMatch`): what a retry resumes was left by an attempt that may have failed anywhere, of versions
  the server may no longer have.  `Files` says the same of the temporary file (`Continuous`), and what the loader knows of
  it at each step (`Reading`): before the answer, where it asked to resume; while it copies, that the last block has the bytes
  of the last one it read.  A resumption keeps this by the comparison of that block with the first received; the lock keeps
  other threads from disturbing it.  That the file is of *one* version cannot be proved: the code does not see
  a version whose block has the same bytes, and the run does reach files that mix two.
* `NewestFileStays` (`NewerWins`): all but the last download of a path are cancelled (`Queue`); whoever saved a file
  has finished, and whoever may still save is newer than the one who did (`Savers`).
* `CacheTypeCorrect`, `OnlyCompleteFiles`, `OpenFilesSafe`: `CompleteOnly` says nothing of the file that is about to be renamed.
  `CacheInv` adds that it is complete or gone (`TmpOwn`), which needs that two clients never write one temporary file
  (`Exclusive`), which needs that a client has the lock wherever it writes (`LocksOf`, in `TypeOK`).  The same locks
  keep every step that asks for one away from a file that is open.

* `MediaTypeCorrect`, `MarkFollows`, `MediaResources` (the last two are `ShownIsCurrent` and `ResourcesFollow`):
  what a mark and a lock follow is the status of the player, so the invariant ties
  the status to what the platform's player really does (`StatusMatches`) and to the event it may still deliver
  (`EventMatches`), and the focus to its owner and to the messages under way (`Granted`, `Quiet`).
* `MarksGo` (`MarkHasThread`): inductive once a preview that was not clicked yet is known to have no thread (`Unused`), so
  that a click takes no thread from a mark.
* `AloneSendsRight` (`AloneIsRight`): `Stage` says for a send that met no other work what is at each of its steps in
  the recording, in the engine, in the file it renders to, in the downloaded file and in `tmp.amr`; `Lone` adds that no other send is under
  way and that no preview is about to use the engine.  Every step of anything else either leaves what `Stage` speaks of
  alone or ends the send's being alone.
* `SidSchedule`, `MutedWhenStale`, `HangoverFollowed` for `AmrDtx`: the schedule of the descriptions is an invariant of the
  transmitter alone (`TxInv`).  `HangoverAgreed` relates counters at both ends that are never sent:
  `Follows` says which frame of a pause the decoder must be in when every frame since some point has
  arrived, `RunTx`, `RunRx` and `RunUpdate` what the counters are then.
* `HangoversAreFinite`, `NoSpeechDeadlock` for `AmrVad`: while nothing is heard each frame takes one from the sum of
  the two hangovers (`HangoversEnd`), although each waits for the other; a steady signal has at
  most `STAT_COUNT` frames to go (`UpdateNears`), after which the estimate of the noise rises by two or more a frame up to its
  limit, as the comment at `vad1.cpp:663` has it.  Both are implied by what one frame does to the counters, which is
  arithmetic on the code's constants in 16 bits.  `AmrVad` has no run: nine estimates of
  sixteen bits are beyond TLC.
* `LagRoundTrip`, `FrameFollowed`, `HistoryInside`: in every mode the decoder finds the lag
  and fraction of the encoder, so the two agree on the range of the next lag; and whatever arrives, the
  lag keeps the predictor inside its buffer.
* `RoundTrip9`, `11`, `14`, `17`, `31`, `35`, `WritesInside`: each pair of codebook functions is inverse on
  the pulses the encoder can choose; any received index writes inside the subframe.  `MR102` alone checks this
  (`pos < L_SUBFR`); for ten and seven bits the check never drops a pulse.
* `ParametersArrive`, `SidArrives`, `TypeArrives`, `FrameLength`: parameters through bits and octets and back.
  What the order of the bits has to be for this (a permutation, widths that add up) are assumptions on the tables
  that TLC evaluates on the tables of the code.  A parameter has at most 13 bits, so the loop over its bits
  is unrolled; an induction is out of the prover's reach.

Model-checked only: all liveness (`EventuallyFinished`, `AllFinishedOnce`, `DownloadEnds`, `LocksReturn`, `SendEnds`, `Recovers`), which rests on fairness and so on `ENABLED`, out of the prover's reach.

## Observed in the code

Beside the three violated runs, met while modelling and not stated as a property:

* `TaskControllerImpl:149` counts `onFinished` calls, which a cancelled task may cause twice:
  `onAllFinished` may then come before the last task's end.
* `ProcessLock:201` locks through a channel of its own; a VM that keeps a table of locks refuses a second reader of one process.
* `Recorder:111-113` tests `mThread` and calls it; the maximum may set it to null in between (line 104), and `stop()` throws:
  the step `Join` of the model leads to `crash` then.  No property is about it.
* `AudioFileHelper:60`: a frame the disk refused is reported by `onFileSaveFailed`, and the end of the
  recording still reports success.  `AudioFileHelper:170`: a file that fails to close is reported as saved and then as
  failed, and the field keeps it for the next recording, should that find no file of its own.
* `HttpTask:591` counts a worker after the check of the limit, outside its monitor.
* `FileLoader:96`: a server's file that was replaced by one with the same 512 bytes at the place where a resumption compares
  is joined to what is left of the old one.
* `FileLoader:291,294`: a rename that fails leaves the file under its temporary name and returns it as the result.
* `FileLoader:241`: after a 416 the partial file is the result, whatever its bytes; the comment at 247 says it is not renamed, the call is `autoRename`.
* A download that was replaced gives its lock back only when it notices; the retries of the newer one may be used up before.
* `LruDiskCache:359` is to clean up files of earlier runs, and may delete a download in progress (its commit then fails at the rename),
  or a file whose commit has not yet written its row.
* `LruDiskCache:231-233`: a failed rename deletes the older cached file after giving back its lock.
* `LruDiskCache:235-236`: the temporary file is deleted after its lock was closed, so it may be the next writer's, whose commit then finds none and returns null.
* `LruDiskCache:152`: the lock of a lookup that finds its file gone waits for the finalizer.
* `LruDiskCache:294`: with locked files left and no rows the loop of the trim thread does not end.
* `MMCore:454` loads a downloaded core without comparing the checksum it compares for a file already there.
* `DownFile:20`: the row id is a primitive that stays 0, so each download replaces the row of the one before.

In the players (`app/.../media`):

* `NetMediaPlayManager:95`: each `start()` acquires the wifi lock, `pause()` releases it once, `stop()` never: it outlives playback.
* `NetMediaPlayManager:164`: `stop()` while the player prepares, and `onPrepared` after `stop()`, throw `IllegalStateException`.
* `AudioFocusManager:38,57`: a gain or a duck uses the player nobody assigns, and throws.  `AudioFocusManager:44`: a loss of the recording's player pauses the network's.
* A transient loss while a track prepares is ignored, and playing starts into the call; a refused focus is only logged.

In the voice changer and the send pipeline:

* `FileUtil.getLocalSavaMusicPath` is the recording *and* where a voice of the list is converted to: sending a voice overwrites the recording.
* `tmp.amr` is read by the host in its own time, while the next send deletes it.
* `DownFile` records a size sampled once a second, 0 for a short download; an empty file left by a later failure then counts as
  downloaded, and FFmpeg's failure throws on the UI thread each time it is sent.
* `FMODService:91`: a click on the item that plays clears its mark while it sounds; a flag cleared and set within
  200 ms leaves two polling threads for one item.  The comment says `end()` is called when recording again; nothing does.
* After a rotation in mid-conversion the broadcast is sent, then `view.showSendSuccess()` meets `null`.
* An io thread whose observer was disposed throws what nobody receives, which ends the process; `AmrEncoder.exit()` is then skipped.

In the codec:

* `dtx_dec.cpp:1339`: the level of muted noise is lowered by 256 a frame in a `Word16` without saturation and wraps to the
  loudest after at most 256 muted frames; the pseudo-code at 781 saturates.
* `dtx_enc_reset` clears 10 words of a history of 8 entries of one; `sid_sync_set_handover_debt` is never called.
* `RX_SPEECH_BAD` while muting ends the muting.
* `wrapper.cpp` resets the encoder with the address of a member of its state; the decoder's error path frees the wrong pointer.
* `ets_to_wmf` writes a zero octet beyond the counted length of an empty frame; IF2 unpacks up to 44 bits for a SID of 39.
* In `hangover_addition` of `vad1` the reset of `complex_hang_timer` at low power repeats what `complex_vad` did;
  the hangover after speech stands still while that of a complex signal runs, so their sum is 256 frames.
* The application runs the encoder without DTX (`AmrEncoder.init(0)`) in mode MR122.

## Plan

1. `TaskProxy`, `TaskCallbacks` which it implements, `TaskGroup`: every other network part runs in it. *Done, proved.*
2. `ProcessLock`, and `RWLock` which it implements. *Done, proved.*
3. `VoiceRecorder`. *Done, proved.*
4. `Download`: worker slots, replaced download, retry, resume. *Done, proved.*
5. `DiskCache` over the lock's specification: commit, trim, clean-up. *Done, proved.*
6. `MediaPlayback`: players, focus, wifi lock. *Done, proved.*
7. `SendVoice`: voice changer, downloads and sends. *Done, proved.*
8. `AmrDtx`, `AmrVad`, `AmrPitch`, `AmrCodebook`, `AmrFrame`: the codec's control and codes. *Done, proved.*
9. Image binding with `LruCache`, the loader of the core, the cookie store.

Theorems to come: those of 9, with it.
