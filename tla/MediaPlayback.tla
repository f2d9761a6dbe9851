---------------------------- MODULE MediaPlayback ----------------------------
(* The two players of the application, NetMediaPlayManager for the voices on *)
(* the server and LocalMediaPlayManager for the recording: twins with one    *)
(* ManagedMediaPlayer, one wifi lock and one AudioFocusManager each.  An     *)
(* AudioFocusManager, whosever it is, always acts on NetMediaPlayManager.    *)
(*                                                                           *)
(* Everything runs on the UI thread: the clicks, the events of the           *)
(* platform's players and the messages of the audio focus.  Outside src/ are *)
(* the platform's MediaPlayer (native), which prepares, plays, ends or fails *)
(* on its own, posts one event for it, and throws IllegalStateException when *)
(* it is called in a wrong state; and the system's audio focus with its      *)
(* phone calls, notifications and other applications, whose messages come in *)
(* order.  An exception on the UI thread ends the process: everything here   *)
(* is lost, and the user may start it again.                                 *)
EXTENDS Naturals, Sequences

CONSTANTS
    Items,     \* the voices of the list
    none,      \* no item, no owner of the audio focus
    MaxPlays,  \* bound: clicks on play
    MaxQueue   \* bound: focus messages waiting when the system sends another

Managers == {"net", "local"}

ASSUME MediaAssumption ==
    /\ none \notin Items \cup Managers
    /\ MaxPlays \in Nat /\ MaxQueue \in Nat

VARIABLES
    player,   \* player[m]: see TypeOK; status "null" is mMediaPlayer == null
    owner,    \* whose AudioFocusManager has the audio focus
    call,     \* a phone call holds the focus for a while
    shown,    \* the items whose isPlay is set (those of the recording are not shown)
    queue,    \* messages of the audio focus on their way to the UI thread
    plays     \* clicks on play so far

vars == <<player, owner, call, shown, queue, plays>>

Statuses == {"null", "IDLE", "INITIALIZED", "STARTED", "PAUSED", "STOPPED", "COMPLETED"}

\* A manager without a player; its current item stays.
Unused(i) == [status |-> "null", native |-> "idle", event |-> "none", cur |-> i,
              wifi |-> 0, registered |-> FALSE]

Init ==
    /\ player = [m \in Managers |-> Unused(none)]
    /\ owner = none /\ call = FALSE
    /\ shown = {} /\ queue = <<>> /\ plays = 0

\* The process ends and starts again; the system takes back its focus and locks.
Crash ==
    /\ player' = [m \in Managers |-> Unused(none)]
    /\ owner' = none
    /\ shown' = {}
    /\ queue' = <<>>

\* The messages for the focus manager of m, now that there is none.
Dropped(m) == [k \in DOMAIN queue |-> IF queue[k].to = m THEN [queue[k] EXCEPT !.to = none]
                                                       ELSE queue[k]]

\* abandonAudioFocus() of the focus managers in ms.
Abandon(ms) == owner' = IF owner \in ms THEN none ELSE owner

-----------------------------------------------------------------------------
(* The managers.  q is the queue without the message being handled; reset()  *)
(* and release() of the platform's player drop an event that is on its way.  *)

\* wifiLock.release(), guarded by isHeld().
Released(wifi) == IF wifi > 0 THEN wifi - 1 ELSE 0

\* Mutant: the item before stays marked.
PrepareOver(m, i) ==
    /\ player' = [player EXCEPT ![m].status = "INITIALIZED", ![m].native = "preparing",
                                ![m].event = "none", ![m].cur = i]
    /\ shown' = IF m = "net" THEN shown \cup {i} ELSE shown

\* startPrepare(): the new item takes the place of the current one.
Prepare(m, i) ==
    /\ player' = [player EXCEPT ![m].status = "INITIALIZED", ![m].native = "preparing",
                                ![m].event = "none", ![m].cur = i]
    /\ shown' = IF m = "net" THEN (shown \ {player[m].cur}) \cup {i} ELSE shown

\* play(): init() if there is no player, reset(), then setDataSource(), which
\* may throw: the item before then stays the current one.
Play(m, i) ==
    /\ plays < MaxPlays
    /\ plays' = plays + 1
    /\ \/ Prepare(m, i)
       \/ /\ player' = [player EXCEPT ![m].status = "IDLE", ![m].native = "idle",
                                      ![m].event = "none"]
          /\ UNCHANGED shown
    /\ UNCHANGED <<owner, call, queue>>

Stoppable == {"STARTED", "PAUSED", "COMPLETED", "INITIALIZED"}

\* stop() of m, and then abandonAudioFocus() of the focus managers in others.
Stop(m, others, q) ==
    LET r      == player[m]
        active == r.status \in Stoppable
        gone   == IF active THEN others \cup {m} ELSE others
    IN  IF active /\ r.native \notin {"prepared", "started", "paused", "completed", "stopped"}
        THEN Crash
        ELSE /\ player' = [k \in Managers |->
                  [player[k] EXCEPT
                     !.status = IF k = m /\ active THEN "STOPPED" ELSE @,
                     !.native = IF k = m /\ active THEN "stopped" ELSE @,
                     !.cur = IF k = m THEN none ELSE @,
                     !.registered = @ /\ k \notin gone]]
             /\ Abandon(gone)
             /\ shown' = IF m = "net" THEN shown \ {r.cur} ELSE shown
             /\ queue' = q

\* requestAudioFocus() of m: refused during a call; the other one loses it.
Request(m) ==
    /\ owner' = IF call THEN owner ELSE m
    /\ queue' = IF owner \in {none, m} \/ call THEN queue
                ELSE Append(queue, [to |-> owner, what |-> "LOSS"])

\* Mutant: the wifi lock is acquired before and after.
StartTwice(m) ==
    /\ Request(m)
    /\ player' = [player EXCEPT ![m].status = "STARTED", ![m].native = "started",
                                ![m].event = "none", ![m].wifi = @ + 2,
                                ![m].registered = TRUE]
    /\ UNCHANGED shown

\* onPrepared() and start(): a refused focus is only logged.
Start(m) ==
    IF player[m].native \notin {"prepared", "paused", "completed", "started"}
    THEN Crash
    ELSE /\ Request(m)
         /\ player' = [player EXCEPT ![m].status = "STARTED", ![m].native = "started",
                                     ![m].event = "none", ![m].wifi = @ + 1,
                                     ![m].registered = TRUE]
         /\ UNCHANGED shown

\* Mutant: pause() keeps the focus.
PauseKeeps(q) ==
    /\ IF player["net"].status = "STARTED"
       THEN player' = [player EXCEPT !["net"].status = "PAUSED", !["net"].native = "paused",
                                     !["net"].wifi = Released(@)]
       ELSE UNCHANGED player
    /\ queue' = q
    /\ UNCHANGED <<owner, shown>>

\* pause() of the net player; what has just ended by itself stays completed.
Pause(q) ==
    LET r == player["net"]
    IN  IF r.status # "STARTED" THEN queue' = q /\ UNCHANGED <<player, owner, shown>>
        ELSE IF r.native = "failed" THEN Crash
        ELSE /\ player' = [player EXCEPT
                  !["net"].status = "PAUSED",
                  !["net"].native = IF @ = "started" THEN "paused" ELSE @,
                  !["net"].wifi = Released(@),
                  !["net"].registered = FALSE]
             /\ Abandon({"net"})
             /\ queue' = q
             /\ UNCHANGED shown

\* onError(): release(), and the list is told; the current item stays.
Release(m) ==
    /\ player' = [player EXCEPT ![m] = Unused(@.cur)]
    /\ Abandon({m})
    /\ shown' = IF m = "net" THEN shown \ {player[m].cur} ELSE shown
    /\ queue' = Dropped(m)

\* onCompletion() of ManagedMediaPlayer, of the manager and of the list.
Completed(m) ==
    /\ player' = [player EXCEPT ![m].status = "COMPLETED", ![m].event = "none"]
    /\ shown' = IF m = "net" THEN shown \ {player[m].cur} ELSE shown
    /\ UNCHANGED <<owner, queue>>

-----------------------------------------------------------------------------
(* The UI thread                                                             *)

\* onItemClick() of the list, play() of the recording.
ClickPlay ==
    \/ \E i \in Items : Play("net", i)
    \/ \E i \in Items : Play("local", i)

\* onPageSelected() stops the voices, record() and reset() the recording.
ClickStop(m) ==
    /\ Stop(m, {}, queue)
    /\ UNCHANGED <<call, plays>>

\* onAudioFocusChange() of the focus manager of m.  A gain and a request to
\* duck call getMediaPlayer().setVolume(), and getMediaPlayer() is always null;
\* what a gain has resumed before that is lost with the process.
OnAudioFocusChange(m, what, q) ==
    CASE what = "LOSS"           -> Stop("net", {m}, q)
      [] what = "LOSS_TRANSIENT" -> Pause(q)
      [] what \in {"GAIN", "LOSS_TRANSIENT_CAN_DUCK"} -> Crash

\* What the looper hands the UI thread: an event of a player ...
HandleEvent(m) ==
    /\ \/ player[m].event = "prepared" /\ Start(m)
       \/ player[m].event = "completed" /\ Completed(m)
       \/ player[m].event = "error" /\ Release(m)
    /\ UNCHANGED <<call, plays>>

\* ... or a focus message; one whose listener has abandoned the focus, or is
\* gone, is dropped.
Listens(m) == m # none /\ player[m].registered

HandleFocus ==
    /\ queue # <<>>
    /\ LET msg == Head(queue)
       IN  IF Listens(msg.to)
           THEN OnAudioFocusChange(msg.to, msg.what, Tail(queue))
           ELSE queue' = Tail(queue) /\ UNCHANGED <<player, owner, shown>>
    /\ UNCHANGED <<call, plays>>

-----------------------------------------------------------------------------
(* The platform                                                              *)

\* The platform's player of m goes on: from, to and the event it posts.
NativeSteps == {<<"preparing", "prepared", "prepared">>, <<"preparing", "failed", "error">>,
                <<"started", "completed", "completed">>, <<"started", "failed", "error">>}

NativeStep(m) ==
    /\ \E s \in NativeSteps :
          /\ player[m].native = s[1]
          /\ player' = [player EXCEPT ![m].native = s[2], ![m].event = s[3]]
    /\ UNCHANGED <<owner, call, shown, queue, plays>>

\* The system tells the owner of the focus, if it is one of the two.
TellOwner(what) ==
    queue' = IF owner = none THEN queue ELSE Append(queue, [to |-> owner, what |-> what])

CallBegins ==
    /\ ~call /\ Len(queue) < MaxQueue
    /\ call' = TRUE
    /\ TellOwner("LOSS_TRANSIENT")
    /\ UNCHANGED <<player, owner, shown, plays>>

CallEnds ==
    /\ call
    /\ call' = FALSE
    /\ TellOwner("GAIN")
    /\ UNCHANGED <<player, owner, shown, plays>>

\* A notification sound; when it is over the owner would gain the focus again.
Notification ==
    /\ ~call /\ owner # none /\ Len(queue) < MaxQueue
    /\ TellOwner("LOSS_TRANSIENT_CAN_DUCK")
    /\ UNCHANGED <<player, owner, call, shown, plays>>

\* Another application takes the focus for good.
OtherApplication ==
    /\ ~call /\ owner # none /\ Len(queue) < MaxQueue
    /\ TellOwner("LOSS")
    /\ owner' = none
    /\ UNCHANGED <<player, call, shown, plays>>

Next ==
    \/ ClickPlay
    \/ \E m \in Managers : ClickStop(m)
    \/ \E m \in Managers : HandleEvent(m)
    \/ HandleFocus
    \/ \E m \in Managers : NativeStep(m)
    \/ CallBegins \/ CallEnds \/ Notification \/ OtherApplication

Spec == Init /\ [][Next]_vars

\* The looper hands out what has come, and a call ends some time.
FairSpec ==
    /\ Spec
    /\ \A m \in Managers : WF_vars(HandleEvent(m))
    /\ WF_vars(HandleFocus) /\ WF_vars(CallEnds)

-----------------------------------------------------------------------------
(* Properties                                                                *)

Natives == {"idle", "preparing", "prepared", "started", "paused", "stopped",
            "completed", "failed"}

TypeOK ==
    /\ player \in [Managers -> [status: Statuses, native: Natives,
                                event: {"none", "prepared", "completed", "error"},
                                cur: Items \cup {none}, wifi: 0 .. MaxPlays,
                                registered: BOOLEAN]]
    /\ owner \in Managers \cup {none}
    /\ call \in BOOLEAN
    /\ shown \subseteq Items
    /\ queue \in Seq([to: Managers \cup {none},
                     what: {"GAIN", "LOSS", "LOSS_TRANSIENT", "LOSS_TRANSIENT_CAN_DUCK"}])
    /\ plays \in 0 .. MaxPlays

\* The list marks the voice that sounds, and no other than the current one
\* (isPlay of currentMusicEntity, through every callback and both clicks).
ShownIsCurrent ==
    /\ shown \subseteq {player["net"].cur}
    /\ player["net"].native = "started" => player["net"].cur \in shown

\* A player that sounds has its wifi lock, however often it was restarted;
\* one that is paused, stopped or released has given the audio focus back.
ResourcesFollow ==
    \A m \in Managers :
        /\ player[m].native = "started" => player[m].wifi > 0
        /\ player[m].status \in {"PAUSED", "STOPPED", "null"} => owner # m

\* A voice that was paused for a call does not stay paused for ever ("the call
\* is over, playing goes on": onAudioFocusChange).
CallResumes == player["net"].status = "PAUSED" ~> player["net"].status # "PAUSED"

=============================================================================
