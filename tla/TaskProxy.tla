------------------------------ MODULE TaskProxy ------------------------------
(***************************************************************************)
(* The asynchronous task of org.core (jar/src/main/java/org/core/common/   *)
(* task): AbsTask, its TaskProxy, the PriorityExecutor that runs it and    *)
(* the main-thread Handler that delivers its callbacks.                    *)
(*                                                                         *)
(* Three kinds of thread touch a task.  The thread that starts it and then *)
(* the pool thread that runs it form one line of control, wpc[t].  Any     *)
(* number of threads may call cancel() on the task or on its proxy; each   *)
(* is a canceller with its own cpc[c].  The UI thread takes the messages   *)
(* of uiQueue in order and runs the task's callbacks.  One step reads or   *)
(* writes the shared fields once, so every interleaving of the three is    *)
(* explored.                                                               *)
(***************************************************************************)
EXTENDS Naturals, Sequences, FiniteSets

CONSTANTS Tasks,       \* the tasks handed to TaskController.start, each once
          CancelFast,  \* the tasks whose isCancelFast() answers true
          Throwers,    \* the tasks whose callbacks may throw on the UI thread
          Cancellers,  \* the threads that call cancel()
          PoolSize,    \* CORE_POOL_SIZE of the executor
          Rank,        \* Rank[t]: ordinal of the task's Priority
          MaxUpdates   \* bound: progress updates one task sends

ASSUME TasksAssumption ==
    /\ CancelFast \subseteq Tasks
    /\ Throwers \subseteq Tasks
    /\ PoolSize \in Nat \ {0}
    /\ Rank \in [Tasks -> Nat]
    /\ MaxUpdates \in Nat

State == {"IDLE", "WAITING", "STARTED", "SUCCESS", "CANCELLED", "ERROR"}

Outcome == {"SUCCESS", "ERROR", "CANCEL"}

What == Outcome \cup {"WAITING", "START", "UPDATE", "FINISHED"}

\* CALLBACK_ERROR is onError(ex, true): a callback itself threw.
Callbacks == What \cup {"CALLBACK_ERROR"}

Message == [task : Tasks, what : What]

VARIABLES state,     \* state[t]: the State, kept equal in task and proxy
          flag,      \* flag[t].task, flag[t].proxy: the two isCancelled fields
          wpc,       \* wpc[t]: where the starting, then the pool thread stands
          out,       \* out[t]: which of the three outcomes run() takes
          updates,   \* updates[t]: progress updates sent so far
          workers,   \* pool threads created so far
          pool,      \* the executor's queue, in order of submission (SEQ)
          uiQueue,   \* the messages of sHandler
          called,    \* called[t][w]: how often callback w of t has run
          cpc        \* cpc[c]: the cancel() frame of a canceller

vars == <<state, flag, wpc, out, updates, workers, pool, uiQueue, called, cpc>>

Idle == [at |-> "idle"]

Frame == [at : {"enter", "nest", "read", "set", "postCancel", "postFinished"},
          on : {"task", "proxy"}, task : Tasks, nested : BOOLEAN]

Before == {"new", "postWaiting", "submit", "queued", "check1", "start"}

RunPc == Before \cup {"postStart", "check2", "work", "check3", "set", "post",
                      "finish", "done"}

\* The pool thread is inside PriorityRunnable.run().
Running(t) == wpc[t] \notin {"new", "postWaiting", "submit", "queued", "done"}

\* Mutant: the handler is given the message in front of the others.
PostInFront(t, w) == uiQueue' = <<[task |-> t, what |-> w]>> \o uiQueue

Post(t, w) == uiQueue' = Append(uiQueue, [task |-> t, what |-> w])

TaskIsCancelled(t) == flag[t].task \/ state[t] = "CANCELLED"

IsCancelled(t) == flag[t].proxy \/ TaskIsCancelled(t)

Init ==
    /\ state = [t \in Tasks |-> "IDLE"]
    /\ flag = [t \in Tasks |-> [task |-> FALSE, proxy |-> FALSE]]
    /\ wpc = [t \in Tasks |-> "new"]
    /\ out = [t \in Tasks |-> "CANCEL"]
    /\ updates = [t \in Tasks |-> 0]
    /\ workers = 0
    /\ pool = <<>>
    /\ uiQueue = <<>>
    /\ called = [t \in Tasks |-> [w \in Callbacks |-> 0]]
    /\ cpc = [c \in Cancellers |-> Idle]

-----------------------------------------------------------------------------
(* The starting thread: TaskProxy.doBackground, then the executor.         *)

Goto(t, from, to) ==
    /\ wpc[t] = from
    /\ wpc' = [wpc EXCEPT ![t] = to]

SetState(t, s) == state' = [state EXCEPT ![t] = s]

SetWaiting(t) ==
    /\ Goto(t, "new", "postWaiting")
    /\ SetState(t, "WAITING")
    /\ UNCHANGED <<flag, out, updates, workers, pool, uiQueue, called, cpc>>

PostWaiting(t) ==
    /\ Goto(t, "postWaiting", "submit")
    /\ Post(t, "WAITING")
    /\ UNCHANGED <<state, flag, out, updates, workers, pool, called, cpc>>

\* ThreadPoolExecutor starts a thread for the task while it has fewer than
\* its core size, and queues the task otherwise (the queue never refuses).
Execute(t) ==
    /\ IF workers < PoolSize
       THEN /\ Goto(t, "submit", "check1")
            /\ workers' = workers + 1
            /\ UNCHANGED pool
       ELSE /\ Goto(t, "submit", "queued")
            /\ pool' = Append(pool, t)
            /\ UNCHANGED workers
    /\ UNCHANGED <<state, flag, out, updates, uiQueue, called, cpc>>

\* FIFO_CMP: the smaller priority ordinal first, then the older SEQ.
IsNext(i) ==
    \A j \in DOMAIN pool \ {i} :
        \/ Rank[pool[i]] < Rank[pool[j]]
        \/ Rank[pool[i]] = Rank[pool[j]] /\ i < j

\* Mutant: the thread of the pool that became free is not counted.
TakeFromPoolShort(t) ==
    /\ Cardinality({u \in Tasks : Running(u)}) + 1 < workers
    /\ Goto(t, "queued", "check1")
    /\ pool' = SelectSeq(pool, LAMBDA u : u # t)
    /\ UNCHANGED <<state, flag, out, updates, workers, uiQueue, called, cpc>>

TakeFromPool(t) ==
    /\ Cardinality({u \in Tasks : Running(u)}) < workers
    /\ \E i \in DOMAIN pool :
           /\ pool[i] = t
           /\ IsNext(i)
           /\ pool' = SubSeq(pool, 1, i - 1) \o SubSeq(pool, i + 1, Len(pool))
    /\ Goto(t, "queued", "check1")
    /\ UNCHANGED <<state, flag, out, updates, workers, uiQueue, called, cpc>>

-----------------------------------------------------------------------------
(* The pool thread: the run() of TaskProxy.doBackground.                   *)

\* Go on to next unless the task is cancelled; then run() throws
\* CancelledException and takes the cancelled outcome.
CheckCancelled(t, at, next) ==
    /\ IF IsCancelled(t) \/ (at = "check1" /\ called[t]["CANCEL"] > 0)
       THEN /\ Goto(t, at, "set")
            /\ out' = [out EXCEPT ![t] = "CANCEL"]
       ELSE /\ Goto(t, at, next)
            /\ out' = [out EXCEPT ![t] = IF next = "set" THEN "SUCCESS" ELSE @]
    /\ UNCHANGED <<state, flag, updates, workers, pool, uiQueue, called, cpc>>

\* Mutants: run() goes on without looking at the cancellation.
Check2Dropped(t) ==
    /\ Goto(t, "check2", "work")
    /\ UNCHANGED <<state, flag, out, updates, workers, pool, uiQueue, called, cpc>>

Check3Dropped(t) ==
    /\ Goto(t, "check3", "set")
    /\ out' = [out EXCEPT ![t] = "SUCCESS"]
    /\ UNCHANGED <<state, flag, updates, workers, pool, uiQueue, called, cpc>>

Check1(t) == CheckCancelled(t, "check1", "start")
Check2(t) == CheckCancelled(t, "check2", "work")
Check3(t) == CheckCancelled(t, "check3", "set")

SetStarted(t) ==
    /\ Goto(t, "start", "postStart")
    /\ SetState(t, "STARTED")
    /\ UNCHANGED <<flag, out, updates, workers, pool, uiQueue, called, cpc>>

PostStart(t) ==
    /\ Goto(t, "postStart", "check2")
    /\ Post(t, "START")
    /\ UNCHANGED <<state, flag, out, updates, workers, pool, called, cpc>>

\* task.doBackground() sends an update, returns, throws CancelledException
\* or throws anything else.
Update(t) ==
    /\ wpc[t] = "work"
    /\ updates[t] < MaxUpdates
    /\ updates' = [updates EXCEPT ![t] = @ + 1]
    /\ Post(t, "UPDATE")
    /\ UNCHANGED <<state, flag, wpc, out, workers, pool, called, cpc>>

WorkReturns(t) ==
    /\ Goto(t, "work", "check3")
    /\ UNCHANGED <<state, flag, out, updates, workers, pool, uiQueue, called, cpc>>

WorkThrows(t) ==
    /\ Goto(t, "work", "set")
    /\ \E o \in {"CANCEL", "ERROR"} : out' = [out EXCEPT ![t] = o]
    /\ UNCHANGED <<state, flag, updates, workers, pool, uiQueue, called, cpc>>

\* Mutant: the outcome itself is stored as the state.
SetOutcomeUnmapped(t) ==
    /\ Goto(t, "set", "post")
    /\ SetState(t, out[t])
    /\ UNCHANGED <<flag, out, updates, workers, pool, uiQueue, called, cpc>>

SetOutcome(t) ==
    /\ Goto(t, "set", "post")
    /\ SetState(t, IF out[t] = "CANCEL" THEN "CANCELLED" ELSE out[t])
    /\ UNCHANGED <<flag, out, updates, workers, pool, uiQueue, called, cpc>>

PostOutcome(t) ==
    /\ Goto(t, "post", "finish")
    /\ Post(t, out[t])
    /\ UNCHANGED <<state, flag, out, updates, workers, pool, called, cpc>>

PostFinished(t) ==
    /\ Goto(t, "finish", "done")
    /\ Post(t, "FINISHED")
    /\ UNCHANGED <<state, flag, out, updates, workers, pool, called, cpc>>

\* The task's line of control, once it has been started, up to its end.
RunStep(t) ==
    /\ wpc[t] \notin {"new", "done"}
    /\ \/ PostWaiting(t) \/ Execute(t) \/ TakeFromPool(t)
       \/ Check1(t) \/ SetStarted(t) \/ PostStart(t) \/ Check2(t)
       \/ WorkReturns(t) \/ WorkThrows(t) \/ Check3(t)
       \/ SetOutcome(t) \/ PostOutcome(t) \/ PostFinished(t)

-----------------------------------------------------------------------------
(* A canceller inside AbsTask.cancel() of the task or of its proxy.  The   *)
(* method is synchronized: a frame past "enter" holds the monitor of the   *)
(* object it cancels, and a nested task frame its proxy's as well.         *)

In(c, t, o) == cpc[c] # Idle /\ cpc[c].task = t /\ cpc[c].on = o

Holds(c, t, o) ==
    \/ In(c, t, o) /\ cpc[c].at # "enter"
    \/ o = "proxy" /\ In(c, t, "task") /\ cpc[c].nested

Move(c, at) == cpc' = [cpc EXCEPT ![c].at = at]

Return(c) ==
    cpc' = [cpc EXCEPT ![c] =
               IF @.nested
               THEN [at |-> "read", on |-> "proxy", task |-> @.task, nested |-> FALSE]
               ELSE Idle]

CallCancel(c, t, o) ==
    /\ cpc[c] = Idle
    /\ ~flag[t][o]
    /\ cpc' = [cpc EXCEPT ![c] =
                  [at |-> "enter", on |-> o, task |-> t, nested |-> FALSE]]
    /\ UNCHANGED <<state, flag, wpc, out, updates, workers, pool, uiQueue, called>>

EnterCancel(c) ==
    /\ cpc[c] # Idle
    /\ cpc[c].at = "enter"
    /\ LET t == cpc[c].task
           o == cpc[c].on
       IN /\ \A d \in Cancellers \ {c} : ~Holds(d, t, o)
          /\ IF flag[t][o]
             THEN /\ Return(c)
                  /\ UNCHANGED flag
             ELSE /\ flag' = [flag EXCEPT ![t][o] = TRUE]
                  /\ Move(c, IF o = "proxy" THEN "nest" ELSE "read")
    /\ UNCHANGED <<state, wpc, out, updates, workers, pool, uiQueue, called>>

\* The proxy's cancelHandler is the task.
CancelHandler(c) ==
    /\ cpc[c] # Idle
    /\ cpc[c].at = "nest"
    /\ IF TaskIsCancelled(cpc[c].task)
       THEN Move(c, "read")
       ELSE cpc' = [cpc EXCEPT ![c] =
                       [at |-> "enter", on |-> "task", task |-> @.task, nested |-> TRUE]]
    /\ UNCHANGED <<state, flag, wpc, out, updates, workers, pool, uiQueue, called>>

\* isCancelFast() of the proxy is the inherited one, false.
ReadState(c) ==
    /\ cpc[c] # Idle
    /\ cpc[c].at = "read"
    /\ LET t == cpc[c].task
       IN IF \/ state[t] = "WAITING"
             \/ state[t] = "STARTED" /\ cpc[c].on = "task" /\ t \in CancelFast
          THEN Move(c, "set")
          ELSE Return(c)
    /\ UNCHANGED <<state, flag, wpc, out, updates, workers, pool, uiQueue, called>>

SetCancelled(c) ==
    /\ cpc[c] # Idle
    /\ cpc[c].at = "set"
    /\ SetState(cpc[c].task, "CANCELLED")
    /\ Move(c, "postCancel")
    /\ UNCHANGED <<flag, wpc, out, updates, workers, pool, uiQueue, called>>

PostCancel(c) ==
    /\ cpc[c] # Idle
    /\ cpc[c].at = "postCancel"
    /\ Post(cpc[c].task, "CANCEL")
    /\ Move(c, "postFinished")
    /\ UNCHANGED <<state, flag, wpc, out, updates, workers, pool, called>>

PostCancelFinished(c) ==
    /\ cpc[c] # Idle
    /\ cpc[c].at = "postFinished"
    /\ Post(cpc[c].task, "FINISHED")
    /\ Return(c)
    /\ UNCHANGED <<state, flag, wpc, out, updates, workers, pool, called>>

CancelStep(c) ==
    \/ EnterCancel(c) \/ CancelHandler(c) \/ ReadState(c)
    \/ SetCancelled(c) \/ PostCancel(c) \/ PostCancelFinished(c)

-----------------------------------------------------------------------------
(* The UI thread: InternalHandler.handleMessage.                           *)

\* Mutant: callOnCanceled is not looked at.
DroppedFinishedOnly(m) == m.what = "FINISHED" /\ called[m.task][m.what] > 0

\* callOnCanceled and callOnFinished: the second such message is dropped.
Dropped(m) == m.what \in {"CANCEL", "FINISHED"} /\ called[m.task][m.what] > 0

\* A throwing callback is followed by onError(ex, true), unless it was onError.
Ran(m, throws) ==
    IF throws /\ m.what # "ERROR" THEN {m.what, "CALLBACK_ERROR"} ELSE {m.what}

HandleMessage ==
    /\ uiQueue # <<>>
    /\ uiQueue' = Tail(uiQueue)
    /\ LET m == Head(uiQueue)
       IN IF Dropped(m)
          THEN UNCHANGED <<state, called>>
          ELSE \E throws \in IF m.task \in Throwers THEN BOOLEAN ELSE {FALSE} :
                 /\ called' = [called EXCEPT ![m.task] =
                                  [w \in Callbacks |-> IF w \in Ran(m, throws)
                                                       THEN @[w] + 1
                                                       ELSE @[w]]]
                 /\ IF throws THEN SetState(m.task, "ERROR") ELSE UNCHANGED state
    /\ UNCHANGED <<flag, wpc, out, updates, workers, pool, cpc>>

-----------------------------------------------------------------------------
Next ==
    \/ \E t \in Tasks : SetWaiting(t) \/ RunStep(t) \/ Update(t)
    \/ \E c \in Cancellers : CancelStep(c)
    \/ \E c \in Cancellers, t \in Tasks, o \in {"task", "proxy"} : CallCancel(c, t, o)
    \/ HandleMessage

Spec == Init /\ [][Next]_vars

-----------------------------------------------------------------------------
\* Every variable keeps its type.
TypeOK ==
    /\ state \in [Tasks -> State]
    /\ flag \in [Tasks -> [task : BOOLEAN, proxy : BOOLEAN]]
    /\ wpc \in [Tasks -> RunPc]
    /\ out \in [Tasks -> Outcome]
    /\ updates \in [Tasks -> Nat]
    /\ workers \in Nat
    /\ pool \in Seq(Tasks)
    /\ uiQueue \in Seq(Message)
    /\ called \in [Tasks -> [Callbacks -> Nat]]
    /\ cpc \in [Cancellers -> Frame \cup {Idle}]

\* onFinished never runs before the task was told how it ended: one of
\* onSuccess, onError, onCancelled has run (TaskProxy.run and AbsTask.cancel
\* both post the outcome before FINISHED, and duplicates are dropped).
OutcomeBeforeFinished ==
    \A t \in Tasks :
        called[t]["FINISHED"] > 0 => \E w \in Outcome : called[t][w] > 0

\* A task that is not cancel-fast reports at most one outcome, however
\* cancel() races with the pool thread: the two checks of run() see every
\* cancellation that was announced while the task was waiting.
ExclusiveOutcome ==
    \A t \in Tasks \ CancelFast : \A v, w \in Outcome :
        called[t][v] > 0 /\ called[t][w] > 0 => v = w

\* Callback w of t has run or is on its way.
Told(t, w) ==
    \/ called[t][w] > 0
    \/ \E i \in 1 .. Len(uiQueue) : uiQueue[i].task = t /\ uiQueue[i].what = w

\* A canceller has decided to report the cancellation of t, or someone did.
Announced(t) ==
    \/ Told(t, "CANCEL")
    \/ \E c \in Cancellers :
          /\ cpc[c] # Idle
          /\ cpc[c].task = t
          /\ cpc[c].at \in {"set", "postCancel", "postFinished"}

\* The inductive invariant behind ExclusiveOutcome.  A frame past "enter" has
\* its flag up; the state is WAITING only until run() sets STARTED or gives up; so what a
\* canceller announces run() still has to check, or has already honoured.
CancelInv ==
    /\ \A c \in Cancellers :
          cpc[c] # Idle =>
            /\ cpc[c].at = "nest" => cpc[c].on = "proxy"
            /\ cpc[c].at # "enter" => flag[cpc[c].task][cpc[c].on]
            /\ cpc[c].nested => flag[cpc[c].task].proxy
    /\ \A t \in Tasks :
          state[t] = "WAITING" =>
            \/ wpc[t] \in Before
            \/ wpc[t] = "set" /\ out[t] = "CANCEL"
    /\ \A t \in Tasks, w \in {"SUCCESS", "ERROR"} :
          Told(t, w) => wpc[t] \in {"finish", "done"} /\ out[t] = w
    /\ \A t \in Tasks \ CancelFast :
          Announced(t) =>
            \/ /\ flag[t].task \/ flag[t].proxy
               /\ wpc[t] \in Before \cup {"postStart", "check2"}
            \/ wpc[t] \in {"set", "post", "finish", "done"} /\ out[t] = "CANCEL"

\* The outcome of t has been delivered or is among the first n messages.
OutcomeWithin(t, n) ==
    \/ \E w \in Outcome : called[t][w] > 0
    \/ \E i \in 1 .. n : uiQueue[i].task = t /\ uiQueue[i].what \in Outcome

\* The inductive invariant behind OutcomeBeforeFinished: the order in which
\* both threads post, and the order of the queue.
FinishInv ==
    /\ OutcomeBeforeFinished
    /\ \A i \in 1 .. Len(uiQueue) :
          uiQueue[i].what = "FINISHED" => OutcomeWithin(uiQueue[i].task, i - 1)
    /\ \A t \in Tasks : wpc[t] = "finish" => OutcomeWithin(t, Len(uiQueue))
    /\ \A c \in Cancellers :
          (cpc[c] # Idle /\ cpc[c].at = "postFinished") =>
              OutcomeWithin(cpc[c].task, Len(uiQueue))

\* After onFinished, a task that is not cancel-fast gets no outcome and no
\* progress update any more (a late onStarted is possible).
NothingAfterFinished ==
    [][\A t \in Tasks \ CancelFast :
          called[t]["FINISHED"] > 0 =>
              \A w \in Outcome \cup {"UPDATE"} : called'[t][w] = called[t][w]]_called

\* A cancel() that sets its flag before doBackground returns wins: onSuccess
\* is never called, for cancel-fast tasks either (TaskProxy's third check).
CancelBeatsSuccess ==
    \A t \in Tasks :
        [](/\ flag[t].task \/ flag[t].proxy
           /\ wpc[t] \in Before \cup {"postStart", "check2", "work"}
           => [](called[t]["SUCCESS"] = 0))

\* The callbacks of a task come in the order the listener is promised: every
\* step is one of TaskCallbacks, or none that the listener hears.
Listener == INSTANCE TaskCallbacks WITH heard <- called

ImplementsCallbacks == Listener!Spec

\* Every started task is eventually told onFinished, exactly once.
EventuallyFinished ==
    \A t \in Tasks : (wpc[t] # "new") ~> [](called[t]["FINISHED"] = 1)
=============================================================================
