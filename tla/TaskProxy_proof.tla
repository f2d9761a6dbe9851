--------------------------- MODULE TaskProxy_proof ---------------------------
(***************************************************************************)
(* Proofs about TaskProxy for every set of tasks, cancellers and pool size,*)
(* and about TaskGroup for every finite set of tasks.                      *)
(***************************************************************************)
EXTENDS TaskGroup, FiniteSetTheorems, SequenceTheorems, TLAPS

\* Removing one element of a sequence leaves a sequence over the same set.
LEMMA RemoveElement ==
    ASSUME NEW S, NEW s \in Seq(S), NEW i \in DOMAIN s
    PROVE  SubSeq(s, 1, i - 1) \o SubSeq(s, i + 1, Len(s)) \in Seq(S)
<1>1. i \in 1 .. Len(s)
  OBVIOUS
<1>2. SubSeq(s, 1, i - 1) \in Seq(S)
  BY <1>1
<1>3. SubSeq(s, i + 1, Len(s)) \in Seq(S)
  BY <1>1
<1>4. QED
  BY <1>2, <1>3

\* A posted message joins the end of the queue and leaves the rest in place.
LEMMA PostAppends ==
    ASSUME uiQueue \in Seq(Message), NEW t \in Tasks, NEW w \in What, Post(t, w)
    PROVE  /\ uiQueue' \in Seq(Message)
           /\ Len(uiQueue') = Len(uiQueue) + 1
           /\ \A i \in 1 .. Len(uiQueue) : uiQueue'[i] = uiQueue[i]
           /\ uiQueue'[Len(uiQueue) + 1] = [task |-> t, what |-> w]
BY DEF Post, Message

\* Moving the line of control of a task, or its state, keeps their types.
LEMMA GotoType ==
    ASSUME wpc \in [Tasks -> RunPc], NEW t \in Tasks, NEW from, NEW to \in RunPc,
           Goto(t, from, to)
    PROVE  wpc' \in [Tasks -> RunPc]
BY DEF Goto

LEMMA SetStateType ==
    ASSUME state \in [Tasks -> State], NEW t \in Tasks, NEW s \in State, SetState(t, s)
    PROVE  state' \in [Tasks -> State]
BY DEF SetState

\* A canceller's frame stays a frame when it moves on or returns.
LEMMA FrameTypes ==
    ASSUME cpc \in [Cancellers -> Frame \cup {Idle}], NEW c \in Cancellers, cpc[c] # Idle
    PROVE  /\ cpc[c] \in Frame
           /\ \A at \in {"nest", "read", "set", "postCancel", "postFinished"} :
                  Move(c, at) => cpc' \in [Cancellers -> Frame \cup {Idle}]
           /\ Return(c) => cpc' \in [Cancellers -> Frame \cup {Idle}]
<1>1. cpc[c] \in Frame
  OBVIOUS
<1>2. ASSUME NEW at \in {"nest", "read", "set", "postCancel", "postFinished"}, Move(c, at)
      PROVE  cpc' \in [Cancellers -> Frame \cup {Idle}]
  <2>1. [cpc[c] EXCEPT !.at = at] \in Frame
    BY <1>1 DEF Frame
  <2>2. QED
    BY <2>1, <1>2 DEF Move
<1>3. ASSUME Return(c)
      PROVE  cpc' \in [Cancellers -> Frame \cup {Idle}]
  <2>1. [at |-> "read", on |-> "proxy", task |-> cpc[c].task, nested |-> FALSE] \in Frame
    BY <1>1 DEF Frame
  <2>2. QED
    BY <2>1, <1>3 DEF Return
<1>4. QED
  BY <1>1, <1>2, <1>3

\* Setting a cancelled flag and executing a task keep types.
LEMMA FlagType ==
    ASSUME NEW f \in [Tasks -> [task : BOOLEAN, proxy : BOOLEAN]], NEW t \in Tasks,
           NEW o \in {"task", "proxy"}
    PROVE  [f EXCEPT ![t][o] = TRUE] \in [Tasks -> [task : BOOLEAN, proxy : BOOLEAN]]
<1>1. [f[t] EXCEPT ![o] = TRUE] \in [task : BOOLEAN, proxy : BOOLEAN]
  <2>1. f[t] \in [task : BOOLEAN, proxy : BOOLEAN]
    OBVIOUS
  <2>2. CASE o = "task"
    BY <2>1, <2>2
  <2>3. CASE o = "proxy"
    BY <2>1, <2>3
  <2> QED
    BY <2>2, <2>3
<1> QED
  BY <1>1

LEMMA ExecuteTypes ==
    ASSUME pool \in Seq(Tasks), workers \in Nat, NEW t \in Tasks, Execute(t)
    PROVE  pool' \in Seq(Tasks) /\ workers' \in Nat
BY DEF Execute, Goto

\* Every step keeps the types.
LEMMA TypeStep ==
    ASSUME TypeOK, [Next]_vars
    PROVE  TypeOK'
<1> USE DEF TypeOK
<1>pc. \A t \in Tasks : \A from, to : Goto(t, from, to) /\ to \in RunPc => wpc' \in [Tasks -> RunPc]
  BY GotoType
<1>st. \A t \in Tasks : \A s : SetState(t, s) /\ s \in State => state' \in [Tasks -> State]
  BY SetStateType
<1>po. \A t \in Tasks : \A w : Post(t, w) /\ w \in What => uiQueue' \in Seq(Message)
  BY PostAppends
<1>1. ASSUME NEW t \in Tasks, SetWaiting(t)
      PROVE  TypeOK'
  BY <1>1, <1>pc, <1>st DEF SetWaiting, RunPc, Before, State
<1>2. ASSUME NEW t \in Tasks, PostWaiting(t)
      PROVE  TypeOK'
  BY <1>2, <1>pc, <1>po DEF PostWaiting, What, RunPc, Before
<1>3. ASSUME NEW t \in Tasks, Execute(t)
      PROVE  TypeOK'
  <2>1. wpc' \in [Tasks -> RunPc]
    <3>1. Goto(t, "submit", "check1") \/ Goto(t, "submit", "queued")
      BY <1>3 DEF Execute
    <3>2. QED
      BY <3>1, <1>pc DEF RunPc, Before
  <2>2. pool' \in Seq(Tasks) /\ workers' \in Nat
    BY <1>3, ExecuteTypes
  <2>3. QED
    BY <1>3, <2>1, <2>2 DEF Execute
<1>4. ASSUME NEW t \in Tasks, TakeFromPool(t)
      PROVE  TypeOK'
  <2>1. wpc' \in [Tasks -> RunPc]
    BY <1>4, <1>pc DEF TakeFromPool, RunPc, Before
  <2>2. pool' \in Seq(Tasks)
    BY <1>4, RemoveElement DEF TakeFromPool
  <2>3. QED
    BY <1>4, <2>1, <2>2 DEF TakeFromPool
<1>5. ASSUME NEW t \in Tasks, NEW at, NEW next \in {"start", "work", "set"},
             CheckCancelled(t, at, next)
      PROVE  TypeOK'
  <2>1. wpc' \in [Tasks -> RunPc]
    BY <1>5, <1>pc DEF CheckCancelled, RunPc, Before
  <2>2. out' \in [Tasks -> Outcome]
    BY <1>5 DEF CheckCancelled, Outcome
  <2>3. QED
    BY <1>5, <2>1, <2>2 DEF CheckCancelled
<1>6. ASSUME NEW t \in Tasks, SetStarted(t)
      PROVE  TypeOK'
  BY <1>6, <1>pc, <1>st DEF SetStarted, RunPc, State
<1>7. ASSUME NEW t \in Tasks, SetOutcome(t)
      PROVE  TypeOK'
  <2>1. (IF out[t] = "CANCEL" THEN "CANCELLED" ELSE out[t]) \in State
    BY DEF Outcome, State
  <2>2. wpc' \in [Tasks -> RunPc] /\ state' \in [Tasks -> State]
    BY <1>7, <2>1, <1>pc, <1>st DEF SetOutcome, RunPc
  <2>3. QED
    BY <1>7, <2>2 DEF SetOutcome
<1>8. ASSUME NEW t \in Tasks, PostStart(t)
      PROVE  TypeOK'
  BY <1>8, <1>pc, <1>po DEF PostStart, RunPc, What
<1>9. ASSUME NEW t \in Tasks, PostOutcome(t)
      PROVE  TypeOK'
  BY <1>9, <1>pc, <1>po DEF PostOutcome, RunPc, What
<1>10. ASSUME NEW t \in Tasks, PostFinished(t)
       PROVE  TypeOK'
  BY <1>10, <1>pc, <1>po DEF PostFinished, RunPc, What
<1>11. ASSUME NEW t \in Tasks, Update(t)
       PROVE  TypeOK'
  BY <1>11, <1>po DEF Update, What
<1>12. ASSUME NEW t \in Tasks, WorkReturns(t)
       PROVE  TypeOK'
  BY <1>12, <1>pc DEF WorkReturns, RunPc
<1>13. ASSUME NEW t \in Tasks, WorkThrows(t)
       PROVE  TypeOK'
  <2>1. wpc' \in [Tasks -> RunPc]
    BY <1>13, <1>pc DEF WorkThrows, RunPc
  <2>2. out' \in [Tasks -> Outcome]
    BY <1>13 DEF WorkThrows, Outcome
  <2>3. QED
    BY <1>13, <2>1, <2>2 DEF WorkThrows
<1>14. ASSUME NEW c \in Cancellers, NEW t \in Tasks, NEW o \in {"task", "proxy"},
              CallCancel(c, t, o)
       PROVE  TypeOK'
  BY <1>14 DEF CallCancel, Frame
<1>15. ASSUME NEW c \in Cancellers, EnterCancel(c)
       PROVE  TypeOK'
  <2>1. cpc' \in [Cancellers -> Frame \cup {Idle}]
    <3>1. Return(c) \/ Move(c, "nest") \/ Move(c, "read")
      BY <1>15 DEF EnterCancel
    <3>2. QED
      BY <3>1, <1>15, FrameTypes DEF EnterCancel
  <2>2. cpc[c].task \in Tasks /\ cpc[c].on \in {"task", "proxy"}
    BY <1>15, FrameTypes DEF EnterCancel, Frame
  <2>3. flag' \in [Tasks -> [task : BOOLEAN, proxy : BOOLEAN]]
    <3>1. \/ flag' = flag
          \/ flag' = [flag EXCEPT ![cpc[c].task][cpc[c].on] = TRUE]
      BY <1>15 DEF EnterCancel
    <3>2. [flag EXCEPT ![cpc[c].task][cpc[c].on] = TRUE]
              \in [Tasks -> [task : BOOLEAN, proxy : BOOLEAN]]
      BY <2>2, FlagType
    <3>3. QED
      BY <3>1, <3>2
  <2>4. QED
    BY <1>15, <2>1, <2>3 DEF EnterCancel
<1>16. ASSUME NEW c \in Cancellers, CancelHandler(c)
       PROVE  TypeOK'
  <2>1. cpc[c] \in Frame
    BY <1>16, FrameTypes DEF CancelHandler
  <2>2. [at |-> "enter", on |-> "task", task |-> cpc[c].task, nested |-> TRUE] \in Frame
    BY <2>1 DEF Frame
  <2>3. cpc' \in [Cancellers -> Frame \cup {Idle}]
    BY <1>16, <2>2, FrameTypes DEF CancelHandler
  <2>4. QED
    BY <1>16, <2>3 DEF CancelHandler
<1>17. ASSUME NEW c \in Cancellers, ReadState(c)
       PROVE  TypeOK'
  BY <1>17, FrameTypes DEF ReadState
<1>18. ASSUME NEW c \in Cancellers, SetCancelled(c)
       PROVE  TypeOK'
  <2>1. cpc[c].task \in Tasks
    BY <1>18, FrameTypes DEF SetCancelled, Frame
  <2>2. state' \in [Tasks -> State]
    BY <1>18, <2>1, <1>st DEF SetCancelled, State
  <2>3. cpc' \in [Cancellers -> Frame \cup {Idle}]
    BY <1>18, FrameTypes DEF SetCancelled
  <2>4. QED
    BY <1>18, <2>2, <2>3 DEF SetCancelled
<1>19. ASSUME NEW c \in Cancellers, PostCancel(c) \/ PostCancelFinished(c)
       PROVE  TypeOK'
  <2>1. cpc[c].task \in Tasks
    BY <1>19, FrameTypes DEF PostCancel, PostCancelFinished, Frame
  <2>2. uiQueue' \in Seq(Message)
    BY <1>19, <2>1, <1>po DEF PostCancel, PostCancelFinished, What, Outcome
  <2>3. cpc' \in [Cancellers -> Frame \cup {Idle}]
    BY <1>19, FrameTypes DEF PostCancel, PostCancelFinished
  <2>4. QED
    BY <1>19, <2>2, <2>3 DEF PostCancel, PostCancelFinished
<1>20. CASE HandleMessage
  <2>1. uiQueue' \in Seq(Message) /\ Head(uiQueue) \in Message
    BY <1>20 DEF HandleMessage
  <2>2. Head(uiQueue).task \in Tasks /\ Head(uiQueue).what \in Callbacks
    BY <2>1 DEF Message, Callbacks
  <2>3. called' \in [Tasks -> [Callbacks -> Nat]]
    <3>1. \/ called' = called
          \/ \E S : called' = [called EXCEPT ![Head(uiQueue).task] =
                     [w \in Callbacks |-> IF w \in S THEN @[w] + 1 ELSE @[w]]]
      BY <1>20 DEF HandleMessage
    <3>2. ASSUME NEW S, called' = [called EXCEPT ![Head(uiQueue).task] =
                     [w \in Callbacks |-> IF w \in S THEN @[w] + 1 ELSE @[w]]]
          PROVE  called' \in [Tasks -> [Callbacks -> Nat]]
      BY <3>2, <2>2
    <3>3. QED
      BY <3>1, <3>2
  <2>4. state' \in [Tasks -> State]
    BY <1>20, <2>2, <1>st DEF HandleMessage, State
  <2>5. QED
    BY <1>20, <2>1, <2>3, <2>4 DEF HandleMessage
<1>21. CASE UNCHANGED vars
  BY <1>21 DEF vars
<1>22. QED
  BY <1>1, <1>2, <1>3, <1>4, <1>5, <1>6, <1>7, <1>8, <1>9, <1>10, <1>11, <1>12,
     <1>13, <1>14, <1>15, <1>16, <1>17, <1>18, <1>19, <1>20, <1>21
  DEF Next, RunStep, CancelStep, Check1, Check2, Check3

\* Every reachable state is well typed (TypeOK of TaskProxy).
THEOREM TypeCorrect == Spec => []TypeOK
<1>1. Init => TypeOK
  BY DEF Init, TypeOK, State, RunPc, Before, Outcome, Callbacks, What, Idle
<1>2. QED
  BY <1>1, TypeStep, PTL DEF Spec
-----------------------------------------------------------------------------
\* OutcomeWithin in the next state.
OutcomeNext(t, n) ==
    \/ \E w \in Outcome : called'[t][w] > 0
    \/ \E i \in 1 .. n : uiQueue'[i].task = t /\ uiQueue'[i].what \in Outcome

\* What FinishInv asks of the next state.
LEMMA FinishNext ==
    ASSUME OutcomeBeforeFinished',
           \A i \in 1 .. Len(uiQueue') :
              uiQueue'[i].what = "FINISHED" => OutcomeNext(uiQueue'[i].task, i - 1),
           \A t \in Tasks : wpc'[t] = "finish" => OutcomeNext(t, Len(uiQueue')),
           \A c \in Cancellers :
              (cpc'[c] # Idle /\ cpc'[c].at = "postFinished") =>
                 OutcomeNext(cpc'[c].task, Len(uiQueue'))
    PROVE  FinishInv'
BY DEF FinishInv, OutcomeWithin, OutcomeNext, Idle

\* Posting a message loses no outcome, and an outcome posted is within the queue.
LEMMA PostKeepsOutcome ==
    ASSUME uiQueue \in Seq(Message), NEW t \in Tasks, NEW w \in What, Post(t, w),
           called' = called
    PROVE  /\ \A u \in Tasks, n \in 0 .. Len(uiQueue) :
                 OutcomeWithin(u, n) => OutcomeNext(u, n)
           /\ \A u \in Tasks :
                 OutcomeWithin(u, Len(uiQueue)) => OutcomeNext(u, Len(uiQueue'))
           /\ w \in Outcome => OutcomeNext(t, Len(uiQueue'))
<1>1. /\ Len(uiQueue') = Len(uiQueue) + 1
      /\ \A i \in 1 .. Len(uiQueue) : uiQueue'[i] = uiQueue[i]
      /\ uiQueue'[Len(uiQueue')] = [task |-> t, what |-> w]
      /\ Len(uiQueue) \in Nat
  BY PostAppends
<1>2. ASSUME NEW u \in Tasks, NEW n \in 0 .. Len(uiQueue), OutcomeWithin(u, n)
      PROVE  OutcomeNext(u, n)
  <2>1. CASE \E v \in Outcome : called[u][v] > 0
    BY <2>1 DEF OutcomeWithin, OutcomeNext
  <2>2. CASE \E i \in 1 .. n : uiQueue[i].task = u /\ uiQueue[i].what \in Outcome
    BY <2>2, <1>1 DEF OutcomeWithin, OutcomeNext
  <2>3. QED
    BY <1>2, <2>1, <2>2 DEF OutcomeWithin, OutcomeNext
<1>3. ASSUME NEW u \in Tasks, OutcomeWithin(u, Len(uiQueue))
      PROVE  OutcomeNext(u, Len(uiQueue'))
  <2>1. OutcomeWithin(u, Len(uiQueue)) => \/ \E v \in Outcome : called[u][v] > 0
                                          \/ \E i \in 1 .. Len(uiQueue) :
                                                uiQueue'[i].task = u /\ uiQueue'[i].what \in Outcome
    BY <1>1 DEF OutcomeWithin, OutcomeNext
  <2>2. 1 .. Len(uiQueue) \subseteq 1 .. Len(uiQueue')
    BY <1>1
  <2>3. QED
    BY <1>3, <2>1, <2>2 DEF OutcomeWithin, OutcomeNext
<1>4. ASSUME w \in Outcome
      PROVE  OutcomeNext(t, Len(uiQueue'))
  <2>1. Len(uiQueue') \in 1 .. Len(uiQueue')
    BY <1>1
  <2>2. QED
    BY <1>1, <1>4, <2>1 DEF OutcomeWithin, OutcomeNext
<1>5. QED
  BY <1>2, <1>3, <1>4

\* Handling a message shortens the queue but keeps its outcome as a call.
LEMMA HandleKeepsOutcome ==
    ASSUME TypeOK, HandleMessage
    PROVE  /\ \A t \in Tasks, w \in What : called[t][w] > 0 => called'[t][w] > 0
           /\ \A t \in Tasks, n \in 1 .. Len(uiQueue) :
                 OutcomeWithin(t, n) => OutcomeNext(t, n - 1)
           /\ Len(uiQueue') = Len(uiQueue) - 1
           /\ \A i \in 1 .. Len(uiQueue') : uiQueue'[i] = uiQueue[i + 1]
           /\ \A t \in Tasks, w \in What :
                 called'[t][w] > 0 =>
                    called[t][w] > 0 \/ (uiQueue[1].task = t /\ uiQueue[1].what = w)
           /\ called'[uiQueue[1].task][uiQueue[1].what] > 0
<1> DEFINE m == Head(uiQueue)
<1>1. /\ m \in Message
      /\ m = uiQueue[1]
      /\ Len(uiQueue) > 0
      /\ Len(uiQueue') = Len(uiQueue) - 1
      /\ \A i \in 1 .. Len(uiQueue') : uiQueue'[i] = uiQueue[i + 1]
  BY DEF TypeOK, HandleMessage
<1>2. m.task \in Tasks /\ m.what \in What
  BY <1>1 DEF Message
<1>3. /\ \A t \in Tasks, w \in What : called[t][w] > 0 => called'[t][w] > 0
      /\ called'[m.task][m.what] > 0
      /\ \A t \in Tasks, w \in What :
            called'[t][w] > 0 => called[t][w] > 0 \/ (m.task = t /\ m.what = w)
  <2>1. CASE Dropped(m)
    BY <2>1, <1>2 DEF HandleMessage, Dropped, TypeOK
  <2>2. CASE ~Dropped(m)
    <3>1. PICK b \in BOOLEAN :
              called' = [called EXCEPT ![m.task] =
                 [w \in Callbacks |-> IF w \in Ran(m, b) THEN @[w] + 1 ELSE @[w]]]
      BY <2>2 DEF HandleMessage
    <3>2. m.what \in Ran(m, b) /\ \A w \in What : w \in Ran(m, b) => w = m.what
      BY DEF Ran, What, Outcome
    <3>3. \A t \in Tasks, w \in Callbacks : called[t][w] \in Nat
      BY DEF TypeOK
    <3>4. \A t \in Tasks : called'[t] = IF t = m.task
              THEN [w \in Callbacks |-> IF w \in Ran(m, b) THEN called[t][w] + 1 ELSE called[t][w]]
              ELSE called[t]
      BY <3>1, <1>2 DEF TypeOK
    <3>5. What \subseteq Callbacks
      BY DEF Callbacks
    <3>6. ASSUME NEW t \in Tasks, NEW w \in What
          PROVE  /\ called'[t][w] \in {called[t][w], called[t][w] + 1}
                 /\ called[t][w] \in Nat
                 /\ t = m.task /\ w = m.what => called'[t][w] = called[t][w] + 1
                 /\ ~(t = m.task /\ w = m.what) => called'[t][w] = called[t][w]
      BY <3>2, <3>3, <3>4, <3>5
    <3>7. QED
      BY <3>6, <1>2
  <2>3. QED
    BY <2>1, <2>2
<1>4. ASSUME NEW t \in Tasks, NEW n \in 1 .. Len(uiQueue), OutcomeWithin(t, n)
      PROVE  OutcomeNext(t, n - 1)
  <2>1. CASE \E w \in Outcome : called[t][w] > 0
    BY <2>1, <1>3 DEF OutcomeWithin, OutcomeNext, What
  <2>2. CASE \E i \in 1 .. n : uiQueue[i].task = t /\ uiQueue[i].what \in Outcome
    <3>1. PICK i \in 1 .. n : uiQueue[i].task = t /\ uiQueue[i].what \in Outcome
      BY <2>2
    <3>2. CASE i = 1
      BY <3>1, <3>2, <1>1, <1>3 DEF OutcomeWithin, OutcomeNext
    <3>3. CASE i > 1
      <4>1. i - 1 \in 1 .. n - 1 /\ i - 1 \in 1 .. Len(uiQueue')
        BY <3>3, <1>1 DEF TypeOK
      <4>2. uiQueue'[i - 1] = uiQueue[i]
        BY <4>1, <1>1
      <4>3. QED
        BY <4>1, <4>2, <3>1 DEF OutcomeWithin, OutcomeNext
    <3>4. QED
      BY <3>2, <3>3
  <2>3. QED
    BY <1>4, <2>1, <2>2 DEF OutcomeWithin, OutcomeNext
<1>5. QED
  BY <1>1, <1>3, <1>4

\* What a post must satisfy to keep the queue's part of FinishInv.
LEMMA PostKeepsFinish ==
    ASSUME TypeOK, FinishInv, NEW t \in Tasks, NEW w \in What, Post(t, w), called' = called,
           w = "FINISHED" => OutcomeWithin(t, Len(uiQueue))
    PROVE  /\ OutcomeBeforeFinished'
           /\ \A i \in 1 .. Len(uiQueue') :
                 uiQueue'[i].what = "FINISHED" => OutcomeNext(uiQueue'[i].task, i - 1)
           /\ \A u \in Tasks :
                 OutcomeWithin(u, Len(uiQueue)) => OutcomeNext(u, Len(uiQueue'))
<1>1. OutcomeBeforeFinished'
  BY DEF FinishInv, OutcomeBeforeFinished
<1>2. ASSUME NEW i \in 1 .. Len(uiQueue'), uiQueue'[i].what = "FINISHED"
      PROVE  OutcomeNext(uiQueue'[i].task, i - 1)
  <2>1. CASE i \in 1 .. Len(uiQueue)
    <3>1. uiQueue'[i] = uiQueue[i] /\ uiQueue[i].task \in Tasks /\ i - 1 \in 0 .. Len(uiQueue)
      <4>1. uiQueue \in Seq(Message)
        BY DEF TypeOK
      <4>2. uiQueue'[i] = uiQueue[i]
        BY <4>1, <2>1, PostAppends
      <4>3. uiQueue[i] \in Message
        BY <4>1, <2>1
      <4>4. QED
        BY <4>1, <4>2, <4>3, <2>1 DEF Message
    <3>2. OutcomeWithin(uiQueue[i].task, i - 1)
      BY <1>2, <2>1, <3>1 DEF FinishInv
    <3>3. QED
      BY <3>1, <3>2, PostKeepsOutcome DEF TypeOK
  <2>2. CASE i = Len(uiQueue) + 1
    <3>1. uiQueue'[i] = [task |-> t, what |-> w] /\ i - 1 = Len(uiQueue)
      BY <2>2, PostAppends DEF TypeOK
    <3>2. OutcomeWithin(t, i - 1)
      BY <1>2, <3>1
    <3>3. i - 1 \in 0 .. Len(uiQueue)
      BY <3>1 DEF TypeOK
    <3>4. QED
      BY <3>1, <3>2, <3>3, PostKeepsOutcome DEF TypeOK
  <2>3. uiQueue \in Seq(Message) /\ Len(uiQueue') = Len(uiQueue) + 1
    BY PostAppends DEF TypeOK
  <2>4. QED
    BY <1>2, <2>1, <2>2, <2>3
<1>3. QED
  BY <1>1, <1>2, PostKeepsOutcome DEF TypeOK

\* A step that neither posts nor handles a message, nor brings a thread to the
\* point where it posts FINISHED, keeps FinishInv.
LEMMA QuietKeepsFinish ==
    ASSUME TypeOK, FinishInv, uiQueue' = uiQueue, called' = called,
           \A t \in Tasks : wpc'[t] = "finish" => wpc[t] = "finish",
           \A c \in Cancellers : cpc'[c] = cpc[c] \/ cpc'[c].at # "postFinished"
    PROVE  FinishInv'
BY DEF FinishInv, OutcomeBeforeFinished, OutcomeWithin

\* FinishInv holds in every reachable state.
THEOREM FinishOrder == Spec => []FinishInv
<1>1. Init => FinishInv
  BY DEF Init, FinishInv, OutcomeBeforeFinished, Idle, Callbacks, What
<1>2. TypeOK /\ FinishInv /\ [Next]_vars => FinishInv'
  <2> SUFFICES ASSUME TypeOK, FinishInv, [Next]_vars
               PROVE  FinishInv'
    OBVIOUS
  <2>1. ASSUME NEW t \in Tasks,
               \/ SetWaiting(t) \/ Execute(t) \/ TakeFromPool(t)
               \/ Check1(t) \/ Check2(t) \/ Check3(t) \/ SetStarted(t)
               \/ WorkReturns(t) \/ WorkThrows(t) \/ SetOutcome(t)
        PROVE  FinishInv'
    <3>1. PICK to \in RunPc \ {"finish"} : wpc' = [wpc EXCEPT ![t] = to]
      BY <2>1 DEF SetWaiting, Execute, TakeFromPool, Check1, Check2, Check3, CheckCancelled,
                  SetStarted, WorkReturns, WorkThrows, SetOutcome, Goto, RunPc, Before
    <3>2. uiQueue' = uiQueue /\ called' = called /\ cpc' = cpc
      BY <2>1 DEF SetWaiting, Execute, TakeFromPool, Check1, Check2, Check3, CheckCancelled,
                  SetStarted, WorkReturns, WorkThrows, SetOutcome
    <3>3. \A u \in Tasks : wpc'[u] = "finish" => wpc[u] = "finish"
      BY <3>1 DEF TypeOK
    <3>4. QED
      BY <3>2, <3>3, QuietKeepsFinish
  <2>2. ASSUME NEW t \in Tasks, PostWaiting(t) \/ PostStart(t) \/ Update(t)
        PROVE  FinishInv'
    <3>1. PICK w \in What \ {"FINISHED"} : Post(t, w)
      BY <2>2 DEF PostWaiting, PostStart, Update, What, Outcome
    <3>2. called' = called /\ cpc' = cpc
      BY <2>2 DEF PostWaiting, PostStart, Update
    <3>3. \A u \in Tasks : wpc'[u] = "finish" => wpc[u] = "finish"
      BY <2>2 DEF PostWaiting, PostStart, Update, Goto, TypeOK
    <3>4. \A c \in Cancellers : cpc[c] # Idle => cpc[c].task \in Tasks
      BY DEF TypeOK, Frame
    <3>5. QED
      BY <3>1, <3>2, <3>3, <3>4, PostKeepsFinish, FinishNext DEF FinishInv
  <2>3. ASSUME NEW t \in Tasks, PostOutcome(t)
        PROVE  FinishInv'
    <3>1. Post(t, out[t]) /\ called' = called /\ cpc' = cpc /\ out[t] \in Outcome
      BY <2>3 DEF PostOutcome, TypeOK
    <3>2. out[t] \in What /\ out[t] # "FINISHED"
      BY <3>1 DEF What, Outcome
    <3>3. OutcomeNext(t, Len(uiQueue'))
      BY <3>1, <3>2, PostKeepsOutcome DEF TypeOK
    <3>4. \A u \in Tasks \ {t} : wpc'[u] = wpc[u]
      BY <2>3 DEF PostOutcome, Goto, TypeOK
    <3>5. \A c \in Cancellers : cpc[c] # Idle => cpc[c].task \in Tasks
      BY DEF TypeOK, Frame
    <3>6. QED
      BY <3>1, <3>2, <3>3, <3>4, <3>5, PostKeepsFinish, FinishNext DEF FinishInv
  <2>4. ASSUME NEW t \in Tasks, PostFinished(t)
        PROVE  FinishInv'
    <3>1. Post(t, "FINISHED") /\ called' = called /\ cpc' = cpc /\ wpc[t] = "finish"
      BY <2>4 DEF PostFinished, Goto
    <3>2. OutcomeWithin(t, Len(uiQueue)) /\ "FINISHED" \in What
      BY <3>1 DEF FinishInv, What
    <3>3. \A u \in Tasks : wpc'[u] = "finish" => wpc[u] = "finish"
      BY <2>4 DEF PostFinished, Goto, TypeOK
    <3>4. \A c \in Cancellers : cpc[c] # Idle => cpc[c].task \in Tasks
      BY DEF TypeOK, Frame
    <3>5. QED
      BY <3>1, <3>2, <3>3, <3>4, PostKeepsFinish, FinishNext DEF FinishInv
  <2>5. ASSUME NEW c \in Cancellers,
               \/ \E t \in Tasks, o \in {"task", "proxy"} : CallCancel(c, t, o)
               \/ EnterCancel(c) \/ CancelHandler(c) \/ ReadState(c) \/ SetCancelled(c)
        PROVE  FinishInv'
    <3>1. uiQueue' = uiQueue /\ called' = called /\ wpc' = wpc
      BY <2>5 DEF CallCancel, EnterCancel, CancelHandler, ReadState, SetCancelled
    <3>2. cpc'[c].at # "postFinished" /\ \A d \in Cancellers \ {c} : cpc'[d] = cpc[d]
      BY <2>5, FrameTypes DEF CallCancel, EnterCancel, CancelHandler, ReadState, SetCancelled,
                         Move, Return, Idle, Frame, TypeOK
    <3>3. QED
      BY <3>1, <3>2, QuietKeepsFinish
  <2>6. ASSUME NEW c \in Cancellers, PostCancel(c)
        PROVE  FinishInv'
    <3>1. cpc[c] \in Frame /\ Post(cpc[c].task, "CANCEL") /\ called' = called /\ wpc' = wpc
      BY <2>6, FrameTypes DEF PostCancel, TypeOK
    <3>2. cpc[c].task \in Tasks /\ "CANCEL" \in What /\ "CANCEL" \in Outcome
      BY <3>1 DEF Frame, What, Outcome
    <3>3. OutcomeNext(cpc[c].task, Len(uiQueue'))
      BY <3>1, <3>2, PostKeepsOutcome DEF TypeOK
    <3>4. cpc'[c].task = cpc[c].task /\ \A d \in Cancellers \ {c} : cpc'[d] = cpc[d]
      BY <2>6, <3>1 DEF PostCancel, Move, TypeOK, Frame
    <3>5. \A d \in Cancellers : cpc[d] # Idle => cpc[d].task \in Tasks
      BY DEF TypeOK, Frame
    <3>6. /\ OutcomeBeforeFinished'
          /\ \A i \in 1 .. Len(uiQueue') :
                uiQueue'[i].what = "FINISHED" => OutcomeNext(uiQueue'[i].task, i - 1)
          /\ \A u \in Tasks : OutcomeWithin(u, Len(uiQueue)) => OutcomeNext(u, Len(uiQueue'))
      BY <3>1, <3>2, PostKeepsFinish
    <3>7. QED
      BY <3>1, <3>3, <3>4, <3>5, <3>6, FinishNext DEF FinishInv
  <2>7. ASSUME NEW c \in Cancellers, PostCancelFinished(c)
        PROVE  FinishInv'
    <3>1. /\ cpc[c] \in Frame /\ cpc[c].at = "postFinished" /\ cpc[c] # Idle
          /\ Post(cpc[c].task, "FINISHED") /\ called' = called /\ wpc' = wpc
      BY <2>7, FrameTypes DEF PostCancelFinished, TypeOK
    <3>2. cpc[c].task \in Tasks /\ "FINISHED" \in What
      BY <3>1 DEF Frame, What
    <3>3. OutcomeWithin(cpc[c].task, Len(uiQueue))
      BY <3>1 DEF FinishInv
    <3>4. cpc'[c].at # "postFinished" /\ \A d \in Cancellers \ {c} : cpc'[d] = cpc[d]
      BY <2>7, <3>1 DEF PostCancelFinished, Return, TypeOK, Idle
    <3>5. \A d \in Cancellers : cpc[d] # Idle => cpc[d].task \in Tasks
      BY DEF TypeOK, Frame
    <3>6. /\ OutcomeBeforeFinished'
          /\ \A i \in 1 .. Len(uiQueue') :
                uiQueue'[i].what = "FINISHED" => OutcomeNext(uiQueue'[i].task, i - 1)
          /\ \A u \in Tasks : OutcomeWithin(u, Len(uiQueue)) => OutcomeNext(u, Len(uiQueue'))
      BY <3>1, <3>2, <3>3, PostKeepsFinish
    <3>7. QED
      BY <3>1, <3>4, <3>5, <3>6, FinishNext DEF FinishInv
  <2>8. CASE HandleMessage
    <3> DEFINE m == Head(uiQueue)
    <3>1. /\ m = uiQueue[1] /\ Len(uiQueue) > 0 /\ Len(uiQueue) \in Nat
          /\ \A i \in 1 .. Len(uiQueue) : uiQueue[i] \in Message
          /\ wpc' = wpc /\ cpc' = cpc
      BY <2>8 DEF HandleMessage, TypeOK
    <3>2. OutcomeBeforeFinished'
      <4>1. ASSUME NEW t \in Tasks, called'[t]["FINISHED"] > 0
            PROVE  \E w \in Outcome : called'[t][w] > 0
        <5>1. CASE called[t]["FINISHED"] > 0
          BY <5>1, <2>8, HandleKeepsOutcome DEF FinishInv, OutcomeBeforeFinished, What
        <5>2. CASE ~(called[t]["FINISHED"] > 0)
          <6>1. m.task = t /\ m.what = "FINISHED"
            BY <4>1, <5>2, <3>1, <2>8, HandleKeepsOutcome DEF What
          <6>2. OutcomeWithin(t, 0)
            BY <6>1, <3>1 DEF FinishInv
          <6>3. \E w \in Outcome : called[t][w] > 0
            BY <6>2 DEF OutcomeWithin, OutcomeNext
          <6>4. QED
            BY <6>3, <2>8, HandleKeepsOutcome DEF What
        <5>3. QED
          BY <5>1, <5>2
      <4>2. QED
        BY <4>1 DEF OutcomeBeforeFinished
    <3>3. ASSUME NEW i \in 1 .. Len(uiQueue'), uiQueue'[i].what = "FINISHED"
          PROVE  OutcomeNext(uiQueue'[i].task, i - 1)
      <4>1. uiQueue'[i] = uiQueue[i + 1] /\ i + 1 \in 1 .. Len(uiQueue) /\ i \in 1 .. Len(uiQueue)
        BY <2>8, <3>1, HandleKeepsOutcome
      <4>2. OutcomeWithin(uiQueue[i + 1].task, (i + 1) - 1)
        BY <4>1, <3>3 DEF FinishInv
      <4>3. (i + 1) - 1 = i /\ uiQueue[i + 1].task \in Tasks
        BY <4>1, <3>1 DEF Message
      <4>4. QED
        BY <4>1, <4>2, <4>3, <2>8, HandleKeepsOutcome
    <3>4. \A t \in Tasks : OutcomeWithin(t, Len(uiQueue)) => OutcomeNext(t, Len(uiQueue'))
      <4>1. Len(uiQueue) \in 1 .. Len(uiQueue) /\ Len(uiQueue') = Len(uiQueue) - 1
        BY <3>1, <2>8, HandleKeepsOutcome
      <4>2. ASSUME NEW t \in Tasks, OutcomeWithin(t, Len(uiQueue))
            PROVE  OutcomeNext(t, Len(uiQueue'))
        <5>1. \E n \in Nat : n = Len(uiQueue)
          BY <3>1
        <5>2. PICK n \in Nat : n = Len(uiQueue)
          BY <5>1
        <5>3. OutcomeWithin(t, n) /\ n \in 1 .. Len(uiQueue)
          BY <4>2, <5>2, <4>1
        <5>4. OutcomeNext(t, n - 1)
          BY <5>3, <2>8, HandleKeepsOutcome
        <5>5. QED
          BY <5>4, <5>2, <4>1 DEF OutcomeWithin, OutcomeNext
      <4>3. QED
        BY <4>2
    <3>5. \A c \in Cancellers : cpc[c] # Idle => cpc[c].task \in Tasks
      BY DEF TypeOK, Frame
    <3>6. QED
      BY <3>1, <3>2, <3>3, <3>4, <3>5, FinishNext DEF FinishInv
  <2>9. CASE UNCHANGED vars
    BY <2>9, QuietKeepsFinish DEF vars
  <2>10. QED
    BY <2>1, <2>2, <2>3, <2>4, <2>5, <2>6, <2>7, <2>8, <2>9 DEF Next, RunStep, CancelStep
<1>3. QED
  BY <1>1, <1>2, TypeCorrect, PTL DEF Spec

\* OutcomeBeforeFinished holds for any tasks, cancellers and pool.
THEOREM OutcomeAlwaysBeforeFinished == Spec => []OutcomeBeforeFinished
<1>1. FinishInv => OutcomeBeforeFinished
  BY DEF FinishInv
<1>2. QED
  BY <1>1, FinishOrder, PTL
-----------------------------------------------------------------------------
\* Told and Announced in the next state.
ToldNext(t, w) ==
    \/ called'[t][w] > 0
    \/ \E i \in 1 .. Len(uiQueue') : uiQueue'[i].task = t /\ uiQueue'[i].what = w

Announces(c, t) ==
    /\ cpc[c] # Idle
    /\ cpc[c].task = t
    /\ cpc[c].at \in {"set", "postCancel", "postFinished"}

\* What CancelInv says of one task, as a formula over its fields.
TaskCancelInv(t, st, pc, ou, flagged, toldSuccess, toldError, announced) ==
    /\ st = "WAITING" => pc \in Before \/ (pc = "set" /\ ou = "CANCEL")
    /\ toldSuccess => pc \in {"finish", "done"} /\ ou = "SUCCESS"
    /\ toldError => pc \in {"finish", "done"} /\ ou = "ERROR"
    /\ t \notin CancelFast /\ announced =>
          \/ flagged /\ pc \in Before \cup {"postStart", "check2"}
          \/ pc \in {"set", "post", "finish", "done"} /\ ou = "CANCEL"

Flagged(t) == flag[t].task \/ flag[t].proxy

FlagsUp ==
    \A c \in Cancellers :
       cpc[c] # Idle =>
         /\ cpc[c].at = "nest" => cpc[c].on = "proxy"
         /\ cpc[c].at # "enter" => flag[cpc[c].task][cpc[c].on]
         /\ cpc[c].nested => flag[cpc[c].task].proxy

\* CancelInv, task by task.
LEMMA CancelInvByTask ==
    CancelInv <=>
        /\ FlagsUp
        /\ \A t \in Tasks :
              TaskCancelInv(t, state[t], wpc[t], out[t], Flagged(t),
                            Told(t, "SUCCESS"), Told(t, "ERROR"), Announced(t))
BY DEF CancelInv, FlagsUp, TaskCancelInv, Flagged

LEMMA CancelInvNext ==
    ASSUME FlagsUp',
           \A t \in Tasks :
              TaskCancelInv(t, state'[t], wpc'[t], out'[t], Flagged(t)',
                  ToldNext(t, "SUCCESS"), ToldNext(t, "ERROR"),
                  ToldNext(t, "CANCEL") \/ \E c \in Cancellers : Announces(c, t)')
    PROVE  CancelInv'
BY DEF CancelInv, FlagsUp, TaskCancelInv, Flagged, ToldNext, Told, Announced, Announces

\* Posting tells exactly one callback more; handling a message tells none.
LEMMA PostTells ==
    ASSUME uiQueue \in Seq(Message), NEW t \in Tasks, NEW w \in What, Post(t, w),
           called' = called
    PROVE  \A u \in Tasks, v \in What :
              ToldNext(u, v) => Told(u, v) \/ (u = t /\ v = w)
<1>1. /\ Len(uiQueue') = Len(uiQueue) + 1
      /\ \A i \in 1 .. Len(uiQueue) : uiQueue'[i] = uiQueue[i]
      /\ uiQueue'[Len(uiQueue')] = [task |-> t, what |-> w]
      /\ Len(uiQueue) \in Nat
  BY PostAppends
<1>2. ASSUME NEW u \in Tasks, NEW v \in What,
             NEW i \in 1 .. Len(uiQueue'), uiQueue'[i].task = u, uiQueue'[i].what = v
      PROVE  Told(u, v) \/ (u = t /\ v = w)
  <2>1. i \in 1 .. Len(uiQueue) \/ i = Len(uiQueue')
    BY <1>1
  <2>2. CASE i \in 1 .. Len(uiQueue)
    BY <1>1, <1>2, <2>2 DEF Told
  <2>3. CASE i = Len(uiQueue')
    BY <1>1, <1>2, <2>3
  <2>4. QED
    BY <2>1, <2>2, <2>3
<1>3. QED
  BY <1>2 DEF ToldNext, Told

LEMMA HandleTells ==
    ASSUME TypeOK, HandleMessage
    PROVE  \A t \in Tasks, w \in What : ToldNext(t, w) => Told(t, w)
<1>1. uiQueue # <<>> /\ Len(uiQueue) \in Nat \ {0}
  BY DEF HandleMessage, TypeOK
<1>2. ASSUME NEW t \in Tasks, NEW w \in What, called'[t][w] > 0
      PROVE  Told(t, w)
  BY <1>1, <1>2, HandleKeepsOutcome DEF Told
<1>3. ASSUME NEW t \in Tasks, NEW w \in What,
             NEW i \in 1 .. Len(uiQueue'), uiQueue'[i].task = t, uiQueue'[i].what = w
      PROVE  Told(t, w)
  <2>1. i + 1 \in 1 .. Len(uiQueue) /\ uiQueue'[i] = uiQueue[i + 1]
    BY <1>1, HandleKeepsOutcome
  <2>2. QED
    BY <2>1, <1>3 DEF Told
<1>4. QED
  BY <1>2, <1>3 DEF ToldNext

\* A step of the thread of t, with at most one message posted, leaves the other
\* tasks and the cancellers alone: only the fields of t have to be looked at.
LEMMA ThreadStep ==
    ASSUME TypeOK, CancelInv, NEW t \in Tasks,
           flag' = flag, cpc' = cpc,
           \A u \in Tasks \ {t} : state'[u] = state[u] /\ wpc'[u] = wpc[u] /\ out'[u] = out[u],
           \A u \in Tasks \ {t}, w \in Outcome : ToldNext(u, w) => Told(u, w),
           TaskCancelInv(t, state'[t], wpc'[t], out'[t], Flagged(t),
               ToldNext(t, "SUCCESS"), ToldNext(t, "ERROR"),
               ToldNext(t, "CANCEL") \/ \E c \in Cancellers : Announces(c, t))
    PROVE  CancelInv'
<1>1. FlagsUp' /\ \A u \in Tasks : Flagged(u)' = Flagged(u)
  BY CancelInvByTask DEF FlagsUp, Flagged, Idle
<1>2. \A u \in Tasks, c \in Cancellers : Announces(c, u)' <=> Announces(c, u)
  BY DEF Announces, Idle
<1>3. ASSUME NEW u \in Tasks \ {t}
      PROVE  TaskCancelInv(u, state'[u], wpc'[u], out'[u], Flagged(u)',
                 ToldNext(u, "SUCCESS"), ToldNext(u, "ERROR"),
                 ToldNext(u, "CANCEL") \/ \E c \in Cancellers : Announces(c, u)')
  <2>1. TaskCancelInv(u, state[u], wpc[u], out[u], Flagged(u),
            Told(u, "SUCCESS"), Told(u, "ERROR"), Announced(u))
    BY CancelInvByTask
  <2>2. Announced(u) <=> Told(u, "CANCEL") \/ \E c \in Cancellers : Announces(c, u)
    BY DEF Announced, Announces
  <2>3. \A w \in {"SUCCESS", "ERROR", "CANCEL"} : ToldNext(u, w) => Told(u, w)
    BY DEF Outcome
  <2>4. QED
    BY <1>1, <1>2, <2>1, <2>2, <2>3 DEF TaskCancelInv
<1>4. QED
  BY <1>1, <1>2, <1>3, CancelInvNext

\* A canceller's step: it leaves the thread of the task alone, may raise flags
\* and announces only the cancellation of its own task.
LEMMA CancellerStep ==
    ASSUME TypeOK, CancelInv, FlagsUp',
           wpc' = wpc, out' = out,
           \A u \in Tasks : Flagged(u) => Flagged(u)',
           \A u \in Tasks : state'[u] = "WAITING" => state[u] = "WAITING",
           \A u \in Tasks : ToldNext(u, "SUCCESS") => Told(u, "SUCCESS"),
           \A u \in Tasks : ToldNext(u, "ERROR") => Told(u, "ERROR"),
           \A u \in Tasks \ CancelFast :
              (ToldNext(u, "CANCEL") \/ \E c \in Cancellers : Announces(c, u)') =>
                 \/ Announced(u)
                 \/ Flagged(u) /\ state[u] = "WAITING"
    PROVE  CancelInv'
<1>1. ASSUME NEW u \in Tasks
      PROVE  TaskCancelInv(u, state'[u], wpc'[u], out'[u], Flagged(u)',
                 ToldNext(u, "SUCCESS"), ToldNext(u, "ERROR"),
                 ToldNext(u, "CANCEL") \/ \E c \in Cancellers : Announces(c, u)')
  <2>1. TaskCancelInv(u, state[u], wpc[u], out[u], Flagged(u),
            Told(u, "SUCCESS"), Told(u, "ERROR"), Announced(u))
    BY CancelInvByTask
  <2>2. QED
    BY <2>1 DEF TaskCancelInv
<1>2. QED
  BY <1>1, CancelInvNext

\* The frame of a canceller after it moves on or returns.
LEMMA FrameNext ==
    ASSUME TypeOK, NEW c \in Cancellers, cpc[c] # Idle
    PROVE  /\ \A at \in {"nest", "read", "set", "postCancel", "postFinished"} :
                Move(c, at) => /\ cpc'[c].at = at
                               /\ cpc'[c].on = cpc[c].on
                               /\ cpc'[c].task = cpc[c].task
                               /\ cpc'[c].nested = cpc[c].nested
           /\ Return(c) => \/ cpc'[c] = Idle
                           \/ /\ cpc[c].nested /\ ~cpc'[c].nested
                              /\ cpc'[c].at = "read" /\ cpc'[c].on = "proxy"
                              /\ cpc'[c].task = cpc[c].task
<1>1. cpc[c] \in Frame
  BY FrameTypes DEF TypeOK
<1>2. QED
  BY <1>1 DEF Move, Return, Frame, TypeOK

\* While every other canceller stands still and no flag goes down, FlagsUp is a
\* matter of the one that moves.
LEMMA FlagsUpStep ==
    ASSUME TypeOK, FlagsUp, NEW c \in Cancellers,
           \A d \in Cancellers \ {c} : cpc'[d] = cpc[d],
           \A u \in Tasks, o \in {"task", "proxy"} : flag[u][o] => flag'[u][o],
           cpc'[c] # Idle =>
             /\ cpc'[c].at = "nest" => cpc'[c].on = "proxy"
             /\ cpc'[c].at # "enter" => flag'[cpc'[c].task][cpc'[c].on]
             /\ cpc'[c].nested => flag'[cpc'[c].task].proxy
    PROVE  FlagsUp'
<1>1. ASSUME NEW d \in Cancellers \ {c}, cpc'[d] # Idle
      PROVE  /\ cpc'[d].at = "nest" => cpc'[d].on = "proxy"
             /\ cpc'[d].at # "enter" => flag'[cpc'[d].task][cpc'[d].on]
             /\ cpc'[d].nested => flag'[cpc'[d].task].proxy
  <2>1. cpc'[d] = cpc[d] /\ cpc[d].task \in Tasks /\ cpc[d].on \in {"task", "proxy"}
    BY <1>1, FrameTypes DEF TypeOK, Frame
  <2>2. QED
    BY <1>1, <2>1 DEF FlagsUp
<1>2. Idle' = Idle
  BY DEF Idle
<1>3. QED
  BY <1>1, <1>2 DEF FlagsUp

\* No canceller takes a flag down.
LEMMA FlagsStay ==
    ASSUME TypeOK, NEW c \in Cancellers, EnterCancel(c)
    PROVE  /\ \A u \in Tasks, o \in {"task", "proxy"} : flag[u][o] => flag'[u][o]
           /\ flag'[cpc[c].task][cpc[c].on]
<1> DEFINE t == cpc[c].task
           o == cpc[c].on
<1>1. t \in Tasks /\ o \in {"task", "proxy"}
  BY FrameTypes DEF EnterCancel, TypeOK, Frame
<1>2. \/ flag' = flag /\ flag[t][o]
      \/ flag' = [flag EXCEPT ![t][o] = TRUE]
  BY DEF EnterCancel
<1>3. CASE flag' = flag /\ flag[t][o]
  BY <1>3
<1>4. ASSUME NEW f \in [Tasks -> [task : BOOLEAN, proxy : BOOLEAN]]
      PROVE  /\ [f EXCEPT ![t]["task"] = TRUE][t]["task"]
             /\ [f EXCEPT ![t]["proxy"] = TRUE][t]["proxy"]
             /\ \A u \in Tasks, p \in {"task", "proxy"} :
                   f[u][p] => /\ [f EXCEPT ![t]["task"] = TRUE][u][p]
                              /\ [f EXCEPT ![t]["proxy"] = TRUE][u][p]
  BY <1>1
<1>5. CASE flag' = [flag EXCEPT ![t][o] = TRUE]
  BY <1>1, <1>4, <1>5 DEF TypeOK
<1>6. QED
  BY <1>2, <1>3, <1>5

\* CancelInv holds in every reachable state.
THEOREM CancelHonoured == Spec => []CancelInv
<1>1. Init => CancelInv
  BY DEF Init, CancelInv, Told, Announced, Callbacks, What, Outcome, Before
<1>2. TypeOK /\ CancelInv /\ [Next]_vars => CancelInv'
  <2> SUFFICES ASSUME TypeOK, CancelInv, [Next]_vars
               PROVE  CancelInv'
    OBVIOUS
  <2>t. \A t \in Tasks :
          /\ TaskCancelInv(t, state[t], wpc[t], out[t], Flagged(t),
                           Told(t, "SUCCESS"), Told(t, "ERROR"), Announced(t))
          /\ Announced(t) <=> Told(t, "CANCEL") \/ \E c \in Cancellers : Announces(c, t)
    BY CancelInvByTask DEF Announced, Announces
  <2>1. ASSUME NEW t \in Tasks,
               \/ SetWaiting(t) \/ Execute(t) \/ TakeFromPool(t)
               \/ Check1(t) \/ Check2(t) \/ Check3(t) \/ SetStarted(t)
               \/ WorkReturns(t) \/ WorkThrows(t) \/ SetOutcome(t)
        PROVE  CancelInv'
    <3>1. uiQueue' = uiQueue /\ called' = called /\ cpc' = cpc /\ flag' = flag
      BY <2>1 DEF SetWaiting, Execute, TakeFromPool, Check1, Check2, Check3, CheckCancelled,
                  SetStarted, WorkReturns, WorkThrows, SetOutcome
    <3>2. \A u \in Tasks, w \in Outcome : ToldNext(u, w) <=> Told(u, w)
      BY <3>1 DEF ToldNext, Told
    <3>3. \A u \in Tasks \ {t} : state'[u] = state[u] /\ wpc'[u] = wpc[u] /\ out'[u] = out[u]
      BY <2>1 DEF SetWaiting, Execute, TakeFromPool, Check1, Check2, Check3, CheckCancelled,
                  SetStarted, WorkReturns, WorkThrows, SetOutcome, Goto, SetState, TypeOK
    <3>4. \/ wpc[t] = "new" /\ wpc'[t] = "postWaiting" /\ out'[t] = out[t]
          \/ /\ wpc[t] = "submit" /\ wpc'[t] \in {"check1", "queued"}
             /\ out'[t] = out[t] /\ state'[t] = state[t]
          \/ /\ wpc[t] = "queued" /\ wpc'[t] = "check1"
             /\ out'[t] = out[t] /\ state'[t] = state[t]
          \/ /\ wpc[t] \in {"check1", "check2", "check3"}
             /\ wpc'[t] = "set" /\ out'[t] = "CANCEL" /\ state'[t] = state[t]
          \/ /\ wpc[t] = "check1" /\ wpc'[t] = "start"
             /\ out'[t] = out[t] /\ state'[t] = state[t]
          \/ /\ wpc[t] = "check2" /\ wpc'[t] = "work" /\ ~Flagged(t)
             /\ out'[t] = out[t] /\ state'[t] = state[t]
          \/ /\ wpc[t] = "check3" /\ wpc'[t] = "set" /\ ~Flagged(t)
             /\ out'[t] = "SUCCESS" /\ state'[t] = state[t]
          \/ wpc[t] = "start" /\ wpc'[t] = "postStart" /\ out'[t] = out[t] /\ state'[t] = "STARTED"
          \/ /\ wpc[t] = "work" /\ wpc'[t] = "check3"
             /\ out'[t] = out[t] /\ state'[t] = state[t]
          \/ wpc[t] = "work" /\ wpc'[t] = "set" /\ out'[t] \in Outcome /\ state'[t] = state[t]
          \/ wpc[t] = "set" /\ wpc'[t] = "post" /\ out'[t] = out[t] /\ state'[t] # "WAITING"
      <4> USE DEF Goto, SetState, TypeOK
      <4>1. CASE SetWaiting(t) \/ SetStarted(t)
        BY <4>1 DEF SetWaiting, SetStarted
      <4>2. CASE Execute(t) \/ TakeFromPool(t)
        BY <4>2 DEF Execute, TakeFromPool
      <4>3. CASE Check1(t) \/ Check2(t) \/ Check3(t)
        BY <4>3 DEF Check1, Check2, Check3, CheckCancelled, IsCancelled, TaskIsCancelled, Flagged
      <4>4. CASE WorkReturns(t) \/ WorkThrows(t)
        BY <4>4 DEF WorkReturns, WorkThrows, Outcome
      <4>5. CASE SetOutcome(t)
        BY <4>5 DEF SetOutcome, Outcome
      <4>6. QED
        BY <2>1, <4>1, <4>2, <4>3, <4>4, <4>5
    <3>5. \A w \in {"SUCCESS", "ERROR", "CANCEL"} : ToldNext(t, w) <=> Told(t, w)
      BY <3>2 DEF Outcome
    <3>6. TaskCancelInv(t, state'[t], wpc'[t], out'[t], Flagged(t),
              ToldNext(t, "SUCCESS"), ToldNext(t, "ERROR"),
              ToldNext(t, "CANCEL") \/ \E c \in Cancellers : Announces(c, t))
      BY <2>t, <3>4, <3>5 DEF TaskCancelInv, Before, Outcome
    <3>7. QED
      BY <3>1, <3>2, <3>3, <3>6, ThreadStep
  <2>2. ASSUME NEW t \in Tasks,
               \/ PostWaiting(t) \/ PostStart(t) \/ Update(t)
               \/ PostOutcome(t) \/ PostFinished(t)
        PROVE  CancelInv'
    <3>1. called' = called /\ cpc' = cpc /\ flag' = flag /\ state' = state /\ out' = out
      BY <2>2 DEF PostWaiting, PostStart, Update, PostOutcome, PostFinished
    <3>2. \A u \in Tasks \ {t} : wpc'[u] = wpc[u]
      BY <2>2 DEF PostWaiting, PostStart, Update, PostOutcome, PostFinished, Goto, TypeOK
    <3>3. PICK w \in What : Post(t, w) /\ (w \in Outcome => wpc[t] = "post" /\ w = out[t])
      BY <2>2 DEF PostWaiting, PostStart, Update, PostOutcome, PostFinished, Goto, What,
                  Outcome, TypeOK
    <3>4. \A u \in Tasks, v \in Outcome :
             ToldNext(u, v) => Told(u, v) \/ (u = t /\ v = out[t] /\ wpc[t] = "post")
      BY <3>1, <3>3, PostTells DEF TypeOK, What
    <3>5. \/ wpc[t] = "postWaiting" /\ wpc'[t] = "submit"
          \/ wpc[t] = "postStart" /\ wpc'[t] = "check2"
          \/ wpc[t] = "work" /\ wpc'[t] = "work"
          \/ wpc[t] = "post" /\ wpc'[t] = "finish"
          \/ wpc[t] = "finish" /\ wpc'[t] = "done"
      BY <2>2 DEF PostWaiting, PostStart, Update, PostOutcome, PostFinished, Goto, TypeOK
    <3>6. \A v \in {"SUCCESS", "ERROR", "CANCEL"} :
             ToldNext(t, v) => Told(t, v) \/ (v = out[t] /\ wpc[t] = "post")
      BY <3>4 DEF Outcome
    <3>7. TaskCancelInv(t, state'[t], wpc'[t], out'[t], Flagged(t),
              ToldNext(t, "SUCCESS"), ToldNext(t, "ERROR"),
              ToldNext(t, "CANCEL") \/ \E c \in Cancellers : Announces(c, t))
      BY <2>t, <3>1, <3>5, <3>6 DEF TaskCancelInv, Before
    <3>8. QED
      BY <3>1, <3>2, <3>4, <3>7, ThreadStep
  <2>3. ASSUME NEW c \in Cancellers,
               \/ \E t \in Tasks, o \in {"task", "proxy"} : CallCancel(c, t, o)
               \/ EnterCancel(c) \/ CancelHandler(c) \/ ReadState(c)
        PROVE  CancelInv'
    <3>1. /\ uiQueue' = uiQueue /\ called' = called /\ state' = state
          /\ wpc' = wpc /\ out' = out
      BY <2>3 DEF CallCancel, EnterCancel, CancelHandler, ReadState
    <3>2. \A u \in Tasks, w \in What : ToldNext(u, w) <=> Told(u, w)
      BY <3>1 DEF ToldNext, Told
    <3>3. \A u \in Tasks, o \in {"task", "proxy"} : flag[u][o] => flag'[u][o]
      BY <2>3, FlagsStay DEF CallCancel, CancelHandler, ReadState
    <3>4. \A d \in Cancellers \ {c} : cpc'[d] = cpc[d]
      BY <2>3 DEF CallCancel, EnterCancel, CancelHandler, ReadState, Move, Return, TypeOK
    <3>f. FlagsUp
      BY CancelInvByTask
    <3>5. FlagsUp'
      <4>1. ASSUME NEW t \in Tasks, NEW o \in {"task", "proxy"}, CallCancel(c, t, o)
            PROVE  FlagsUp'
        <5>1. cpc'[c].at = "enter" /\ ~cpc'[c].nested
          BY <4>1 DEF CallCancel, TypeOK
        <5>2. QED
          BY <5>1, <3>f, <3>3, <3>4, FlagsUpStep
      <4>2. CASE EnterCancel(c)
        <5>1. /\ cpc[c] # Idle /\ flag'[cpc[c].task][cpc[c].on]
              /\ cpc[c].task \in Tasks /\ cpc[c].on \in {"task", "proxy"}
          BY <4>2, FlagsStay, FrameTypes DEF EnterCancel, TypeOK, Frame
        <5>2. \/ Return(c)
              \/ Move(c, "read")
              \/ Move(c, "nest") /\ cpc[c].on = "proxy"
          BY <4>2 DEF EnterCancel
        <5>3. cpc[c].nested => flag'[cpc[c].task].proxy
          BY <5>1, <3>f, <3>3 DEF FlagsUp
        <5>4. QED
          BY <5>1, <5>2, <5>3, <3>f, <3>3, <3>4, FrameNext, FlagsUpStep
      <4>3. CASE CancelHandler(c)
        <5>1. /\ cpc[c] # Idle /\ cpc[c].at = "nest" /\ flag' = flag /\ cpc[c] \in Frame
          BY <4>3, FrameTypes DEF CancelHandler, TypeOK
        <5>2. cpc[c].on = "proxy" /\ flag[cpc[c].task].proxy
          BY <5>1, <3>f DEF FlagsUp
        <5>3. \/ Move(c, "read")
              \/ /\ cpc'[c].at = "enter" /\ cpc'[c].on = "task"
                 /\ cpc'[c].task = cpc[c].task
          BY <4>3, <5>1 DEF CancelHandler, TypeOK
        <5>4. QED
          BY <5>1, <5>2, <5>3, <3>f, <3>3, <3>4, FrameNext, FlagsUpStep
      <4>4. CASE ReadState(c)
        <5>1. /\ cpc[c] # Idle /\ cpc[c].at = "read" /\ flag' = flag
              /\ Return(c) \/ Move(c, "set")
          BY <4>4 DEF ReadState
        <5>2. /\ flag[cpc[c].task][cpc[c].on]
              /\ cpc[c].nested => flag[cpc[c].task].proxy
          BY <5>1, <3>f DEF FlagsUp
        <5>3. QED
          BY <5>1, <5>2, <3>f, <3>3, <3>4, FrameNext, FlagsUpStep
      <4>5. QED
        BY <2>3, <4>1, <4>2, <4>3, <4>4
    <3>6. \A u \in Tasks, d \in Cancellers :
             Announces(d, u)' => \/ Announces(d, u)
                                \/ /\ Flagged(u)
                                   /\ state[u] = "WAITING" \/ u \in CancelFast
      <4>1. ASSUME NEW u \in Tasks, Announces(c, u)'
            PROVE  Flagged(u) /\ (state[u] = "WAITING" \/ u \in CancelFast)
        <5>1. cpc'[c] # Idle /\ cpc'[c].task = u /\ cpc'[c].at \in {"set", "postCancel", "postFinished"}
          BY <4>1 DEF Announces, Idle
        <5>2. ~\E t \in Tasks, o \in {"task", "proxy"} : CallCancel(c, t, o)
          BY <5>1 DEF CallCancel, TypeOK
        <5>3. ~EnterCancel(c)
          <6>1. SUFFICES ASSUME EnterCancel(c) PROVE FALSE
            OBVIOUS
          <6>2. cpc[c] # Idle /\ (Return(c) \/ Move(c, "read") \/ Move(c, "nest"))
            BY <6>1 DEF EnterCancel
          <6>3. QED
            BY <6>2, <5>1, FrameNext
        <5>4. ~CancelHandler(c)
          BY <5>1, FrameNext DEF CancelHandler, TypeOK
        <5>5. ReadState(c)
          BY <2>3, <5>2, <5>3, <5>4
        <5>6. Move(c, "set") /\ cpc[c] # Idle /\ cpc[c].at = "read"
          BY <5>1, <5>5, FrameNext DEF ReadState
        <5>7. cpc[c].task = u /\ (state[u] = "WAITING" \/ u \in CancelFast)
          BY <5>1, <5>5, <5>6, FrameNext DEF ReadState
        <5>8. flag[u][cpc[c].on] /\ cpc[c].on \in {"task", "proxy"}
          BY <5>6, <5>7, <3>f, FrameTypes DEF FlagsUp, TypeOK, Frame
        <5>9. QED
          BY <5>7, <5>8 DEF Flagged
      <4>2. ASSUME NEW u \in Tasks, NEW d \in Cancellers \ {c}, Announces(d, u)'
            PROVE  Announces(d, u)
        BY <4>2, <3>4 DEF Announces, Idle
      <4>3. QED
        BY <4>1, <4>2
    <3>7. QED
      BY <2>t, <3>1, <3>2, <3>3, <3>5, <3>6, CancellerStep DEF Flagged, What, Outcome
  <2>4. ASSUME NEW c \in Cancellers, SetCancelled(c) \/ PostCancel(c) \/ PostCancelFinished(c)
        PROVE  CancelInv'
    <3>1. /\ wpc' = wpc /\ out' = out /\ flag' = flag /\ called' = called
          /\ cpc[c] \in Frame /\ cpc[c].task \in Tasks /\ cpc[c] # Idle
          /\ cpc[c].at \in {"set", "postCancel", "postFinished"}
      BY <2>4, FrameTypes DEF SetCancelled, PostCancel, PostCancelFinished, TypeOK, Frame
    <3>2. \A u \in Tasks : state'[u] = "WAITING" => state[u] = "WAITING"
      BY <2>4, <3>1 DEF SetCancelled, PostCancel, PostCancelFinished, SetState, TypeOK
    <3>3. \A u \in Tasks, w \in What :
             ToldNext(u, w) => Told(u, w) \/ (u = cpc[c].task /\ w \notin {"SUCCESS", "ERROR"})
      <4>1. uiQueue' = uiQueue \/ \E w \in {"CANCEL", "FINISHED"} : Post(cpc[c].task, w)
        BY <2>4 DEF SetCancelled, PostCancel, PostCancelFinished
      <4>2. CASE uiQueue' = uiQueue
        BY <3>1, <4>2 DEF ToldNext, Told
      <4>3. ASSUME NEW w \in {"CANCEL", "FINISHED"}, Post(cpc[c].task, w)
            PROVE  \A u \in Tasks, v \in What :
                      ToldNext(u, v) => Told(u, v) \/ (u = cpc[c].task /\ v = w)
        BY <3>1, <4>3, PostTells DEF TypeOK, What, Outcome
      <4>4. QED
        BY <4>1, <4>2, <4>3
    <3>4. \A d \in Cancellers \ {c} : cpc'[d] = cpc[d]
      BY <2>4 DEF SetCancelled, PostCancel, PostCancelFinished, Move, Return, TypeOK
    <3>a. \/ Return(c)
          \/ \E at \in {"postCancel", "postFinished"} : Move(c, at)
      BY <2>4 DEF SetCancelled, PostCancel, PostCancelFinished
    <3>5. FlagsUp'
      <4>1. FlagsUp
        BY CancelInvByTask
      <4>2. /\ flag[cpc[c].task][cpc[c].on]
            /\ cpc[c].nested => flag[cpc[c].task].proxy
        BY <3>1, <4>1 DEF FlagsUp
      <4>3. QED
        BY <3>1, <3>4, <3>a, <4>1, <4>2, FrameNext, FlagsUpStep
    <3>6. \A u \in Tasks, d \in Cancellers : Announces(d, u)' => Announced(u)
      <4>1. ASSUME NEW u \in Tasks, Announces(c, u)'
            PROVE  cpc[c].task = u
        BY <3>1, <3>a, <4>1, FrameNext DEF Announces, Idle
      <4>2. \A u \in Tasks, d \in Cancellers \ {c} : Announces(d, u)' => Announces(d, u)
        BY <3>4 DEF Announces, Idle
      <4>3. QED
        BY <3>1, <4>1, <4>2 DEF Announced, Announces
    <3>7. Announced(cpc[c].task)
      BY <3>1 DEF Announced
    <3>8. QED
      BY <2>t, <3>1, <3>2, <3>3, <3>5, <3>6, <3>7, CancellerStep DEF Flagged, What, Outcome
  <2>5. CASE HandleMessage
    <3>1. /\ \A t \in Tasks, w \in What : ToldNext(t, w) => Told(t, w)
          /\ wpc' = wpc /\ out' = out /\ flag' = flag /\ cpc' = cpc
      BY <2>5, HandleTells DEF HandleMessage
    <3>2. \A u \in Tasks : state'[u] = "WAITING" => state[u] = "WAITING"
      BY <2>5 DEF HandleMessage, SetState, TypeOK
    <3>3. FlagsUp'
      BY <3>1, CancelInvByTask DEF FlagsUp, Idle
    <3>4. QED
      BY <2>t, <3>1, <3>2, <3>3, CancellerStep DEF Flagged, What, Outcome, Announces, Idle
  <2>6. CASE UNCHANGED vars
    BY <2>6 DEF vars, CancelInv, Told, Announced, Idle
  <2>7. QED
    BY <2>1, <2>2, <2>3, <2>4, <2>5, <2>6 DEF Next, RunStep, CancelStep
<1>3. QED
  BY <1>1, <1>2, TypeCorrect, PTL DEF Spec

\* ExclusiveOutcome holds for any tasks, cancellers and pool.
THEOREM OutcomesExclude == Spec => []ExclusiveOutcome
<1>1. CancelInv => ExclusiveOutcome
  <2> SUFFICES ASSUME CancelInv, NEW t \in Tasks \ CancelFast,
                      NEW v \in Outcome, NEW w \in Outcome,
                      called[t][v] > 0, called[t][w] > 0
               PROVE  v = w
    BY DEF ExclusiveOutcome
  <2>1. Told(t, v) /\ Told(t, w) /\ (v = "CANCEL" \/ w = "CANCEL" => Announced(t))
    BY DEF Told, Announced
  <2>2. QED
    BY <2>1 DEF CancelInv, Outcome, Before
<1>2. QED
  BY <1>1, CancelHonoured, PTL

-----------------------------------------------------------------------------
(* What may come after the end.                                            *)

Reports == {"SUCCESS", "ERROR"}

Queued(i, t, w) == uiQueue[i].task = t /\ uiQueue[i].what = w

\* Every update precedes the outcome of its task, and success and error are
\* posted once.
LateInv ==
    /\ \A t \in Tasks \ CancelFast, i \in 1 .. Len(uiQueue) :
          Queued(i, t, "UPDATE") => ~OutcomeWithin(t, i)
    /\ \A t \in Tasks, w \in Reports, i \in 1 .. Len(uiQueue) :
          Queued(i, t, w) =>
             called[t][w] = 0 /\ \A j \in 1 .. Len(uiQueue) : Queued(j, t, w) => i = j

LEMMA QueueType ==
    ASSUME TypeOK
    PROVE  /\ uiQueue \in Seq(Message) /\ Len(uiQueue) \in Nat
           /\ \A i \in 1 .. Len(uiQueue) : uiQueue[i].task \in Tasks /\ uiQueue[i].what \in What
<1>1. uiQueue \in Seq(Message)
  BY DEF TypeOK
<1>2. \A i \in 1 .. Len(uiQueue) : uiQueue[i] \in Message
  BY <1>1
<1> QED
  BY <1>1, <1>2 DEF Message

\* Only the pool thread posts updates, success and error, each at its place.
LEMMA WhoPosts ==
    ASSUME TypeOK, [Next]_vars, ~HandleMessage
    PROVE  /\ called' = called
           /\ \/ uiQueue' = uiQueue
              \/ \E t \in Tasks, w \in What :
                    /\ Post(t, w)
                    /\ w \in Reports => wpc[t] = "post" /\ w = out[t]
                    /\ w = "UPDATE" => wpc[t] = "work"
<1>1. ASSUME NEW t \in Tasks, SetWaiting(t) \/ RunStep(t) \/ Update(t)
      PROVE  /\ called' = called
             /\ \/ uiQueue' = uiQueue
                \/ \E w \in What : /\ Post(t, w)
                                   /\ w \in Reports => wpc[t] = "post" /\ w = out[t]
                                   /\ w = "UPDATE" => wpc[t] = "work"
  <2>1. CASE PostWaiting(t) \/ PostStart(t) \/ PostFinished(t)
    BY <2>1 DEF PostWaiting, PostStart, PostFinished, What, Reports
  <2>2. CASE Update(t)
    BY <2>2 DEF Update, What, Reports
  <2>3. CASE PostOutcome(t)
    <3>1. wpc[t] = "post" /\ Post(t, out[t]) /\ called' = called
      BY <2>3 DEF PostOutcome, Goto
    <3>2. out[t] \in Outcome
      BY DEF TypeOK
    <3>3. out[t] \in What /\ out[t] # "UPDATE"
      BY <3>2 DEF What, Outcome
    <3> QED
      BY <3>1, <3>3
  <2>4. CASE ~(PostWaiting(t) \/ PostStart(t) \/ PostFinished(t) \/ Update(t) \/ PostOutcome(t))
    BY <1>1, <2>4 DEF SetWaiting, RunStep, Execute, TakeFromPool, Check1, Check2, Check3,
       CheckCancelled, SetStarted, WorkReturns, WorkThrows, SetOutcome
  <2> QED
    BY <2>1, <2>2, <2>3, <2>4
<1>2. ASSUME NEW c \in Cancellers, CancelStep(c)
      PROVE  /\ called' = called
             /\ \/ uiQueue' = uiQueue
                \/ \E t \in Tasks, w \in {"CANCEL", "FINISHED"} : Post(t, w)
  <2>1. cpc[c] # Idle
    BY <1>2 DEF CancelStep, EnterCancel, CancelHandler, ReadState, SetCancelled, PostCancel,
       PostCancelFinished
  <2>2. cpc[c].task \in Tasks
    BY <2>1, FrameTypes DEF TypeOK, Frame
  <2> QED
    BY <1>2, <2>2 DEF CancelStep, EnterCancel, CancelHandler, ReadState, SetCancelled, PostCancel,
       PostCancelFinished
<1>3. {"CANCEL", "FINISHED"} \subseteq What \ (Reports \cup {"UPDATE"})
  BY DEF What, Outcome, Reports
<1>4. CASE \E c \in Cancellers, t \in Tasks, o \in {"task", "proxy"} : CallCancel(c, t, o)
  BY <1>4 DEF CallCancel
<1>5. CASE UNCHANGED vars
  BY <1>5 DEF vars
<1> QED
  BY <1>1, <1>2, <1>3, <1>4, <1>5 DEF Next

LEMMA LatePost ==
    ASSUME TypeOK, CancelInv, LateInv, called' = called, NEW t \in Tasks, NEW w \in What, Post(t, w),
           w \in Reports => wpc[t] = "post", w = "UPDATE" => wpc[t] = "work"
    PROVE  LateInv'
<1>0. PICK n \in Nat : n = Len(uiQueue)
  BY QueueType
<1>1. /\ Len(uiQueue') = n + 1
      /\ \A i \in 1 .. n : uiQueue'[i] = uiQueue[i]
      /\ uiQueue'[n + 1] = [task |-> t, what |-> w]
  BY <1>0, QueueType, PostAppends
<1>2. /\ \A u \in Tasks, v \in Reports, i \in 1 .. n : Queued(i, u, v) => wpc[u] \in {"finish", "done"}
      /\ \A v \in Reports : w = v => called[t][v] = 0
  <2>1. \A u \in Tasks, v \in Reports : Told(u, v) => wpc[u] \in {"finish", "done"}
    BY DEF CancelInv, Reports
  <2>2. \A u \in Tasks, v \in Reports : called[u][v] \in Nat
    BY DEF TypeOK, Reports, Callbacks, What, Outcome
  <2> QED
    BY <1>0, <2>1, <2>2 DEF Told, Queued
<1>3. ASSUME NEW u \in Tasks, NEW v \in Reports, NEW i \in 1 .. n + 1, Queued(i, u, v)'
      PROVE  called'[u][v] = 0 /\ \A j \in 1 .. n + 1 : Queued(j, u, v)' => i = j
  <2>1. CASE u = t /\ v = w
    <3>1. \A j \in 1 .. n : ~Queued(j, u, v)
      BY <1>2, <2>1
    <3>2. \A j \in 1 .. n : ~Queued(j, u, v)'
      BY <1>1, <3>1 DEF Queued
    <3> QED
      BY <1>1, <1>2, <1>3, <2>1, <3>2
  <2>2. CASE ~(u = t /\ v = w)
    <3>1. ~Queued(n + 1, u, v)'
      BY <1>1, <2>2 DEF Queued
    <3>2. \A j \in 1 .. n : Queued(j, u, v)' => Queued(j, u, v)
      BY <1>1 DEF Queued
    <3>3. i \in 1 .. n /\ \A j \in 1 .. n + 1 : Queued(j, u, v)' => j \in 1 .. n /\ Queued(j, u, v)
      BY <1>1, <1>3, <3>1, <3>2
    <3> QED
      BY <1>0, <1>3, <3>2, <3>3 DEF LateInv
  <2> QED
    BY <2>1, <2>2
<1>4. ASSUME NEW u \in Tasks \ CancelFast, NEW i \in 1 .. n + 1, Queued(i, u, "UPDATE")',
             OutcomeWithin(u, i)'
      PROVE  FALSE
  <2>1. CASE i \in 1 .. n
    <3>1. Queued(i, u, "UPDATE") /\ OutcomeWithin(u, i)
      BY <1>1, <1>4, <2>1 DEF Queued, OutcomeWithin
    <3> QED
      BY <1>0, <2>1, <3>1 DEF LateInv
  <2>2. CASE i = n + 1
    <3>1. u = t /\ w = "UPDATE" /\ wpc[u] = "work"
      BY <1>1, <1>4, <2>2 DEF Queued
    <3>2. PICK v \in Outcome : Told(u, v)
      <4>1. CASE \E v \in Outcome : called[u][v] > 0
        BY <4>1 DEF Told
      <4>2. CASE \E k \in 1 .. n + 1 : uiQueue'[k].task = u /\ uiQueue'[k].what \in Outcome
        <5>1. PICK k \in 1 .. n + 1 : uiQueue'[k].task = u /\ uiQueue'[k].what \in Outcome
          BY <4>2
        <5>2. k \in 1 .. n /\ uiQueue'[k] = uiQueue[k]
          BY <1>1, <3>1, <5>1 DEF Outcome
        <5> QED
          BY <1>0, <5>1, <5>2 DEF Told
      <4> QED
        BY <1>4, <2>2, <4>1, <4>2 DEF OutcomeWithin
    <3>3. CASE v \in Reports
      BY <3>1, <3>2, <3>3 DEF CancelInv, Reports
    <3>4. CASE v = "CANCEL"
      BY <1>4, <3>1, <3>2, <3>4 DEF CancelInv, Announced, Before
    <3> QED
      BY <3>2, <3>3, <3>4 DEF Outcome, Reports
  <2> QED
    BY <1>1, <2>1, <2>2
<1> QED
  BY <1>1, <1>3, <1>4 DEF LateInv

LEMMA LateHandle ==
    ASSUME TypeOK, LateInv, HandleMessage
    PROVE  LateInv'
<1>1. /\ Len(uiQueue) \in Nat /\ Len(uiQueue') = Len(uiQueue) - 1 /\ 1 \in 1 .. Len(uiQueue)
      /\ \A i \in 1 .. Len(uiQueue') : uiQueue'[i] = uiQueue[i + 1] /\ i + 1 \in 2 .. Len(uiQueue)
      /\ \A t \in Tasks, w \in What : called'[t][w] > 0 => called[t][w] > 0 \/ Queued(1, t, w)
  <2>1. uiQueue # <<>>
    BY DEF HandleMessage
  <2>2. Len(uiQueue) \in Nat \ {0}
    BY <2>1, QueueType
  <2> QED
    BY <2>2, HandleKeepsOutcome DEF Queued
<1>2. Reports \subseteq Outcome /\ Outcome \subseteq What
  BY DEF Reports, Outcome, What
<1>3. ASSUME NEW t \in Tasks, NEW w \in Reports, NEW i \in 1 .. Len(uiQueue'), Queued(i, t, w)'
      PROVE  /\ called'[t][w] = 0
             /\ \A j \in 1 .. Len(uiQueue') : Queued(j, t, w)' => i = j
  <2>1. Queued(i + 1, t, w) /\ i + 1 \in 1 .. Len(uiQueue) /\ i + 1 # 1
    BY <1>1, <1>3 DEF Queued
  <2>2. ~(called'[t][w] > 0)
    BY <1>1, <1>2, <2>1 DEF LateInv
  <2>3. called'[t][w] \in Nat
    <3>1. TypeOK'
      BY TypeStep DEF Next
    <3> QED
      BY <1>2, <3>1 DEF TypeOK, Callbacks
  <2>4. ASSUME NEW j \in 1 .. Len(uiQueue'), Queued(j, t, w)' PROVE i = j
    <3>1. Queued(j + 1, t, w) /\ j + 1 \in 1 .. Len(uiQueue)
      BY <1>1, <2>4 DEF Queued
    <3>2. i + 1 = j + 1
      BY <2>1, <3>1 DEF LateInv
    <3> QED
      BY <1>1, <3>2
  <2> QED
    BY <2>2, <2>3, <2>4
<1>4. ASSUME NEW t \in Tasks \ CancelFast, NEW i \in 1 .. Len(uiQueue'), Queued(i, t, "UPDATE")',
             OutcomeWithin(t, i)'
      PROVE  FALSE
  <2>1. Queued(i + 1, t, "UPDATE") /\ i + 1 \in 1 .. Len(uiQueue)
    BY <1>1, <1>4 DEF Queued
  <2>2. OutcomeWithin(t, i + 1)
    <3>1. CASE \E w \in Outcome : called'[t][w] > 0
      <4>1. PICK w \in Outcome : called[t][w] > 0 \/ Queued(1, t, w)
        BY <1>1, <1>2, <3>1
      <4>2. 1 \in 1 .. i + 1
        OBVIOUS
      <4> QED
        BY <4>1, <4>2 DEF OutcomeWithin, Queued
    <3>2. CASE \E k \in 1 .. i : uiQueue'[k].task = t /\ uiQueue'[k].what \in Outcome
      <4>1. PICK k \in 1 .. i : uiQueue'[k].task = t /\ uiQueue'[k].what \in Outcome
        BY <3>2
      <4>2. uiQueue'[k] = uiQueue[k + 1] /\ k + 1 \in 1 .. i + 1
        BY <1>1, <4>1
      <4> QED
        BY <4>1, <4>2 DEF OutcomeWithin
    <3> QED
      BY <1>4, <3>1, <3>2 DEF OutcomeWithin
  <2> QED
    BY <2>1, <2>2 DEF LateInv
<1> QED
  BY <1>3, <1>4 DEF LateInv

\* Nothing the UI hears of a finished task is news.
LEMMA HandleAfterFinished ==
    ASSUME TypeOK, FinishInv, CancelInv, LateInv, HandleMessage,
           NEW t \in Tasks \ CancelFast, called[t]["FINISHED"] > 0,
           NEW w \in Outcome \cup {"UPDATE"}
    PROVE  called'[t][w] = called[t][w]
<1>1. 1 \in 1 .. Len(uiQueue) /\ Head(uiQueue) = uiQueue[1] /\ uiQueue[1].what \in What
  BY QueueType DEF HandleMessage
<1>2. PICK v \in Outcome : called[t][v] > 0
  BY DEF FinishInv, OutcomeBeforeFinished
<1>3. CASE Queued(1, t, w)
  <2>1. w # "UPDATE"
    BY <1>1, <1>2, <1>3 DEF LateInv, OutcomeWithin
  <2>2. w \in Outcome
    BY <2>1
  <2>3. Told(t, w) /\ Told(t, v)
    BY <1>1, <1>2, <1>3 DEF Told, Queued
  <2>4. v = w
    BY <1>2, <2>2, <2>3 DEF CancelInv, Announced, Outcome, Before
  <2>5. w = "CANCEL"
    BY <1>1, <1>2, <1>3, <2>2, <2>4 DEF LateInv, Outcome, Reports
  <2>6. Dropped(uiQueue[1])
    BY <1>2, <1>3, <2>4, <2>5 DEF Dropped, Queued
  <2>7. called' = called
    BY <1>1, <2>6 DEF HandleMessage
  <2> QED
    BY <2>7
<1>4. CASE ~Queued(1, t, w)
  <2>1. CASE Dropped(Head(uiQueue))
    BY <2>1 DEF HandleMessage
  <2>2. CASE ~Dropped(Head(uiQueue))
    <3> DEFINE m == Head(uiQueue)
    <3>1. PICK b \in BOOLEAN :
              called' = [called EXCEPT ![m.task] =
                 [u \in Callbacks |-> IF u \in Ran(m, b) THEN @[u] + 1 ELSE @[u]]]
      BY <2>2 DEF HandleMessage
    <3>2. w \in Callbacks /\ (w \in Ran(m, b) => w = m.what)
      BY DEF Ran, What, Outcome, Callbacks
    <3>3. called'[t] = IF t = m.task
            THEN [u \in Callbacks |-> IF u \in Ran(m, b) THEN called[t][u] + 1 ELSE called[t][u]]
            ELSE called[t]
      BY <3>1 DEF TypeOK
    <3>4. m.task # t \/ m.what # w
      BY <1>1, <1>4 DEF Queued
    <3> QED
      BY <3>2, <3>3, <3>4
  <2> QED
    BY <2>1, <2>2
<1> QED
  BY <1>3, <1>4

\* Updates and outcomes come in order and once, whatever the cancellers post.
LEMMA LateOrder == Spec => []LateInv
<1>1. Init => LateInv
  BY DEF Init, LateInv
<1>2. TypeOK /\ CancelInv /\ LateInv /\ [Next]_vars => LateInv'
  <2> SUFFICES ASSUME TypeOK, CancelInv, LateInv, [Next]_vars PROVE LateInv'
    OBVIOUS
  <2>1. CASE HandleMessage
    BY <2>1, LateHandle
  <2>2. CASE called' = called /\ uiQueue' = uiQueue
    BY <2>2 DEF LateInv, Queued, OutcomeWithin
  <2> QED
    BY <2>1, <2>2, WhoPosts, LatePost
<1> QED
  BY <1>1, <1>2, TypeCorrect, CancelHonoured, PTL DEF Spec

\* After onFinished() a task that is not cancel-fast hears of no outcome and no
\* update any more, whatever messages were still on their way.
THEOREM FinishedIsLast == Spec => NothingAfterFinished
<1> DEFINE A == \A t \in Tasks \ CancelFast :
                   called[t]["FINISHED"] > 0 =>
                       \A w \in Outcome \cup {"UPDATE"} : called'[t][w] = called[t][w]
<1>1. TypeOK /\ FinishInv /\ CancelInv /\ LateInv /\ [Next]_vars
      => [A]_called
  <2> SUFFICES ASSUME TypeOK, FinishInv, CancelInv, LateInv, [Next]_vars
               PROVE  A \/ called' = called
    OBVIOUS
  <2>1. CASE HandleMessage
    BY <2>1, HandleAfterFinished
  <2>2. CASE ~HandleMessage
    BY <2>2, WhoPosts
  <2> QED
    BY <2>1, <2>2
<1> QED
  BY <1>1, TypeCorrect, FinishOrder, CancelHonoured, LateOrder, PTL
  DEF Spec, NothingAfterFinished

-----------------------------------------------------------------------------
(* The order of all callbacks.                                             *)

\* The callbacks that only the pool thread posts.
Own == Reports \cup {"WAITING", "START", "UPDATE"}

\* Callback w of t has run or is among the first n messages.
Within(t, w, n) == called[t][w] > 0 \/ \E i \in 1 .. n : Queued(i, t, w)

\* Behind n messages, w of t is in the order its listener is promised.
Ready(t, w, n) ==
    /\ \A v \in Listener!Needs(w) : Within(t, v, n)
    /\ \A v \in Listener!Bars(w) : ~Within(t, v, n)

QueueInOrder ==
    \A t \in Tasks, w \in Own, i \in 1 .. Len(uiQueue) :
        Queued(i, t, w) => Ready(t, w, i - 1)

\* What the thread of t has posted, by where it stands.
PostedBy(t) ==
    /\ wpc[t] \in {"new", "postWaiting"} <=> ~Told(t, "WAITING")
    /\ wpc[t] \in Before \cup {"postStart"} => ~Told(t, "START")
    /\ wpc[t] \in {"check2", "work", "check3"} => Told(t, "START")
    /\ wpc[t] \in {"set", "post"} /\ out[t] # "CANCEL" => Told(t, "START")

\* The inductive invariant behind the order of the callbacks.
OrderInv == QueueInOrder /\ \A t \in Tasks : PostedBy(t)

\* The tables of TaskCallbacks, row by row.
LEMMA OwnTables ==
    /\ Own \subseteq What /\ Outcome \subseteq What
    /\ Listener!Needs("WAITING") = {} /\ Listener!Bars("WAITING") = {"WAITING"}
    /\ Listener!Needs("START") = {"WAITING"} /\ Listener!Bars("START") = {"START"}
    /\ Listener!Needs("UPDATE") = {"START"} /\ Listener!Bars("UPDATE") = Reports
    /\ \A w \in Reports : Listener!Needs(w) = {"START"} /\ Listener!Bars(w) = Reports
    /\ \A w \in {"CANCEL", "FINISHED"} : Listener!Needs(w) = {} /\ Listener!Bars(w) = {w}
    /\ \A w \in Own : Listener!Needs(w) \subseteq What /\ Listener!Bars(w) \subseteq What
BY DEF Own, Reports, What, Outcome, Listener!Needs, Listener!Bars

\* A message posted is told, and nothing else.
LEMMA PostIsTold ==
    ASSUME TypeOK, NEW t \in Tasks, NEW w \in What, Post(t, w), called' = called
    PROVE  \A u \in Tasks, v \in What : Told(u, v)' <=> Told(u, v) \/ (u = t /\ v = w)
<1>1. PICK n \in Nat : n = Len(uiQueue)
  BY QueueType
<1>2. /\ Len(uiQueue') = n + 1
      /\ \A i \in 1 .. n : uiQueue'[i] = uiQueue[i]
      /\ uiQueue'[n + 1] = [task |-> t, what |-> w]
  BY <1>1, QueueType, PostAppends
<1>3. \A u \in Tasks, v \in What : Told(u, v)' => Told(u, v) \/ (u = t /\ v = w)
  BY QueueType, PostTells DEF Told, ToldNext
<1>4. ASSUME NEW u \in Tasks, NEW v \in What, Told(u, v)
      PROVE  Told(u, v)'
  <2>1. CASE called[u][v] > 0
    BY <2>1 DEF Told
  <2>2. ASSUME NEW i \in 1 .. n, Queued(i, u, v) PROVE Told(u, v)'
    <3>1. i \in 1 .. n + 1
      BY <1>1
    <3> QED
      BY <1>2, <2>2, <3>1 DEF Told, Queued
  <2> QED
    BY <1>1, <1>4, <2>1, <2>2 DEF Told, Queued
<1>5. Told(t, w)'
  <2>1. n + 1 \in 1 .. n + 1
    BY <1>1
  <2> QED
    BY <1>2, <2>1 DEF Told
<1> QED
  BY <1>3, <1>4, <1>5

\* Handling a message tells nothing: what was within n messages is within n - 1.
LEMMA HandleShifts ==
    ASSUME TypeOK, HandleMessage
    PROVE  /\ \A t \in Tasks, w \in What, n \in 1 .. Len(uiQueue) :
                 Within(t, w, n - 1)' <=> Within(t, w, n)
           /\ \A t \in Tasks, w \in What : Told(t, w)' <=> Told(t, w)
<1>1. PICK last \in Nat : last + 1 = Len(uiQueue)
  BY QueueType DEF HandleMessage
<1>2. /\ Len(uiQueue') = last /\ \A i \in 1 .. last : uiQueue'[i] = uiQueue[i + 1]
      /\ \A t \in Tasks, w \in What : called[t][w] > 0 => called'[t][w] > 0
      /\ \A t \in Tasks, w \in What : called'[t][w] > 0 => called[t][w] > 0 \/ Queued(1, t, w)
      /\ \A t \in Tasks, w \in What : Queued(1, t, w) => called'[t][w] > 0
  BY <1>1, HandleKeepsOutcome DEF Queued
<1>3. ASSUME NEW t \in Tasks, NEW w \in What, NEW n \in 1 .. last + 1
      PROVE  Within(t, w, n - 1)' <=> Within(t, w, n)
  <2>1. \A i \in 1 .. n - 1 :
           i \in 1 .. last /\ i + 1 \in 1 .. n /\ (Queued(i, t, w)' <=> Queued(i + 1, t, w))
    BY <1>1, <1>2 DEF Queued
  <2>2. \A i \in 1 .. n : i = 1 \/ (i - 1 \in 1 .. n - 1 /\ (i - 1) + 1 = i)
    BY <1>1
  <2>3. 1 \in 1 .. n
    BY <1>1
  <2>4. Within(t, w, n - 1)' => Within(t, w, n)
    <3>1. ASSUME NEW i \in 1 .. n - 1, Queued(i, t, w)' PROVE Within(t, w, n)
      BY <2>1, <3>1 DEF Within
    <3>2. ASSUME called'[t][w] > 0 PROVE Within(t, w, n)
      BY <1>2, <2>3, <3>2 DEF Within
    <3> QED
      BY <3>1, <3>2 DEF Within
  <2>5. ASSUME Within(t, w, n) PROVE Within(t, w, n - 1)'
    <3>1. ASSUME NEW i \in 1 .. n, Queued(i, t, w) PROVE Within(t, w, n - 1)'
      <4>1. CASE i = 1
        BY <1>2, <3>1, <4>1 DEF Within
      <4>2. CASE i # 1
        <5>1. i - 1 \in 1 .. n - 1 /\ Queued(i - 1, t, w)'
          BY <2>1, <2>2, <3>1, <4>2
        <5> QED
          BY <5>1 DEF Within
      <4> QED
        BY <4>1, <4>2
    <3>2. CASE called[t][w] > 0
      BY <1>2, <3>2 DEF Within
    <3> QED
      BY <2>5, <3>1, <3>2 DEF Within
  <2> QED
    BY <2>4, <2>5
<1>4. last + 1 \in 1 .. last + 1 /\ (last + 1) - 1 = last
  BY <1>1
<1>5. ASSUME NEW t \in Tasks, NEW w \in What
      PROVE  Told(t, w)' <=> Told(t, w)
  <2>1. Within(t, w, last)' <=> Within(t, w, last + 1)
    BY <1>3, <1>4
  <2> QED
    BY <1>1, <1>2, <2>1 DEF Told, Within, Queued
<1> QED
  BY <1>1, <1>3, <1>5

\* A message posted when it is ready leaves the queue in order ...
LEMMA OrderPost ==
    ASSUME TypeOK, QueueInOrder, NEW t \in Tasks, NEW w \in What, Post(t, w), called' = called,
           w \in Own => Ready(t, w, Len(uiQueue))
    PROVE  QueueInOrder'
<1>1. PICK n \in Nat : n = Len(uiQueue)
  BY QueueType
<1>2. /\ Len(uiQueue') = n + 1
      /\ \A i \in 1 .. n : uiQueue'[i] = uiQueue[i]
      /\ uiQueue'[n + 1] = [task |-> t, what |-> w]
  BY <1>1, QueueType, PostAppends
<1>3. ASSUME NEW u, NEW v, NEW k \in 0 .. n
      PROVE  Within(u, v, k)' <=> Within(u, v, k)
  <2>1. \A i \in 1 .. k : Queued(i, u, v)' <=> Queued(i, u, v)
    BY <1>1, <1>2 DEF Queued
  <2> QED
    BY <2>1 DEF Within
<1>4. ASSUME NEW u \in Tasks, NEW v \in Own, NEW i \in 1 .. n + 1, Queued(i, u, v)'
      PROVE  Ready(u, v, i - 1)'
  <2>1. i - 1 \in 0 .. n
    BY <1>1
  <2>2. Ready(u, v, i - 1)
    <3>1. CASE i = n + 1
      <4>1. u = t /\ v = w /\ i - 1 = Len(uiQueue)
        BY <1>1, <1>2, <1>4, <3>1 DEF Queued
      <4> QED
        BY <4>1
    <3>2. CASE i \in 1 .. n
      <4>1. Queued(i, u, v)
        BY <1>2, <1>4, <3>2 DEF Queued
      <4> QED
        BY <1>1, <3>2, <4>1 DEF QueueInOrder
    <3> QED
      BY <1>1, <3>1, <3>2
  <2> QED
    BY <1>3, <2>1, <2>2 DEF Ready
<1> QED
  BY <1>2, <1>4 DEF QueueInOrder

\* ... and so does the first one being handled.
LEMMA OrderHandle ==
    ASSUME TypeOK, QueueInOrder, HandleMessage
    PROVE  QueueInOrder'
<1>1. PICK last \in Nat : last + 1 = Len(uiQueue)
  BY QueueType DEF HandleMessage
<1>2. Len(uiQueue') = last /\ \A i \in 1 .. last : uiQueue'[i] = uiQueue[i + 1]
  BY <1>1, HandleKeepsOutcome
<1>3. ASSUME NEW t \in Tasks, NEW w \in Own, NEW i \in 1 .. last, Queued(i, t, w)'
      PROVE  Ready(t, w, i - 1)'
  <2>1. i + 1 \in 1 .. last + 1 /\ i \in 1 .. last + 1 /\ (i + 1) - 1 = i
    BY <1>1
  <2>2. Queued(i + 1, t, w)
    BY <1>2, <1>3 DEF Queued
  <2>3. Ready(t, w, i)
    BY <1>1, <2>1, <2>2 DEF QueueInOrder
  <2>4. \A v \in What : Within(t, v, i - 1)' <=> Within(t, v, i)
    BY <1>1, <2>1, HandleShifts
  <2> QED
    BY <2>3, <2>4, OwnTables DEF Ready
<1> QED
  BY <1>2, <1>3 DEF QueueInOrder

\* Where the pool thread posts its callbacks they are in order.
LEMMA PostsInOrder ==
    ASSUME TypeOK, CancelInv, OrderInv, NEW t \in Tasks
    PROVE  /\ wpc[t] = "postWaiting" => Ready(t, "WAITING", Len(uiQueue))
           /\ wpc[t] = "postStart" => Ready(t, "START", Len(uiQueue))
           /\ wpc[t] = "work" => Ready(t, "UPDATE", Len(uiQueue))
           /\ wpc[t] = "post" /\ out[t] # "CANCEL" => Ready(t, out[t], Len(uiQueue))
<1>1. \A w : Within(t, w, Len(uiQueue)) <=> Told(t, w)
  BY DEF Within, Told, Queued
<1>2. \A w \in Reports : Told(t, w) => wpc[t] \in {"finish", "done"}
  BY DEF CancelInv, Reports
<1>3. PostedBy(t)
  BY DEF OrderInv
<1>4. out[t] # "CANCEL" => out[t] \in Reports
  BY DEF TypeOK, Outcome, Reports
<1>5. ASSUME wpc[t] = "postWaiting" PROVE Ready(t, "WAITING", Len(uiQueue))
  BY <1>1, <1>3, <1>5, OwnTables DEF Ready, PostedBy
<1>6. ASSUME wpc[t] = "postStart" PROVE Ready(t, "START", Len(uiQueue))
  BY <1>1, <1>3, <1>6, OwnTables DEF Ready, PostedBy
<1>7. ASSUME wpc[t] = "work" PROVE Ready(t, "UPDATE", Len(uiQueue))
  BY <1>1, <1>2, <1>3, <1>7, OwnTables DEF Ready, PostedBy
<1>8. ASSUME wpc[t] = "post", out[t] # "CANCEL" PROVE Ready(t, out[t], Len(uiQueue))
  <2>1. Told(t, "START") /\ \A v \in Reports : ~Told(t, v)
    BY <1>2, <1>3, <1>8 DEF PostedBy
  <2> QED
    BY <1>1, <1>4, <1>8, <2>1, OwnTables DEF Ready
<1> QED
  BY <1>5, <1>6, <1>7, <1>8

\* A step tells at most what one thread posts where it stands.
LEMMA OrderStep ==
    ASSUME TypeOK, CancelInv, OrderInv, [Next]_vars
    PROVE  OrderInv'
<1>1. CASE HandleMessage
  <2>1. wpc' = wpc /\ out' = out
    BY <1>1 DEF HandleMessage
  <2>2. \A t \in Tasks : (Told(t, "WAITING")' <=> Told(t, "WAITING"))
                         /\ (Told(t, "START")' <=> Told(t, "START"))
    BY <1>1, HandleShifts DEF What
  <2>3. \A t \in Tasks : PostedBy(t)'
    BY <2>1, <2>2 DEF OrderInv, PostedBy
  <2> QED
    BY <1>1, <2>3, OrderHandle DEF OrderInv
<1>2. ASSUME called' = called, wpc' = wpc, out' = out,
             \/ uiQueue' = uiQueue
             \/ \E t \in Tasks, w \in {"CANCEL", "FINISHED"} : Post(t, w)
      PROVE  OrderInv'
  <2>1. CASE uiQueue' = uiQueue
    BY <1>2, <2>1 DEF OrderInv, QueueInOrder, PostedBy, Told, Ready, Within, Queued
  <2>2. ASSUME NEW t \in Tasks, NEW w \in {"CANCEL", "FINISHED"}, Post(t, w)
        PROVE  OrderInv'
    <3>1. w \in What /\ w \notin Own /\ {"WAITING", "START"} \subseteq What
      BY DEF What, Outcome, Own, Reports
    <3>2. QueueInOrder'
      BY <1>2, <2>2, <3>1, OrderPost DEF OrderInv
    <3>3. \A u \in Tasks, v \in {"WAITING", "START"} : Told(u, v)' <=> Told(u, v)
      BY <1>2, <2>2, <3>1, PostIsTold
    <3>4. \A u \in Tasks : PostedBy(u)'
      BY <1>2, <3>3 DEF OrderInv, PostedBy
    <3> QED
      BY <3>2, <3>4 DEF OrderInv
  <2> QED
    BY <1>2, <2>1, <2>2
<1>3. ASSUME NEW t \in Tasks, called' = called,
             \A u \in Tasks \ {t} : wpc'[u] = wpc[u] /\ out'[u] = out[u],
             NEW w \in What, Post(t, w), w \in Own => Ready(t, w, Len(uiQueue)),
             (\A v \in What : Told(t, v)' <=> Told(t, v) \/ v = w) => PostedBy(t)'
      PROVE  OrderInv'
  <2>1. \A u \in Tasks, v \in What : Told(u, v)' <=> Told(u, v) \/ (u = t /\ v = w)
    BY <1>3, PostIsTold
  <2>2. QueueInOrder'
    BY <1>3, OrderPost DEF OrderInv
  <2>3. "WAITING" \in What /\ "START" \in What
    BY DEF What
  <2>4. \A u \in Tasks \ {t} : PostedBy(u)'
    BY <1>3, <2>1, <2>3 DEF OrderInv, PostedBy
  <2>5. PostedBy(t)'
    BY <1>3, <2>1
  <2> QED
    BY <2>2, <2>4, <2>5 DEF OrderInv
<1>4. ASSUME NEW t \in Tasks, called' = called, uiQueue' = uiQueue,
             \A u \in Tasks \ {t} : wpc'[u] = wpc[u] /\ out'[u] = out[u],
             (\A v : Told(t, v)' <=> Told(t, v)) => PostedBy(t)'
      PROVE  OrderInv'
  <2>1. \A u, v : Told(u, v)' <=> Told(u, v)
    BY <1>4 DEF Told
  <2>2. QueueInOrder'
    BY <1>4 DEF OrderInv, QueueInOrder, Ready, Within, Queued
  <2>3. \A u \in Tasks \ {t} : PostedBy(u)'
    BY <1>4, <2>1 DEF OrderInv, PostedBy
  <2>4. PostedBy(t)'
    BY <1>4, <2>1
  <2> QED
    BY <2>2, <2>3, <2>4 DEF OrderInv
<1>5. ASSUME NEW t \in Tasks, SetWaiting(t) \/ RunStep(t) \/ Update(t)
      PROVE  OrderInv'
  <2> DEFINE Rest == \A u \in Tasks \ {t} : wpc'[u] = wpc[u] /\ out'[u] = out[u]
  <2>1. PostedBy(t) /\ wpc[t] \in RunPc /\ out[t] \in Outcome
    BY DEF OrderInv, TypeOK
  <2>2. CASE PostWaiting(t)
    <3>1. /\ wpc[t] = "postWaiting" /\ wpc'[t] = "submit" /\ out' = out /\ called' = called
          /\ Post(t, "WAITING") /\ Rest
      BY <2>2 DEF PostWaiting, Goto, TypeOK
    <3>2. "WAITING" \in What /\ Ready(t, "WAITING", Len(uiQueue))
      BY <3>1, PostsInOrder DEF What
    <3>3. (\A v \in What : Told(t, v)' <=> Told(t, v) \/ v = "WAITING") => PostedBy(t)'
      BY <2>1, <3>1 DEF PostedBy, Before, What
    <3> QED
      BY <1>3, <3>1, <3>2, <3>3
  <2>3. CASE PostStart(t)
    <3>1. /\ wpc[t] = "postStart" /\ wpc'[t] = "check2" /\ out' = out /\ called' = called
          /\ Post(t, "START") /\ Rest
      BY <2>3 DEF PostStart, Goto, TypeOK
    <3>2. "START" \in What /\ Ready(t, "START", Len(uiQueue))
      BY <3>1, PostsInOrder DEF What
    <3>3. (\A v \in What : Told(t, v)' <=> Told(t, v) \/ v = "START") => PostedBy(t)'
      BY <2>1, <3>1 DEF PostedBy, Before, What
    <3> QED
      BY <1>3, <3>1, <3>2, <3>3
  <2>4. CASE Update(t)
    <3>1. /\ wpc[t] = "work" /\ wpc' = wpc /\ out' = out /\ called' = called
          /\ Post(t, "UPDATE") /\ Rest
      BY <2>4 DEF Update
    <3>2. "UPDATE" \in What /\ Ready(t, "UPDATE", Len(uiQueue))
      BY <3>1, PostsInOrder DEF What
    <3>3. (\A v \in What : Told(t, v)' <=> Told(t, v) \/ v = "UPDATE") => PostedBy(t)'
      BY <2>1, <3>1 DEF PostedBy, Before, What
    <3> QED
      BY <1>3, <3>1, <3>2, <3>3
  <2>5. CASE PostOutcome(t)
    <3>1. /\ wpc[t] = "post" /\ wpc'[t] = "finish" /\ out' = out /\ called' = called
          /\ Post(t, out[t]) /\ Rest
      BY <2>5 DEF PostOutcome, Goto, TypeOK
    <3>2. PICK o \in Outcome : o = out[t]
      BY <2>1
    <3>3. Post(t, o) /\ o \in What /\ o \notin {"WAITING", "START"}
      BY <3>1, <3>2 DEF What, Outcome
    <3>4. o \in Own => Ready(t, o, Len(uiQueue))
      <4>1. o \in Own => o # "CANCEL"
        BY DEF Own, Reports
      <4> QED
        BY <3>1, <3>2, <4>1, PostsInOrder
    <3>5. (\A v \in What : Told(t, v)' <=> Told(t, v) \/ v = o) => PostedBy(t)'
      BY <2>1, <3>1, <3>3 DEF PostedBy, Before, What
    <3> QED
      BY <1>3, <3>1, <3>3, <3>4, <3>5
  <2>6. CASE PostFinished(t)
    <3>1. /\ wpc[t] = "finish" /\ wpc'[t] = "done" /\ out' = out /\ called' = called
          /\ Post(t, "FINISHED") /\ Rest
      BY <2>6 DEF PostFinished, Goto, TypeOK
    <3>2. "FINISHED" \in What /\ "FINISHED" \notin Own
      BY DEF What, Outcome, Own, Reports
    <3>3. (\A v \in What : Told(t, v)' <=> Told(t, v) \/ v = "FINISHED") => PostedBy(t)'
      BY <2>1, <3>1 DEF PostedBy, Before, What
    <3> QED
      BY <1>3, <3>1, <3>2, <3>3
  <2>7. CASE SetWaiting(t) \/ Execute(t) \/ TakeFromPool(t) \/ SetStarted(t) \/ WorkReturns(t)
             \/ SetOutcome(t)
    <3>1. /\ out' = out /\ called' = called /\ uiQueue' = uiQueue /\ Rest
          /\ \/ wpc[t] = "new" /\ wpc'[t] = "postWaiting"
             \/ wpc[t] \in {"submit", "queued"} /\ wpc'[t] \in {"queued", "check1"}
             \/ wpc[t] = "start" /\ wpc'[t] = "postStart"
             \/ wpc[t] = "work" /\ wpc'[t] = "check3"
             \/ wpc[t] = "set" /\ wpc'[t] = "post"
      BY <2>7 DEF SetWaiting, Execute, TakeFromPool, SetStarted, WorkReturns, SetOutcome, Goto,
         TypeOK
    <3>2. (\A v : Told(t, v)' <=> Told(t, v)) => PostedBy(t)'
      BY <2>1, <3>1 DEF PostedBy, Before
    <3> QED
      BY <1>4, <3>1, <3>2
  <2>8. CASE Check1(t) \/ Check2(t) \/ Check3(t) \/ WorkThrows(t)
    <3>1. /\ called' = called /\ uiQueue' = uiQueue /\ Rest
          /\ \/ wpc[t] = "check1" /\ wpc'[t] = "start"
             \/ wpc[t] = "check2" /\ wpc'[t] = "work"
             \/ wpc[t] = "check1" /\ wpc'[t] = "set" /\ out'[t] = "CANCEL"
             \/ wpc[t] \in {"check2", "check3", "work"} /\ wpc'[t] = "set"
      BY <2>8 DEF Check1, Check2, Check3, CheckCancelled, WorkThrows, Goto, TypeOK
    <3>2. (\A v : Told(t, v)' <=> Told(t, v)) => PostedBy(t)'
      BY <2>1, <3>1 DEF PostedBy, Before
    <3> QED
      BY <1>4, <3>1, <3>2
  <2> QED
    BY <1>5, <2>2, <2>3, <2>4, <2>5, <2>6, <2>7, <2>8 DEF RunStep
<1>6. ASSUME NEW c \in Cancellers, CancelStep(c) PROVE OrderInv'
  <2>1. cpc[c] # Idle
    BY <1>6 DEF CancelStep, EnterCancel, CancelHandler, ReadState, SetCancelled, PostCancel,
       PostCancelFinished
  <2>2. cpc[c].task \in Tasks
    BY <2>1, FrameTypes DEF TypeOK, Frame
  <2>3. /\ called' = called /\ wpc' = wpc /\ out' = out
        /\ \/ uiQueue' = uiQueue
           \/ \E t \in Tasks, w \in {"CANCEL", "FINISHED"} : Post(t, w)
    BY <1>6, <2>2 DEF CancelStep, EnterCancel, CancelHandler, ReadState, SetCancelled, PostCancel,
       PostCancelFinished
  <2> QED
    BY <1>2, <2>3
<1>7. CASE \E c \in Cancellers, t \in Tasks, o \in {"task", "proxy"} : CallCancel(c, t, o)
  BY <1>2, <1>7 DEF CallCancel
<1>8. CASE UNCHANGED vars
  BY <1>2, <1>8 DEF vars
<1> QED
  BY <1>1, <1>5, <1>6, <1>7, <1>8 DEF Next

\* What doBackground posts is in order in every reachable state.
LEMMA CallbackOrder == Spec => []OrderInv
<1>1. Init => OrderInv
  BY DEF Init, OrderInv, QueueInOrder, PostedBy, Told, What, Callbacks, Before
<1> QED
  BY <1>1, OrderStep, TypeCorrect, CancelHonoured, PTL DEF Spec

\* What the UI thread calls next is due.
LEMMA HeadIsDue ==
    ASSUME TypeOK, FinishInv, CancelInv, LateInv, OrderInv, uiQueue # <<>>,
           NEW t \in Tasks, NEW w \in What, Queued(1, t, w), ~Dropped(uiQueue[1])
    PROVE  Listener!Due(t, w)
<1>1. 1 \in 1 .. Len(uiQueue) /\ Len(uiQueue) \in Nat
  BY QueueType
<1>2. \A v : Within(t, v, 0) <=> called[t][v] > 0
  BY DEF Within
<1>3. w \in {"CANCEL", "FINISHED"} => ~(called[t][w] > 0)
  BY DEF Dropped, Queued
<1>4. w \in Own \/ w \in {"CANCEL", "FINISHED"}
  BY DEF What, Outcome, Own, Reports
<1>5. w \in Own => Ready(t, w, 0)
  BY <1>1 DEF OrderInv, QueueInOrder
<1>6. /\ \A v \in Listener!Needs(w) : called[t][v] > 0
      /\ \A v \in Listener!Bars(w) : ~(called[t][v] > 0)
  <2>1. CASE w \in Own
    BY <1>2, <1>5, <2>1 DEF Ready
  <2>2. CASE w \in {"CANCEL", "FINISHED"}
    BY <1>3, <2>2, OwnTables
  <2> QED
    BY <1>4, <2>1, <2>2
<1>7. w = "FINISHED" => \E v \in Outcome : called[t][v] > 0
  <2>1. w = "FINISHED" => OutcomeWithin(t, 1 - 1)
    BY <1>1 DEF FinishInv, Queued
  <2> QED
    BY <2>1 DEF OutcomeWithin
<1>8. ASSUME t \notin CancelFast, w \in Outcome \cup {"UPDATE"},
             NEW v \in Outcome, called[t][v] > 0
      PROVE  FALSE
  <2>1. w # "UPDATE"
    BY <1>1, <1>8 DEF LateInv, OutcomeWithin
  <2>2. Told(t, w) /\ Told(t, v)
    BY <1>1, <1>8 DEF Told, Queued
  <2>3. v = w
    BY <1>8, <2>1, <2>2 DEF CancelInv, Announced, Outcome, Before
  <2>4. w \in Listener!Bars(w)
    BY <1>8, <2>1, OwnTables DEF Outcome, Reports
  <2> QED
    BY <1>6, <1>8, <2>3, <2>4
<1> QED
  BY <1>6, <1>7, <1>8 DEF Listener!Due, Listener!Heard, Listener!Outcome, Outcome

\* A message handled is a callback the listener is promised, or is dropped.
LEMMA ListenerHears ==
    ASSUME TypeOK, FinishInv, CancelInv, LateInv, OrderInv, HandleMessage
    PROVE  Listener!Next \/ called' = called
<1> DEFINE m == uiQueue[1]
           t == m.task
           w == m.what
<1>1. uiQueue # <<>> /\ m = Head(uiQueue) /\ t \in Tasks /\ w \in What /\ Queued(1, t, w)
  BY QueueType DEF HandleMessage, Queued
<1>2. CASE Dropped(m)
  BY <1>1, <1>2 DEF HandleMessage
<1>3. CASE ~Dropped(m)
  <2>1. Listener!Due(t, w)
    BY <1>1, <1>3, HeadIsDue
  <2>2. PICK b \in IF t \in Throwers THEN BOOLEAN ELSE {FALSE} :
            called' = [called EXCEPT ![t] =
               [v \in Callbacks |-> IF v \in Ran(m, b) THEN @[v] + 1 ELSE @[v]]]
    BY <1>1, <1>3 DEF HandleMessage
  <2>3. b \in BOOLEAN /\ (b => t \in Throwers)
    BY <2>2
  <2>4. Callbacks = Listener!Callbacks
    BY DEF Listener!Callbacks, Listener!What, Listener!Outcome, Callbacks, What, Outcome
  <2>5. Ran(m, b) = Listener!Ran(w, b)
    BY Zenon DEF Ran, Listener!Ran
  <2>6. Listener!Hear(t, w, b)
    BY <2>1, <2>2, <2>3, <2>4, <2>5, Zenon DEF Listener!Hear
  <2> QED
    BY <1>1, <2>3, <2>6 DEF Listener!Next, Listener!What, Listener!Outcome, What, Outcome
<1> QED
  BY <1>2, <1>3

\* What a listener hears of a task is what TaskCallbacks promises it, for tasks
\* that are cancel-fast and tasks that are not: TaskProxy implements it.
THEOREM CallbacksRefined == Spec => ImplementsCallbacks
<1>1. Init => Listener!Init
  BY DEF Init, Listener!Init, Listener!Callbacks, Listener!What, Listener!Outcome,
     Callbacks, What, Outcome
<1>2. TypeOK /\ FinishInv /\ CancelInv /\ LateInv /\ OrderInv /\ [Next]_vars
      => [Listener!Next]_called
  <2> SUFFICES ASSUME TypeOK, FinishInv, CancelInv, LateInv, OrderInv, [Next]_vars
               PROVE  Listener!Next \/ called' = called
    OBVIOUS
  <2>1. CASE HandleMessage
    BY <2>1, ListenerHears
  <2>2. CASE ~HandleMessage
    BY <2>2, WhoPosts
  <2> QED
    BY <2>1, <2>2
<1> QED
  BY <1>1, <1>2, TypeCorrect, FinishOrder, CancelHonoured, LateOrder, CallbackOrder, PTL
  DEF Spec, ImplementsCallbacks, Listener!Spec

-----------------------------------------------------------------------------
(* A cancellation in time.                                                 *)

\* A flag is up and the pool thread has not passed its last check, or it has
\* and takes another outcome; success is not on its way.
Doomed(t) ==
    /\ Flagged(t)
    /\ \/ wpc[t] \in Before \cup {"postStart", "check2", "work", "check3"}
       \/ wpc[t] \in {"set", "post", "finish", "done"} /\ out[t] # "SUCCESS"
    /\ ~Told(t, "SUCCESS")

LEMMA DoomedStays ==
    ASSUME TypeOK, NEW t \in Tasks, Doomed(t), [Next]_vars
    PROVE  Doomed(t)'
<1>1. Flagged(t)'
  <2>1. \A c \in Cancellers : EnterCancel(c) =>
           \A o \in {"task", "proxy"} : flag[t][o] => flag'[t][o]
    BY FlagsStay
  <2>2. ASSUME \A c \in Cancellers : ~EnterCancel(c) PROVE flag' = flag
    BY <2>2 DEF Next, vars, SetWaiting, RunStep, Update, CancelStep, CallCancel, HandleMessage,
       PostWaiting, Execute, TakeFromPool, Check1, Check2, Check3, CheckCancelled, SetStarted,
       PostStart, WorkReturns, WorkThrows, SetOutcome, PostOutcome, PostFinished, CancelHandler,
       ReadState, SetCancelled, PostCancel, PostCancelFinished
  <2>3. CASE \A c \in Cancellers : ~EnterCancel(c)
    BY <2>2, <2>3 DEF Doomed, Flagged
  <2>4. ASSUME NEW c \in Cancellers, EnterCancel(c) PROVE Flagged(t)'
    <3>1. flag[t]["task"] \/ flag[t]["proxy"]
      BY DEF Doomed, Flagged
    <3>2. flag'[t]["task"] \/ flag'[t]["proxy"]
      BY <2>1, <2>4, <3>1
    <3> QED
      BY <3>2 DEF Flagged
  <2> QED
    BY <2>3, <2>4
<1>2. \/ wpc'[t] \in Before \cup {"postStart", "check2", "work", "check3"}
      \/ wpc'[t] \in {"set", "post", "finish", "done"} /\ out'[t] # "SUCCESS"
  <2>1. CASE wpc'[t] = wpc[t] /\ out'[t] = out[t]
    BY <2>1 DEF Doomed
  <2>2. ASSUME NEW u \in Tasks \ {t}, SetWaiting(u) \/ RunStep(u) \/ Update(u)
        PROVE  wpc'[t] = wpc[t] /\ out'[t] = out[t]
    BY <2>2 DEF SetWaiting, RunStep, Update, PostWaiting, Execute, TakeFromPool, Check1, Check2,
       Check3, CheckCancelled, SetStarted, PostStart, WorkReturns, WorkThrows, SetOutcome,
       PostOutcome, PostFinished, Goto, TypeOK
  <2>3. CASE SetWaiting(t) \/ PostWaiting(t) \/ Execute(t) \/ TakeFromPool(t)
             \/ SetStarted(t) \/ PostStart(t) \/ Update(t) \/ WorkReturns(t)
    BY <2>3 DEF SetWaiting, PostWaiting, Execute, TakeFromPool, SetStarted, PostStart, Update,
       WorkReturns, Goto, TypeOK, Before
  <2>4. CASE Check1(t) \/ Check2(t) \/ Check3(t)
    <3>1. IsCancelled(t)
      BY DEF Doomed, Flagged, IsCancelled, TaskIsCancelled
    <3> QED
      BY <2>4, <3>1 DEF Check1, Check2, Check3, CheckCancelled, Goto, TypeOK
  <2>5. CASE WorkThrows(t) \/ SetOutcome(t) \/ PostOutcome(t) \/ PostFinished(t)
    BY <2>5 DEF WorkThrows, SetOutcome, PostOutcome, PostFinished, Goto, TypeOK, Doomed, Before
  <2>6. ASSUME NEW c \in Cancellers, CancelStep(c) \/ \E u \in Tasks, o \in {"task", "proxy"} : CallCancel(c, u, o)
        PROVE  wpc' = wpc /\ out' = out
    BY <2>6 DEF CancelStep, CallCancel, EnterCancel, CancelHandler, ReadState, SetCancelled,
       PostCancel, PostCancelFinished
  <2>7. CASE HandleMessage \/ UNCHANGED vars
    BY <2>1, <2>7 DEF HandleMessage, vars
  <2> QED
    BY <2>1, <2>2, <2>3, <2>4, <2>5, <2>6, <2>7 DEF Next, RunStep
<1>3. ~ToldNext(t, "SUCCESS")
  <2>1. CASE HandleMessage
    BY <2>1, HandleTells DEF Doomed, What, Outcome
  <2>2. CASE uiQueue' = uiQueue /\ called' = called
    BY <2>2 DEF Doomed, Told, ToldNext
  <2>3. ASSUME NEW u \in Tasks, NEW w \in What, Post(u, w), called' = called,
               w \in Reports => wpc[u] = "post" /\ w = out[u]
        PROVE  ~ToldNext(t, "SUCCESS")
    <3>1. ~(u = t /\ w = "SUCCESS")
      BY <2>3 DEF Doomed, Reports, Before
    <3>2. "SUCCESS" \in What
      BY DEF What, Outcome
    <3> QED
      BY <2>3, <3>1, <3>2, QueueType, PostTells DEF Doomed
  <2> QED
    BY <2>1, <2>2, <2>3, WhoPosts
<1> QED
  BY <1>1, <1>2, <1>3 DEF Doomed, Told, ToldNext

\* A cancel() that has set its flag before doBackground returned wins: onSuccess
\* of the task is never called, cancel-fast or not (the third check of run()).
THEOREM CancelWins == Spec => CancelBeatsSuccess
<1> SUFFICES ASSUME NEW t \in Tasks
             PROVE  Spec => [](/\ flag[t].task \/ flag[t].proxy
                               /\ wpc[t] \in Before \cup {"postStart", "check2", "work"}
                               => [](called[t]["SUCCESS"] = 0))
  BY DEF CancelBeatsSuccess
<1>1. CancelInv /\ (flag[t].task \/ flag[t].proxy)
      /\ wpc[t] \in Before \cup {"postStart", "check2", "work"} => Doomed(t)
  BY DEF CancelInv, Doomed, Flagged, Before
<1>2. TypeOK /\ Doomed(t) /\ [Next]_vars => Doomed(t)'
  BY DoomedStays
<1>3. TypeOK /\ Doomed(t) => called[t]["SUCCESS"] = 0
  BY DEF TypeOK, Doomed, Told, Callbacks, What, Outcome
<1> QED
  BY <1>1, <1>2, <1>3, TypeCorrect, CancelHonoured, PTL DEF Spec

-----------------------------------------------------------------------------
(* Groups.                                                                 *)

\* A group is a set of tasks like any other: what holds of TaskProxy holds of it.
LEMMA GroupIsTasks == GroupSpec => Spec
<1>1. GroupInit => Init
  BY DEF GroupInit
<1>2. [GroupNext]_allVars => [Next]_vars
  BY DEF GroupNext, GroupHandleMessage, GroupRunStep, GroupCancelStep, GroupCallCancel, Next,
         allVars, vars
<1> QED
  BY <1>1, <1>2, PTL DEF GroupSpec, Spec

GroupTypes ==
    /\ count \in Nat /\ allFinished \in Nat
    /\ groupFinished \in [Tasks -> Nat]

\* No task of the group was cancelled.
Quiet == \A t \in Tasks : ~flag[t].task

FinishedAt(i) == uiQueue[i].what = "FINISHED"

\* While that is so, every task posts FINISHED once, at its end, and the counter
\* counts the tasks whose FINISHED was handled.
CountInv ==
    /\ \A c \in Cancellers : cpc[c] # Idle => cpc[c].at = "enter" /\ cpc[c].on = "task"
    /\ \A i, j \in 1 .. Len(uiQueue) :
          FinishedAt(i) /\ FinishedAt(j) /\ uiQueue[i].task = uiQueue[j].task => i = j
    /\ \A i \in 1 .. Len(uiQueue) :
          FinishedAt(i) => wpc[uiQueue[i].task] = "done" /\ groupFinished[uiQueue[i].task] = 0
    /\ \A t \in Tasks : /\ wpc[t] # "done" => groupFinished[t] = 0
                        /\ groupFinished[t] \in {0, 1}
                        /\ called[t]["FINISHED"] = groupFinished[t]
    /\ count = Cardinality({t \in Tasks : groupFinished[t] = 1})
    /\ allFinished > 0 => \A t \in Tasks : groupFinished[t] = 1

GroupInv == GroupTypes /\ (Quiet => CountInv)

\* How one message changes the number of FINISHED callbacks.
LEMMA HandleFinished ==
    ASSUME TypeOK, HandleMessage
    PROVE  /\ uiQueue[1].what = "FINISHED" /\ called[uiQueue[1].task]["FINISHED"] = 0 =>
                 called'[uiQueue[1].task]["FINISHED"] = 1
           /\ \A t \in Tasks : uiQueue[1].what # "FINISHED" \/ uiQueue[1].task # t =>
                 called'[t]["FINISHED"] = called[t]["FINISHED"]
<1> DEFINE m == Head(uiQueue)
<1>1. m \in Message /\ m = uiQueue[1]
  BY DEF TypeOK, HandleMessage
<1>2. m.task \in Tasks /\ m.what \in What /\ "FINISHED" \in Callbacks
  BY <1>1 DEF Message, Callbacks, What
<1>3. CASE Dropped(m)
  <2>1. called' = called /\ called[m.task][m.what] > 0
    BY <1>3 DEF HandleMessage, Dropped
  <2> QED
    BY <1>1, <2>1
<1>4. CASE ~Dropped(m)
  <2>1. PICK b \in BOOLEAN :
            called' = [called EXCEPT ![m.task] =
               [w \in Callbacks |-> IF w \in Ran(m, b) THEN @[w] + 1 ELSE @[w]]]
    BY <1>4 DEF HandleMessage
  <2>2. "FINISHED" \in Ran(m, b) <=> m.what = "FINISHED"
    BY DEF Ran
  <2>3. \A t \in Tasks : called'[t] = IF t = m.task
            THEN [w \in Callbacks |-> IF w \in Ran(m, b) THEN called[t][w] + 1 ELSE called[t][w]]
            ELSE called[t]
    BY <2>1, <1>2 DEF TypeOK
  <2>4. \A t \in Tasks : called'[t]["FINISHED"] =
            IF t = m.task /\ m.what = "FINISHED" THEN called[t]["FINISHED"] + 1
            ELSE called[t]["FINISHED"]
    BY <1>2, <2>2, <2>3
  <2> QED
    BY <1>1, <1>2, <2>4
<1> QED
  BY <1>3, <1>4

LEMMA GroupTypesStep ==
    ASSUME TypeOK, GroupTypes, [GroupNext]_allVars
    PROVE  GroupTypes'
<1>1. CASE GroupHandleMessage
  <2>1. Head(uiQueue).task \in Tasks
    <3>1. uiQueue \in Seq(Message) /\ uiQueue # <<>>
      BY <1>1 DEF GroupHandleMessage, HandleMessage, TypeOK
    <3>2. Head(uiQueue) \in Message
      BY <3>1
    <3> QED
      BY <3>2 DEF Message
  <2> QED
    BY <1>1, <2>1 DEF GroupHandleMessage, GroupOnFinished, groupVars, GroupTypes
<1>2. CASE UNCHANGED groupVars
  BY <1>2 DEF groupVars, GroupTypes
<1> QED
  BY <1>1, <1>2 DEF GroupNext, GroupRunStep, GroupCancelStep, GroupCallCancel, allVars

\* A step that handles no message and posts no FINISHED.
LEMMA QuietCount ==
    ASSUME TypeOK, CountInv, UNCHANGED groupVars, called' = called,
           \A t \in Tasks : wpc'[t] = "done" <=> wpc[t] = "done",
           \A c \in Cancellers : cpc'[c] # Idle => cpc'[c].at = "enter" /\ cpc'[c].on = "task",
           \/ uiQueue' = uiQueue
           \/ \E t \in Tasks, w \in What \ {"FINISHED"} : Post(t, w)
    PROVE  CountInv'
<1>1. /\ uiQueue \in Seq(Message) /\ Len(uiQueue) \in Nat
      /\ \A i \in 1 .. Len(uiQueue) : uiQueue[i].task \in Tasks
  <2>1. uiQueue \in Seq(Message)
    BY DEF TypeOK
  <2>2. \A i \in 1 .. Len(uiQueue) : uiQueue[i] \in Message
    BY <2>1
  <2> QED
    BY <2>1, <2>2 DEF Message
<1>2. \A i \in 1 .. Len(uiQueue') :
         FinishedAt(i)' => i \in 1 .. Len(uiQueue) /\ uiQueue'[i] = uiQueue[i]
  <2>1. CASE uiQueue' = uiQueue
    BY <2>1
  <2>2. ASSUME NEW t \in Tasks, NEW w \in What \ {"FINISHED"}, Post(t, w)
        PROVE  \A i \in 1 .. Len(uiQueue') :
                  FinishedAt(i)' => i \in 1 .. Len(uiQueue) /\ uiQueue'[i] = uiQueue[i]
    <3>1. /\ Len(uiQueue') = Len(uiQueue) + 1
          /\ \A i \in 1 .. Len(uiQueue) : uiQueue'[i] = uiQueue[i]
          /\ uiQueue'[Len(uiQueue) + 1].what = w
      <4>1. /\ Len(uiQueue') = Len(uiQueue) + 1
            /\ \A i \in 1 .. Len(uiQueue) : uiQueue'[i] = uiQueue[i]
            /\ uiQueue'[Len(uiQueue) + 1] = [task |-> t, what |-> w]
        BY <1>1, <2>2, PostAppends
      <4> QED
        BY <4>1
    <3> QED
      BY <1>1, <3>1 DEF FinishedAt
  <2> QED
    BY <2>1, <2>2
<1>3. /\ groupFinished' = groupFinished /\ count' = count /\ allFinished' = allFinished
      /\ Idle' = Idle
  BY DEF groupVars, Idle
<1> QED
  BY <1>1, <1>2, <1>3 DEF CountInv, FinishedAt

\* The thread of a task comes to its end.
LEMMA PostFinishedCount ==
    ASSUME TypeOK, CountInv, UNCHANGED groupVars, NEW t \in Tasks, PostFinished(t)
    PROVE  CountInv'
<1>1. /\ uiQueue \in Seq(Message) /\ Len(uiQueue) \in Nat
      /\ \A i \in 1 .. Len(uiQueue) : uiQueue[i].task \in Tasks
  <2>1. uiQueue \in Seq(Message)
    BY DEF TypeOK
  <2>2. \A i \in 1 .. Len(uiQueue) : uiQueue[i] \in Message
    BY <2>1
  <2> QED
    BY <2>1, <2>2 DEF Message
<1>2. /\ Len(uiQueue') = Len(uiQueue) + 1
      /\ \A i \in 1 .. Len(uiQueue) : uiQueue'[i] = uiQueue[i]
      /\ uiQueue'[Len(uiQueue) + 1].task = t
  <2>1. Post(t, "FINISHED") /\ "FINISHED" \in What
    BY DEF PostFinished, What
  <2>2. /\ Len(uiQueue') = Len(uiQueue) + 1
        /\ \A i \in 1 .. Len(uiQueue) : uiQueue'[i] = uiQueue[i]
        /\ uiQueue'[Len(uiQueue) + 1] = [task |-> t, what |-> "FINISHED"]
    BY <1>1, <2>1, PostAppends
  <2> QED
    BY <2>2
<1>3. /\ wpc[t] = "finish" /\ wpc'[t] = "done"
      /\ \A u \in Tasks \ {t} : wpc'[u] = wpc[u]
      /\ UNCHANGED <<called, cpc>>
  BY DEF PostFinished, Goto, TypeOK
<1>4. \A i \in 1 .. Len(uiQueue) : FinishedAt(i) => uiQueue[i].task # t
  BY <1>3 DEF CountInv
<1>5. /\ groupFinished' = groupFinished /\ count' = count /\ allFinished' = allFinished
      /\ Idle' = Idle
  BY DEF groupVars, Idle
<1>6. groupFinished[t] = 0
  BY <1>3 DEF CountInv
<1>7. \A i \in 1 .. Len(uiQueue') : i \in 1 .. Len(uiQueue) \/ i = Len(uiQueue) + 1
  BY <1>1, <1>2
<1> QED
  BY <1>1, <1>2, <1>3, <1>4, <1>5, <1>6, <1>7 DEF CountInv, FinishedAt

\* The counter goes up with the tasks it counts.
LEMMA CountOneMore ==
    ASSUME NEW f \in [Tasks -> Nat], NEW t \in Tasks, f[t] = 0, \A u \in Tasks : f[u] \in {0, 1}
    PROVE  LET g == [f EXCEPT ![t] = @ + 1]
           IN /\ \A u \in Tasks : g[u] = IF u = t THEN 1 ELSE f[u]
              /\ Cardinality({u \in Tasks : g[u] = 1}) = Cardinality({u \in Tasks : f[u] = 1}) + 1
              /\ Cardinality({u \in Tasks : g[u] = 1}) = Total => \A u \in Tasks : g[u] = 1
<1> DEFINE g == [f EXCEPT ![t] = @ + 1]
           S == {u \in Tasks : f[u] = 1}
           T == {u \in Tasks : g[u] = 1}
<1>1. \A u \in Tasks : g[u] = IF u = t THEN 1 ELSE f[u]
  OBVIOUS
<1>2. T = S \cup {t} /\ t \notin S /\ S \subseteq Tasks /\ T \subseteq Tasks
  BY <1>1
<1> HIDE DEF g, S, T
<1>3. IsFiniteSet(S) /\ IsFiniteSet(Tasks)
  BY <1>2, GroupAssumption, FS_Subset
<1>4. Cardinality(T) = Cardinality(S) + 1
  BY <1>2, <1>3, FS_AddElement
<1>5. Cardinality(T) = Cardinality(Tasks) => T = Tasks
  BY <1>2, <1>3, FS_Subset
<1> QED
  BY <1>1, <1>4, <1>5 DEF g, S, T, Total

LEMMA HandleCount ==
    ASSUME TypeOK, GroupTypes, CountInv, GroupHandleMessage
    PROVE  CountInv'
<1>1. /\ uiQueue \in Seq(Message) /\ uiQueue # <<>> /\ Len(uiQueue) \in Nat \ {0}
      /\ \A i \in 1 .. Len(uiQueue) : uiQueue[i].task \in Tasks
      /\ Head(uiQueue) = uiQueue[1]
  <2>1. uiQueue \in Seq(Message) /\ uiQueue # <<>>
    BY DEF TypeOK, GroupHandleMessage, HandleMessage
  <2>2. \A i \in 1 .. Len(uiQueue) : uiQueue[i] \in Message
    BY <2>1
  <2> QED
    BY <2>1, <2>2 DEF Message
<1>2. /\ Len(uiQueue') = Len(uiQueue) - 1
      /\ \A i \in 1 .. Len(uiQueue') : uiQueue'[i] = uiQueue[i + 1] /\ i + 1 \in 1 .. Len(uiQueue)
  BY <1>1, HandleKeepsOutcome DEF GroupHandleMessage
<1>3. UNCHANGED <<wpc, cpc>> /\ Idle' = Idle
  BY DEF GroupHandleMessage, HandleMessage, Idle
<1>4. CASE ~FinishedAt(1)
  <2>1. UNCHANGED groupVars
    BY <1>1, <1>4 DEF GroupHandleMessage, FinishedAt
  <2>2. \A t \in Tasks : called'[t]["FINISHED"] = called[t]["FINISHED"]
    BY <1>4, HandleFinished DEF GroupHandleMessage, FinishedAt
  <2>3. \A i \in 1 .. Len(uiQueue') :
            FinishedAt(i)' => i + 1 \in 1 .. Len(uiQueue) /\ FinishedAt(i + 1)
    BY <1>2 DEF FinishedAt
  <2>4. \A i \in 1 .. Len(uiQueue') : uiQueue'[i].task = uiQueue[i + 1].task
    BY <1>2
  <2> QED
    BY <1>1, <1>2, <1>3, <2>1, <2>2, <2>3, <2>4 DEF CountInv, groupVars
<1>5. CASE FinishedAt(1)
  <2>1. PICK t \in Tasks : t = uiQueue[1].task
    BY <1>1
  <2>2. GroupOnFinished(t)
    BY <1>1, <1>5, <2>1 DEF GroupHandleMessage, FinishedAt
  <2>3. groupFinished[t] = 0 /\ wpc[t] = "done"
    BY <1>1, <1>5, <2>1 DEF CountInv
  <2>4. /\ \A u \in Tasks : groupFinished'[u] = IF u = t THEN 1 ELSE groupFinished[u]
        /\ count' = Cardinality({u \in Tasks : groupFinished'[u] = 1})
        /\ allFinished' > 0 => \A u \in Tasks : groupFinished'[u] = 1
    <3>1. /\ groupFinished' = [groupFinished EXCEPT ![t] = @ + 1]
          /\ count' = count + 1
          /\ allFinished' = IF count' = Total THEN allFinished + 1 ELSE allFinished
      BY <2>2 DEF GroupOnFinished
    <3>2. groupFinished \in [Tasks -> Nat] /\ \A u \in Tasks : groupFinished[u] \in {0, 1}
      BY DEF GroupTypes, CountInv
    <3>3. /\ \A u \in Tasks : groupFinished'[u] = IF u = t THEN 1 ELSE groupFinished[u]
          /\ Cardinality({u \in Tasks : groupFinished'[u] = 1})
                = Cardinality({u \in Tasks : groupFinished[u] = 1}) + 1
          /\ Cardinality({u \in Tasks : groupFinished'[u] = 1}) = Total =>
                \A u \in Tasks : groupFinished'[u] = 1
      BY <2>3, <3>1, <3>2, CountOneMore
    <3>4. /\ count = Cardinality({u \in Tasks : groupFinished[u] = 1})
          /\ ~(allFinished > 0)
      BY <2>3 DEF CountInv
    <3> QED
      BY <3>1, <3>3, <3>4
  <2>5. called'[t]["FINISHED"] = 1 /\ \A u \in Tasks \ {t} : called'[u]["FINISHED"] = called[u]["FINISHED"]
    <3>1. called[t]["FINISHED"] = 0
      BY <2>3 DEF CountInv
    <3> QED
      BY <1>5, <2>1, <3>1, HandleFinished DEF GroupHandleMessage, FinishedAt
  <2>6. \A i \in 1 .. Len(uiQueue') : FinishedAt(i)' => FinishedAt(i + 1) /\ uiQueue'[i].task # t
    <3> SUFFICES ASSUME NEW i \in 1 .. Len(uiQueue'), FinishedAt(i)'
                 PROVE  FinishedAt(i + 1) /\ uiQueue'[i].task # t
      OBVIOUS
    <3>1. uiQueue'[i] = uiQueue[i + 1] /\ i + 1 \in 1 .. Len(uiQueue) /\ 1 \in 1 .. Len(uiQueue)
          /\ i + 1 # 1
      BY <1>1, <1>2
    <3>2. FinishedAt(i + 1)
      BY <3>1 DEF FinishedAt
    <3> QED
      BY <1>5, <2>1, <3>1, <3>2 DEF CountInv
  <2>7. /\ cpc' = cpc /\ wpc' = wpc
        /\ \A c \in Cancellers : cpc[c] # Idle => cpc[c].at = "enter" /\ cpc[c].on = "task"
    BY <1>3 DEF CountInv
  <2>8. \A i, j \in 1 .. Len(uiQueue') :
            FinishedAt(i)' /\ FinishedAt(j)' /\ uiQueue'[i].task = uiQueue'[j].task => i = j
    <3> SUFFICES ASSUME NEW i \in 1 .. Len(uiQueue'), NEW j \in 1 .. Len(uiQueue'),
                        FinishedAt(i)', FinishedAt(j)', uiQueue'[i].task = uiQueue'[j].task
                 PROVE  i = j
      OBVIOUS
    <3>1. /\ FinishedAt(i + 1) /\ FinishedAt(j + 1)
          /\ uiQueue'[i] = uiQueue[i + 1] /\ i + 1 \in 1 .. Len(uiQueue)
          /\ uiQueue'[j] = uiQueue[j + 1] /\ j + 1 \in 1 .. Len(uiQueue)
      BY <1>2, <2>6
    <3>2. i + 1 = j + 1
      BY <3>1 DEF CountInv
    <3> QED
      BY <3>2
  <2>9. \A i \in 1 .. Len(uiQueue') :
            FinishedAt(i)' => /\ wpc'[uiQueue'[i].task] = "done"
                              /\ groupFinished'[uiQueue'[i].task] = 0
    <3> SUFFICES ASSUME NEW i \in 1 .. Len(uiQueue'), FinishedAt(i)'
                 PROVE  wpc'[uiQueue'[i].task] = "done" /\ groupFinished'[uiQueue'[i].task] = 0
      OBVIOUS
    <3>1. /\ FinishedAt(i + 1) /\ uiQueue'[i].task # t
          /\ uiQueue'[i] = uiQueue[i + 1] /\ i + 1 \in 1 .. Len(uiQueue)
          /\ uiQueue'[i].task \in Tasks
      BY <1>1, <1>2, <2>6
    <3>2. wpc[uiQueue[i + 1].task] = "done" /\ groupFinished[uiQueue[i + 1].task] = 0
      BY <3>1 DEF CountInv
    <3> QED
      BY <2>4, <2>7, <3>1, <3>2
  <2>10. \A u \in Tasks : /\ wpc'[u] # "done" => groupFinished'[u] = 0
                          /\ groupFinished'[u] \in {0, 1}
                          /\ called'[u]["FINISHED"] = groupFinished'[u]
    <3> SUFFICES ASSUME NEW u \in Tasks
                 PROVE  /\ wpc'[u] # "done" => groupFinished'[u] = 0
                        /\ groupFinished'[u] \in {0, 1}
                        /\ called'[u]["FINISHED"] = groupFinished'[u]
      OBVIOUS
    <3>1. CASE u = t
      BY <2>3, <2>4, <2>5, <2>7, <3>1
    <3>2. CASE u # t
      <4>1. /\ wpc[u] # "done" => groupFinished[u] = 0
            /\ groupFinished[u] \in {0, 1}
            /\ called[u]["FINISHED"] = groupFinished[u]
        BY DEF CountInv
      <4> QED
        BY <2>4, <2>5, <2>7, <3>2, <4>1
    <3> QED
      BY <3>1, <3>2
  <2> QED
    BY <2>4, <2>7, <2>8, <2>9, <2>10 DEF CountInv
<1> QED
  BY <1>4, <1>5

\* Nobody takes a flag of a task down, and a cancellation that is not yet
\* entered can only go on by raising one.
LEMMA QuietBefore ==
    ASSUME TypeOK, [Next]_vars, Quiet'
    PROVE  /\ Quiet
           /\ \A c \in Cancellers :
                 cpc[c] # Idle /\ cpc[c].on = "task" => ~EnterCancel(c)
<1>1. \A c \in Cancellers : EnterCancel(c) =>
         /\ \A t \in Tasks : flag[t]["task"] => flag'[t]["task"]
         /\ cpc[c].on = "task" => flag'[cpc[c].task]["task"]
         /\ cpc[c].task \in Tasks
  BY FlagsStay, FrameTypes DEF EnterCancel, TypeOK, Frame
<1>2. ASSUME NEW c \in Cancellers, EnterCancel(c) PROVE Quiet
  BY <1>1, <1>2 DEF Quiet
<1>3. ASSUME \A c \in Cancellers : ~EnterCancel(c) PROVE flag' = flag
  BY <1>3 DEF Next, vars, SetWaiting, RunStep, Update, CancelStep, CallCancel, HandleMessage,
     PostWaiting, Execute, TakeFromPool, Check1, Check2, Check3, CheckCancelled, SetStarted,
     PostStart, WorkReturns, WorkThrows, SetOutcome, PostOutcome, PostFinished, CancelHandler,
     ReadState, SetCancelled, PostCancel, PostCancelFinished
<1> QED
  BY <1>1, <1>2, <1>3 DEF Quiet

LEMMA GroupInvStep ==
    ASSUME TypeOK, GroupInv, [GroupNext]_allVars
    PROVE  GroupInv'
<1>1. GroupTypes'
  BY GroupTypesStep DEF GroupInv
<1>2. ASSUME Quiet' PROVE CountInv'
  <2>1. [Next]_vars
    BY DEF GroupNext, GroupHandleMessage, GroupRunStep, GroupCancelStep, GroupCallCancel, Next,
           allVars, vars
  <2>2. CountInv
    BY <1>2, <2>1, QuietBefore DEF GroupInv
  <2>3. CASE GroupHandleMessage
    BY <2>2, <2>3, HandleCount DEF GroupInv
  <2>4. ASSUME NEW t \in Tasks, GroupRunStep(t) PROVE CountInv'
    <3>1. CASE PostFinished(t)
      BY <2>2, <2>4, <3>1, PostFinishedCount DEF GroupRunStep
    <3>2. CASE ~PostFinished(t)
      <4>1. called' = called /\ cpc' = cpc
        BY <2>4 DEF GroupRunStep, SetWaiting, RunStep, Update, PostWaiting, Execute, TakeFromPool,
           Check1, Check2, Check3, CheckCancelled, SetStarted, PostStart, WorkReturns, WorkThrows,
           SetOutcome, PostOutcome, PostFinished
      <4>2. uiQueue' = uiQueue \/ \E w \in What \ {"FINISHED"} : Post(t, w)
        <5>1. out[t] \in What \ {"FINISHED"} /\ {"WAITING", "START", "UPDATE"} \subseteq What \ {"FINISHED"}
          BY DEF TypeOK, What, Outcome
        <5> QED
          BY <2>4, <3>2, <5>1 DEF GroupRunStep, SetWaiting, RunStep, Update, PostWaiting, Execute,
             TakeFromPool, Check1, Check2, Check3, CheckCancelled, SetStarted, PostStart,
             WorkReturns, WorkThrows, SetOutcome, PostOutcome
      <4>3. \A u \in Tasks : wpc'[u] = "done" <=> wpc[u] = "done"
        BY <2>4, <3>2 DEF GroupRunStep, SetWaiting, RunStep, Update, PostWaiting, Execute,
           TakeFromPool, Check1, Check2, Check3, CheckCancelled, SetStarted, PostStart,
           WorkReturns, WorkThrows, SetOutcome, PostOutcome, Goto, TypeOK
      <4>4. \A c \in Cancellers : cpc'[c] # Idle => cpc'[c].at = "enter" /\ cpc'[c].on = "task"
        BY <2>2, <4>1 DEF CountInv
      <4> QED
        BY <2>2, <2>4, <4>1, <4>2, <4>3, <4>4, QuietCount DEF GroupRunStep
    <3> QED
      BY <3>1, <3>2
  <2>5. ASSUME NEW c \in Cancellers, GroupCancelStep(c) PROVE CountInv'
    <3>1. cpc[c] # Idle => cpc[c].at = "enter" /\ cpc[c].on = "task"
      BY <2>2 DEF CountInv
    <3>2. EnterCancel(c) /\ cpc[c] # Idle
      BY <2>5, <3>1 DEF GroupCancelStep, CancelStep, EnterCancel, CancelHandler, ReadState,
         SetCancelled, PostCancel, PostCancelFinished
    <3> QED
      BY <1>2, <2>1, <3>1, <3>2, QuietBefore
  <2>6. ASSUME NEW c \in Cancellers, NEW t \in Tasks, GroupCallCancel(c, t) PROVE CountInv'
    <3>1. /\ UNCHANGED <<wpc, called, uiQueue, groupVars>>
          /\ cpc' = [cpc EXCEPT ![c] = [at |-> "enter", on |-> "task", task |-> t, nested |-> FALSE]]
      BY <2>6 DEF GroupCallCancel, CallCancel
    <3>2. \A d \in Cancellers : cpc'[d] # Idle => cpc'[d].at = "enter" /\ cpc'[d].on = "task"
      BY <2>2, <3>1 DEF CountInv, TypeOK
    <3> QED
      BY <2>2, <3>1, <3>2, QuietCount
  <2>7. CASE UNCHANGED allVars
    <3>1. UNCHANGED <<wpc, called, uiQueue, groupVars, cpc>>
      BY <2>7 DEF allVars, vars
    <3> QED
      BY <2>2, <3>1, QuietCount DEF CountInv
  <2> QED
    BY <2>3, <2>4, <2>5, <2>6, <2>7 DEF GroupNext
<1> QED
  BY <1>1, <1>2 DEF GroupInv

\* While nobody cancels a task of the group, onAllFinished() comes only after
\* every task's onFinished() and the callback's onFinished(task), each of them
\* once: the AtomicInteger counts every task once.
THEOREM AllFinishedLast == GroupSpec => []AllFinishedSound
<1>1. GroupInit => GroupInv
  <2> SUFFICES ASSUME GroupInit PROVE GroupInv
    OBVIOUS
  <2>1. \A t \in Tasks : groupFinished[t] = 0 /\ called[t]["FINISHED"] = 0
    BY DEF GroupInit, Init, Callbacks, What
  <2>2. Cardinality({t \in Tasks : groupFinished[t] = 1}) = 0
    <3>1. {t \in Tasks : groupFinished[t] = 1} = {}
      BY <2>1
    <3> QED
      BY <3>1, FS_EmptySet
  <2> QED
    BY <2>1, <2>2 DEF GroupInit, Init, GroupInv, GroupTypes, CountInv
<1>2. TypeOK /\ GroupInv /\ [GroupNext]_allVars => GroupInv'
  BY GroupInvStep
<1>3. GroupInv => AllFinishedSound
  BY DEF GroupInv, GroupTypes, CountInv, Quiet, AllFinishedSound
<1> QED
  BY <1>1, <1>2, <1>3, GroupIsTasks, TypeCorrect, PTL DEF GroupSpec

\* onAllFinished() is called once at most, even where cancelled tasks count more
\* than once: the counter meets the number of tasks exactly once on its way up.
THEOREM AllFinishedAtMostOnce == GroupSpec => [](allFinished <= 1)
<1> DEFINE Met == /\ count \in Nat /\ allFinished \in {0, 1}
                  /\ count < Total => allFinished = 0
<1>1. GroupInit => Met
  BY DEF GroupInit
<1>2. Met /\ [GroupNext]_allVars => Met'
  <2> SUFFICES ASSUME Met, [GroupNext]_allVars PROVE Met'
    OBVIOUS
  <2>1. Total \in Nat /\ Total' = Total
    BY GroupAssumption, FS_CardinalityType DEF Total
  <2>2. \/ UNCHANGED <<count, allFinished>>
        \/ /\ count' = count + 1
           /\ allFinished' = IF count' = Total THEN allFinished + 1 ELSE allFinished
    BY DEF GroupNext, GroupHandleMessage, GroupOnFinished, GroupRunStep, GroupCancelStep,
       GroupCallCancel, groupVars, allVars
  <2> QED
    BY <2>1, <2>2
<1>3. Met => allFinished <= 1
  OBVIOUS
<1> QED
  BY <1>1, <1>2, <1>3, PTL DEF GroupSpec
=============================================================================
