------------------------------ MODULE TaskGroup ------------------------------
(***************************************************************************)
(* TaskControllerImpl.startTasks: a group of tasks with one GroupCallback. *)
(* Each task of the group runs in a subclass of TaskProxy whose onFinished *)
(* posts, after the FINISHED message, a runnable that calls                *)
(* GroupCallback.onFinished(task) and callIfOnAllFinished.                 *)
(*                                                                         *)
(* Both go to the same Handler one right after the other, so the runnable  *)
(* is executed here in the step that handles its FINISHED message; only    *)
(* messages of other threads could come between, and none of them touches  *)
(* the group's counter.                                                    *)
(***************************************************************************)
EXTENDS TaskProxy

\* The tasks of a group are an array.
ASSUME GroupAssumption == IsFiniteSet(Tasks)

VARIABLES count,          \* the AtomicInteger of callIfOnAllFinished
          groupFinished,  \* groupFinished[t]: GroupCallback.onFinished(t) calls
          allFinished     \* GroupCallback.onAllFinished() calls

groupVars == <<count, groupFinished, allFinished>>

\* Mutant: off by one.
TotalLessOne == Cardinality(Tasks) - 1

Total == Cardinality(Tasks)

GroupInit ==
    /\ Init
    /\ count = 0
    /\ groupFinished = [t \in Tasks |-> 0]
    /\ allFinished = 0

\* Mutant: at least, instead of exactly, total runnables.
GroupOnFinishedAtLeast(t) ==
    /\ groupFinished' = [groupFinished EXCEPT ![t] = @ + 1]
    /\ count' = count + 1
    /\ allFinished' = IF count' >= Total THEN allFinished + 1 ELSE allFinished

\* The runnable is posted by every call of onFinished, also by one whose
\* FINISHED message the Handler drops as a duplicate.
GroupOnFinished(t) ==
    /\ groupFinished' = [groupFinished EXCEPT ![t] = @ + 1]
    /\ count' = count + 1
    /\ allFinished' = IF count' = Total THEN allFinished + 1 ELSE allFinished

GroupHandleMessage ==
    /\ HandleMessage
    /\ IF Head(uiQueue).what = "FINISHED"
       THEN GroupOnFinished(Head(uiQueue).task)
       ELSE UNCHANGED groupVars

GroupRunStep(t) == (SetWaiting(t) \/ RunStep(t) \/ Update(t)) /\ UNCHANGED groupVars

GroupCancelStep(c) == CancelStep(c) /\ UNCHANGED groupVars

\* The handle startTasks returns cancels the tasks, in array order; nothing
\* depends on that order, so a canceller may call them in any.
GroupCallCancel(c, t) == CallCancel(c, t, "task") /\ UNCHANGED groupVars

GroupNext ==
    \/ GroupHandleMessage
    \/ \E t \in Tasks : GroupRunStep(t)
    \/ \E c \in Cancellers : GroupCancelStep(c)
    \/ \E c \in Cancellers, t \in Tasks : GroupCallCancel(c, t)

allVars == <<vars, groupVars>>

GroupSpec == GroupInit /\ [][GroupNext]_allVars

\* Threads that are inside a method go on, pool threads take queued work and
\* the looper delivers its messages; startTasks starts every task, doBackground
\* returns (updates are bounded); nobody has to cancel.
GroupFairSpec ==
    /\ GroupSpec
    /\ \A t \in Tasks : WF_allVars(GroupRunStep(t))
    /\ \A c \in Cancellers : WF_allVars(GroupCancelStep(c))
    /\ WF_allVars(GroupHandleMessage)
-----------------------------------------------------------------------------
\* startTasks starts all its tasks, so onAllFinished is eventually called and
\* never twice, although a cancelled task may count more than once.
AllFinishedOnce == <>[](allFinished = 1)

\* While nobody cancels, onAllFinished comes after every task's onFinished.
AllFinishedSound ==
    (allFinished > 0 /\ \A t \in Tasks : ~flag[t].task) =>
        \A t \in Tasks : called[t]["FINISHED"] = 1 /\ groupFinished[t] = 1
=============================================================================
