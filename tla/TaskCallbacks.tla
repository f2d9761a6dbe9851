---------------------------- MODULE TaskCallbacks ----------------------------
(***************************************************************************)
(* What the listener of a task of org.core is promised: which callbacks it *)
(* may hear when.  Nothing is said of threads, flags or messages.          *)
(***************************************************************************)
EXTENDS Naturals

CONSTANTS Tasks, CancelFast, Throwers

VARIABLE heard   \* heard[t][w]: how often callback w of task t has run

Outcome == {"SUCCESS", "ERROR", "CANCEL"}

What == Outcome \cup {"WAITING", "START", "UPDATE", "FINISHED"}

Callbacks == What \cup {"CALLBACK_ERROR"}

\* What the listener must have heard before w ...
Needs(w) ==
    CASE w = "START" -> {"WAITING"}
      [] w \in {"UPDATE", "SUCCESS", "ERROR"} -> {"START"}
      [] OTHER -> {}

\* ... and what it must not have heard, whatever is cancelled when.
Bars(w) ==
    CASE w = "UPDATE" -> {"SUCCESS", "ERROR"}
      [] w \in {"SUCCESS", "ERROR"} -> {"SUCCESS", "ERROR"}
      [] OTHER -> {w}

Heard(t, w) == heard[t][w] > 0

Init == heard = [t \in Tasks |-> [w \in Callbacks |-> 0]]

\* Only the cancellation of a cancel-fast task overtakes its work.
Due(t, w) ==
    /\ \A v \in Needs(w) : Heard(t, v)
    /\ \A v \in Bars(w) : ~Heard(t, v)
    /\ w = "FINISHED" => \E v \in Outcome : Heard(t, v)
    /\ t \notin CancelFast /\ w \in Outcome \cup {"UPDATE"} => \A v \in Outcome : ~Heard(t, v)

\* A callback that throws is followed by onError(ex, true), unless it was onError.
Ran(w, throws) == IF throws /\ w # "ERROR" THEN {w, "CALLBACK_ERROR"} ELSE {w}

Hear(t, w, throws) ==
    /\ Due(t, w)
    /\ throws => t \in Throwers
    /\ heard' = [heard EXCEPT ![t] =
                    [v \in Callbacks |-> IF v \in Ran(w, throws) THEN @[v] + 1 ELSE @[v]]]

Next == \E t \in Tasks, w \in What, throws \in BOOLEAN : Hear(t, w, throws)

Spec == Init /\ [][Next]_heard
=============================================================================
