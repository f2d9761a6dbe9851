------------------------------- MODULE RWLock -------------------------------
(***************************************************************************)
(* What ProcessLock promises inside a process: clients that share a home   *)
(* hold the lock together only if all of them read.  A client gives the    *)
(* lock back alone, or all clients of a home lose it when that dies.       *)
(***************************************************************************)
CONSTANTS Clients, Home

VARIABLE mode   \* mode[c]: how client c holds the lock

Mode == {"none", "read", "write"}

Init == mode = [c \in Clients |-> "none"]

Compatible(c, m) ==
    \A d \in Clients \ {c} :
        Home[d] = Home[c] => mode[d] = "none" \/ (m = "read" /\ mode[d] = "read")

Acquire(c, m) ==
    /\ mode[c] = "none"
    /\ Compatible(c, m)
    /\ mode' = [mode EXCEPT ![c] = m]

Release(S) == mode' = [c \in Clients |-> IF c \in S THEN "none" ELSE mode[c]]

Next ==
    \/ \E c \in Clients, m \in {"read", "write"} : Acquire(c, m)
    \/ \E c \in Clients : Release({c}) \/ Release({d \in Clients : Home[d] = Home[c]})

Spec == Init /\ [][Next]_mode
=============================================================================
