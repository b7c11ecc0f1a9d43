---------------------------- MODULE UsageLedger ----------------------------
(***************************************************************************)
(* What the usage accounting of the proxy manager promises, without queue, *)
(* locks or writer: the traffic of a proxy session is accepted or, once    *)
(* the manager is stopping, refused; what was accepted is handed to the    *)
(* database exactly once, and all of it before the manager is flushed.     *)
(***************************************************************************)
CONSTANT Session   \* proxy sessions that end with traffic to account for

VARIABLES status,  \* what became of each session's usage
          open,    \* the manager still accepts usage
          flushed  \* Stop has returned

vars == <<status, open, flushed>>

Init ==
    /\ status = [u \in Session |-> "none"]
    /\ open = TRUE
    /\ flushed = FALSE

Accept(u) ==
    /\ open
    /\ status[u] = "none"
    /\ status' = [status EXCEPT ![u] = "accepted"]
    /\ UNCHANGED <<open, flushed>>

Refuse(u) ==
    /\ ~ open
    /\ status[u] = "none"
    /\ status' = [status EXCEPT ![u] = "refused"]
    /\ UNCHANGED <<open, flushed>>

Write(u) ==
    /\ ~ flushed
    /\ status[u] = "accepted"
    /\ status' = [status EXCEPT ![u] = "written"]
    /\ UNCHANGED <<open, flushed>>

Close ==
    /\ open
    /\ open' = FALSE
    /\ UNCHANGED <<status, flushed>>

Flush ==
    /\ ~ open
    /\ \A u \in Session : status[u] # "accepted"
    /\ flushed' = TRUE
    /\ UNCHANGED <<status, open>>

Next ==
    \/ \E u \in Session : Accept(u) \/ Refuse(u) \/ Write(u)
    \/ Close
    \/ Flush

Spec == Init /\ [][Next]_vars
=============================================================================
