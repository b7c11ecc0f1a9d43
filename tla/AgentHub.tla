------------------------------ MODULE AgentHub ------------------------------
(***************************************************************************)
(* The registration of remote agents: each egress of an agent keeps one    *)
(* connection to the panel and dials again when it ends (runLoop and       *)
(* connectOnce of backend/cmd/pfagent/main.go); every connection the panel *)
(* accepts is served by a goroutine of its own (AgentLink, Hub.Accept of   *)
(* backend/internal/agenthub/hub.go), which registers the session under    *)
(* the node's id, waits for its end and removes it.                        *)
(*                                                                         *)
(* The two ends of a connection notice its end each in their own time, so  *)
(* that goroutines of several connections of one node are on their way at  *)
(* once.  The k-th connection of a node is named k.  An agent that is      *)
(* killed is a link that breaks.                                           *)
(***************************************************************************)
EXTENDS Integers

CONSTANTS Node,      \* NodeIDs: the egresses of the agents
          MaxDials,  \* connections of a node: a bound of the model
          MaxFaults  \* links that break, dials answered too late, restarts of
                     \* the panel: a bound of the model

ASSUME HubAssumption ==
    /\ MaxDials \in Nat
    /\ MaxFaults \in Nat

Conn == 1 .. MaxDials

VARIABLES
    dials,     \* how often each node has dialled
    agentEnd,  \* connections whose yamux session lives at the agent
    link,      \* connections that carry messages
    hubEnd,    \* connections whose yamux session lives at the panel
    handler,   \* where the goroutine of each connection is
    agents,    \* Hub.agents: the connection of each node; 0 is none
    faults     \* faults so far

network == <<dials, agentEnd, link, faults>>
vars == <<network, hubEnd, handler, agents>>

Init ==
    /\ dials = [n \in Node |-> 0]
    /\ agentEnd = [n \in Node |-> {}]
    /\ link = [n \in Node |-> {}]
    /\ hubEnd = [n \in Node |-> {}]
    /\ handler = [n \in Node |-> [k \in Conn |-> "none"]]
    /\ agents = [n \in Node |-> 0]
    /\ faults = 0

-----------------------------------------------------------------------------
(* The agent.                                                               *)

\* connectOnce, after runLoop's back-off: the connection is up at both ends,
\* and AgentLink is about to hand it to Accept.
Dial(n) ==
    /\ agentEnd[n] = {}
    /\ dials[n] < MaxDials
    /\ LET k == dials[n] + 1 IN
       /\ dials' = [dials EXCEPT ![n] = k]
       /\ agentEnd' = [agentEnd EXCEPT ![n] = {k}]
       /\ link' = [link EXCEPT ![n] = @ \cup {k}]
       /\ hubEnd' = [hubEnd EXCEPT ![n] = @ \cup {k}]
       /\ handler' = [handler EXCEPT ![n][k] = "accepted"]
    /\ UNCHANGED <<agents, faults>>

\* The agent's dial times out when the panel has accepted it already.
DialAnsweredLate(n) ==
    /\ agentEnd[n] = {}
    /\ dials[n] < MaxDials
    /\ faults < MaxFaults
    /\ LET k == dials[n] + 1 IN
       /\ dials' = [dials EXCEPT ![n] = k]
       /\ hubEnd' = [hubEnd EXCEPT ![n] = @ \cup {k}]
       /\ handler' = [handler EXCEPT ![n][k] = "accepted"]
    /\ faults' = faults + 1
    /\ UNCHANGED <<agentEnd, link, agents>>

\* AcceptStream fails; the deferred Close ends the connection.
AgentLeaves(n) ==
    \E k \in agentEnd[n] \ link[n] :
       /\ agentEnd' = [agentEnd EXCEPT ![n] = @ \ {k}]
       /\ UNCHANGED <<dials, link, faults, hubEnd, handler, agents>>

-----------------------------------------------------------------------------
(* The goroutine of connection k at the panel.                              *)

\* yamux notices at the panel that the connection is gone.
SessionEnds(n, k) ==
    /\ k \in hubEnd[n] \ link[n]
    /\ hubEnd' = [hubEnd EXCEPT ![n] = @ \ {k}]
    /\ UNCHANGED <<network, handler, agents>>

\* Mutant: the session that was registered lives on.
Register_KeepsOld(n, k) ==
    /\ handler[n][k] = "accepted"
    /\ agents' = [agents EXCEPT ![n] = k]
    /\ handler' = [handler EXCEPT ![n][k] = "serving"]
    /\ UNCHANGED <<network, hubEnd>>

\* The first section of Accept under mu: the node's registered session is
\* closed, which ends its connection, and replaced.
Register(n, k) ==
    /\ handler[n][k] = "accepted"
    /\ agents' = [agents EXCEPT ![n] = k]
    /\ hubEnd' = [hubEnd EXCEPT ![n] = @ \ {agents[n]}]
    /\ link' = [link EXCEPT ![n] = @ \ {agents[n]}]
    /\ handler' = [handler EXCEPT ![n][k] = "serving"]
    /\ UNCHANGED <<dials, agentEnd, faults>>

\* pingLoop returns when the session is closed, or at the first ping that
\* fails.
PingLoopReturns(n, k) ==
    /\ handler[n][k] = "serving"
    /\ k \notin hubEnd[n] \cap link[n]
    /\ handler' = [handler EXCEPT ![n][k] = "leaving"]
    /\ UNCHANGED <<network, hubEnd, agents>>

\* Mutant: whichever session is registered is removed.
Deregister_Any(n, k) ==
    /\ handler[n][k] = "leaving"
    /\ agents' = [agents EXCEPT ![n] = 0]
    /\ handler' = [handler EXCEPT ![n][k] = "closing"]
    /\ UNCHANGED <<network, hubEnd>>

\* The second section of Accept under mu: the entry is removed only if it is
\* still this session's.
Deregister(n, k) ==
    /\ handler[n][k] = "leaving"
    /\ agents' = IF agents[n] = k THEN [agents EXCEPT ![n] = 0] ELSE agents
    /\ handler' = [handler EXCEPT ![n][k] = "closing"]
    /\ UNCHANGED <<network, hubEnd>>

\* The session is closed, and AgentLink closes the connection.
CloseSession(n, k) ==
    /\ handler[n][k] = "closing"
    /\ hubEnd' = [hubEnd EXCEPT ![n] = @ \ {k}]
    /\ link' = [link EXCEPT ![n] = @ \ {k}]
    /\ handler' = [handler EXCEPT ![n][k] = "done"]
    /\ UNCHANGED <<dials, agentEnd, faults, agents>>

-----------------------------------------------------------------------------
(* Faults.                                                                  *)

LinkBreaks(n) ==
    /\ faults < MaxFaults
    /\ \E k \in link[n] : link' = [link EXCEPT ![n] = @ \ {k}]
    /\ faults' = faults + 1
    /\ UNCHANGED <<dials, agentEnd, hubEnd, handler, agents>>

\* A ping that takes longer than it may: the connection is fine.
PingTimesOut(n, k) ==
    /\ faults < MaxFaults
    /\ handler[n][k] = "serving"
    /\ handler' = [handler EXCEPT ![n][k] = "leaving"]
    /\ faults' = faults + 1
    /\ UNCHANGED <<dials, agentEnd, link, hubEnd, agents>>

\* The panel starts again, with an empty map.
HubRestarts ==
    /\ faults < MaxFaults
    /\ link' = [n \in Node |-> {}]
    /\ hubEnd' = [n \in Node |-> {}]
    /\ handler' = [n \in Node |-> [k \in Conn |-> IF handler[n][k] = "none" THEN "none" ELSE "done"]]
    /\ agents' = [n \in Node |-> 0]
    /\ faults' = faults + 1
    /\ UNCHANGED <<dials, agentEnd>>

-----------------------------------------------------------------------------
Agent(n) == Dial(n) \/ AgentLeaves(n)

Accept(n, k) ==
    \/ SessionEnds(n, k)
    \/ Register(n, k)
    \/ PingLoopReturns(n, k)
    \/ Deregister(n, k)
    \/ CloseSession(n, k)

Next ==
    \/ \E n \in Node :
          \/ Agent(n) \/ DialAnsweredLate(n) \/ LinkBreaks(n)
          \/ \E k \in Conn : Accept(n, k) \/ PingTimesOut(n, k)
    \/ HubRestarts

Spec == Init /\ [][Next]_vars

(***************************************************************************)
(* Agents keep dialling, keepalives notice what is broken, and the panel's *)
(* goroutines run.                                                         *)
(***************************************************************************)
Fairness ==
    \A n \in Node :
       /\ WF_vars(Agent(n))
       /\ \A k \in Conn : WF_vars(Accept(n, k))

FairSpec == Spec /\ Fairness

-----------------------------------------------------------------------------
(* Properties.                                                              *)

\* Every variable has its type.
TypeOK ==
    /\ dials \in [Node -> 0 .. MaxDials]
    /\ agentEnd \in [Node -> SUBSET Conn]
    /\ link \in [Node -> SUBSET Conn]
    /\ hubEnd \in [Node -> SUBSET Conn]
    /\ handler \in [Node -> [Conn -> {"none", "accepted", "serving", "leaving", "closing", "done"}]]
    /\ agents \in [Node -> 0 .. MaxDials]
    /\ faults \in 0 .. MaxFaults

\* What the map names is a session that is being served, and a session of the
\* node that is not named is closed: traffic has one way to a node, and no
\* goroutine holds a live session that nobody can reach.
MapIsExact ==
    \A n \in Node :
       /\ agents[n] # 0 => handler[n][agents[n]] \in {"serving", "leaving"}
       /\ \A k \in hubEnd[n] : handler[n][k] \in {"serving", "leaving"} => agents[n] = k

\* However connections broke, overlapped and overtook each other, in the end
\* each node is online over the connection its agent has, and no other
\* connection of the node is still being served.
BackOnline ==
    \A n \in Node :
       <>[] /\ agents[n] # 0
            /\ agentEnd[n] = {agents[n]}
            /\ hubEnd[n] = {agents[n]}
            /\ link[n] = {agents[n]}
            /\ \A k \in Conn : handler[n][k] \in {"accepted", "serving", "leaving", "closing"} => k = agents[n]
=============================================================================
