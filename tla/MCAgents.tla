------------------------------ MODULE MCAgents ------------------------------
(***************************************************************************)
(* AgentStreams for TLC.  The registration alone is small, and is followed *)
(* from the start through MaxDials connections and MaxFaults faults.       *)
(* Together with a dial over it, it is followed through the last three     *)
(* connections, the first of them of an agent of version 1, and the last   *)
(* fault.                                                                  *)
(***************************************************************************)
EXTENDS AgentStreams

MCVersion == [k \in Conn |-> IF k <= MaxDials - 2 THEN 1 ELSE 2]

Registration(d, f) ==
    /\ dials = [n \in Node |-> d]
    /\ agentEnd = [n \in Node |-> {}]
    /\ link = [n \in Node |-> {}]
    /\ hubEnd = [n \in Node |-> {}]
    /\ handler = [n \in Node |-> [k \in Conn |-> "none"]]
    /\ agents = [n \in Node |-> 0]
    /\ faults = f

MCInit ==
    \/ Registration(0, 0) /\ Streams("over")
    \/ Registration(MaxDials - 3, MaxFaults - 1) /\ Streams("free")

MCSpec == MCInit /\ [][StreamsNext]_allVars /\ StreamsFairness
=============================================================================
