---------------------------- MODULE AgentStreams ----------------------------
(***************************************************************************)
(* What the registered agents are for: every dial over an agent opens a    *)
(* stream on the session of its node (agentEgress of                       *)
(* backend/internal/agenthub/hub.go), the agent reads the target from it,  *)
(* dials and relays (serveStream of backend/cmd/pfagent/main.go, messages  *)
(* of backend/internal/agentproto/proto.go).                               *)
(*                                                                         *)
(* The session of a stream is the one that was registered when the egress  *)
(* was looked up; AgentHub says what becomes of it meanwhile.  Bytes are   *)
(* left out: what counts is which end of which direction is closed.        *)
(***************************************************************************)
EXTENDS AgentHub

CONSTANTS Stream,    \* dials over an agent, each with a stream of its own
          Version    \* the protocol version of the agent on each connection

ASSUME StreamsAssumption == Version \in [Conn -> 1 .. 2]

VARIABLES
    panel,     \* where the dial or the relay at the panel is
    on,        \* the session it is on: <<node, connection>>
    wants,     \* the network it dials: "tcp" or "udp"
    sent,      \* the request the panel has written: "none", "v1", "v2"
    fin,       \* the panel has closed the stream
    client,    \* the client of the relay still sends
    agentAt,   \* where serveStream is
    copying,   \* the directions serveStream still copies
    dialled,   \* the network the agent has dialled
    remote,    \* the agent's connection to the target
    answer,    \* the status byte: "none", "ok", "fail"
    agentFin   \* the agent has closed the stream

panelVars == <<panel, on, wants, sent, fin, client>>
agentVars == <<agentAt, copying, dialled, remote, answer, agentFin>>
streamVars == <<panelVars, agentVars>>
allVars == <<vars, streamVars>>

Streams(start) ==
    /\ panel = [s \in Stream |-> start]
    /\ on = [s \in Stream |-> <<>>]
    /\ wants = [s \in Stream |-> "tcp"]
    /\ sent = [s \in Stream |-> "none"]
    /\ fin = [s \in Stream |-> FALSE]
    /\ client = [s \in Stream |-> TRUE]
    /\ agentAt = [s \in Stream |-> "none"]
    /\ copying = [s \in Stream |-> {}]
    /\ dialled = [s \in Stream |-> "none"]
    /\ remote = [s \in Stream |-> "none"]
    /\ answer = [s \in Stream |-> "none"]
    /\ agentFin = [s \in Stream |-> FALSE]

StreamsInit == Init /\ Streams("free")

\* The session of a stream lives at the panel, carries messages, lives at the
\* agent.
AtPanel(s) == on[s][2] \in hubEnd[on[s][1]]
Carried(s) == on[s][2] \in link[on[s][1]]
AtAgent(s) == on[s][2] \in agentEnd[on[s][1]]

-----------------------------------------------------------------------------
(* The panel: DialContext and the relay that follows.                       *)

\* The nodes a look-up finds.
Online == {n \in Node : agents[n] # 0}

\* ResolveEgress: the egress keeps the session it found.
Resolve(s) ==
    /\ panel[s] = "free"
    /\ \E n \in Online, w \in {"tcp", "udp"} :
          /\ on' = [on EXCEPT ![s] = <<n, agents[n]>>]
          /\ wants' = [wants EXCEPT ![s] = w]
    /\ panel' = [panel EXCEPT ![s] = "resolved"]
    /\ UNCHANGED <<sent, fin, client, agentVars>>

\* Mutant: whether the agent can UDP is not asked.
Request_Any(s) == IF Version[on[s][2]] >= 2 /\ wants[s] = "tcp" THEN "v2" ELSE "v1"

\* The request of the version the agent has announced; version 1 knows TCP
\* only, and writes no network.
Request(s) ==
    IF Version[on[s][2]] >= 2 THEN "v2"
    ELSE IF wants[s] = "tcp" THEN "v1" ELSE "none"

OpenStream(s) ==
    /\ panel[s] = "resolved"
    /\ IF AtPanel(s) /\ Request(s) # "none"
       THEN /\ sent' = [sent EXCEPT ![s] = Request(s)]
            /\ panel' = [panel EXCEPT ![s] = "asked"]
       ELSE /\ panel' = [panel EXCEPT ![s] = "failed"]
            /\ UNCHANGED sent
    /\ UNCHANGED <<on, wants, fin, client, agentVars>>

\* The status arrives in time.
Established(s) ==
    /\ panel[s] = "asked"
    /\ answer[s] = "ok"
    /\ AtPanel(s)
    /\ panel' = [panel EXCEPT ![s] = "relay"]
    /\ UNCHANGED <<on, wants, sent, fin, client, agentVars>>

\* Mutant: the stream of a failed dial stays open.
DialFailed_Open(s) ==
    /\ panel[s] = "asked"
    /\ panel' = [panel EXCEPT ![s] = "failed"]
    /\ UNCHANGED <<on, wants, sent, fin, client, agentVars>>

\* The agent refuses, the session ends, or the deadline passes, which may be
\* at any time before.
DialFailed(s) ==
    /\ panel[s] = "asked"
    /\ panel' = [panel EXCEPT ![s] = "failed"]
    /\ fin' = [fin EXCEPT ![s] = TRUE]
    /\ UNCHANGED <<on, wants, sent, client, agentVars>>

\* The client closes its connection, or its sending half.
ClientEnds(s) ==
    /\ panel[s] = "relay"
    /\ client[s]
    /\ client' = [client EXCEPT ![s] = FALSE]
    /\ UNCHANGED <<panel, on, wants, sent, fin, agentVars>>

\* The relay returns when both directions are over, and closes the stream.  The
\* end of the client's direction is not passed on before: a yamux stream has no
\* CloseWrite.  An association of the UDP relay closes at the first end.
RelayReturns(s) ==
    /\ panel[s] = "relay"
    /\ LET up == ~client[s] \/ ~AtPanel(s)
           down == agentFin[s] \/ ~AtPanel(s)
       IN IF wants[s] = "udp" THEN up \/ down ELSE up /\ down
    /\ panel' = [panel EXCEPT ![s] = "over"]
    /\ fin' = [fin EXCEPT ![s] = TRUE]
    /\ UNCHANGED <<on, wants, sent, client, agentVars>>

\* The client is gone when something arrives for it: the direction to it ends
\* with the failing write.
ClientGone(s) ==
    /\ panel[s] = "relay"
    /\ ~client[s]
    /\ remote[s] \in {"open", "half"}
    /\ panel' = [panel EXCEPT ![s] = "over"]
    /\ fin' = [fin EXCEPT ![s] = TRUE]
    /\ UNCHANGED <<on, wants, sent, client, agentVars>>

-----------------------------------------------------------------------------
(* The agent: serveStream and relayAgentUDP.                                *)

\* AcceptStream and ReadRequest.  An agent of version 1 takes the first two
\* bytes for a length, and those of version 2 are no length it accepts.
ReadRequest(s) ==
    /\ agentAt[s] = "none"
    /\ sent[s] # "none"
    /\ AtAgent(s) /\ Carried(s)
    /\ IF sent[s] = "v2" /\ Version[on[s][2]] < 2
       THEN /\ agentAt' = [agentAt EXCEPT ![s] = "done"]
            /\ agentFin' = [agentFin EXCEPT ![s] = TRUE]
            /\ UNCHANGED dialled
       ELSE /\ agentAt' = [agentAt EXCEPT ![s] = "dialling"]
            /\ dialled' = [dialled EXCEPT ![s] = IF sent[s] = "v1" THEN "tcp" ELSE wants[s]]
            /\ UNCHANGED agentFin
    /\ UNCHANGED <<copying, remote, answer, panelVars>>

\* The dial does not know of the stream: it goes on when the stream is closed.
Connected(s) ==
    /\ agentAt[s] = "dialling"
    /\ agentAt' = [agentAt EXCEPT ![s] = "connected"]
    /\ remote' = [remote EXCEPT ![s] = "open"]
    /\ UNCHANGED <<copying, dialled, answer, agentFin, panelVars>>

NotConnected(s) ==
    /\ agentAt[s] = "dialling"
    /\ agentAt' = [agentAt EXCEPT ![s] = "done"]
    /\ answer' = [answer EXCEPT ![s] = IF AtAgent(s) /\ Carried(s) THEN "fail" ELSE @]
    /\ agentFin' = [agentFin EXCEPT ![s] = TRUE]
    /\ UNCHANGED <<copying, dialled, remote, panelVars>>

\* WriteStatus(true), and the two goroutines.
StartRelay(s) ==
    /\ agentAt[s] = "connected"
    /\ AtAgent(s)
    /\ agentAt' = [agentAt EXCEPT ![s] = "relaying"]
    /\ copying' = [copying EXCEPT ![s] = {"up", "down"}]
    /\ answer' = [answer EXCEPT ![s] = IF Carried(s) THEN "ok" ELSE @]
    /\ UNCHANGED <<dialled, remote, agentFin, panelVars>>

\* The session is over when the status is written, or the deadline of the
\* stream has passed during the dial.
StatusFails(s) ==
    /\ agentAt[s] = "connected"
    /\ agentAt' = [agentAt EXCEPT ![s] = "done"]
    /\ remote' = [remote EXCEPT ![s] = "closed"]
    /\ agentFin' = [agentFin EXCEPT ![s] = TRUE]
    /\ UNCHANGED <<copying, dialled, answer, panelVars>>

\* What the end of the stream does to the connection to the target: TCP gets a
\* half close, UDP is closed.
closeUp(s) ==
    IF dialled[s] = "udp" THEN "closed"
    ELSE IF remote[s] = "open" THEN "half" ELSE remote[s]

\* The direction to the target ends with the stream.
UpEnds(s) ==
    /\ "up" \in copying[s]
    /\ ~AtAgent(s) \/ (fin[s] /\ Carried(s))
    /\ copying' = [copying EXCEPT ![s] = @ \ {"up"}]
    /\ remote' = [remote EXCEPT ![s] = closeUp(s)]
    /\ UNCHANGED <<agentAt, dialled, answer, agentFin, panelVars>>

\* The direction from the target ends when the target ends or the connection
\* is closed.  UDP closes the connection too.
DownEnds(s) ==
    /\ "down" \in copying[s]
    /\ remote[s] \in {"ended", "closed"}
    /\ copying' = [copying EXCEPT ![s] = @ \ {"down"}]
    /\ agentFin' = [agentFin EXCEPT ![s] = TRUE]
    /\ remote' = [remote EXCEPT ![s] = IF dialled[s] = "udp" THEN "closed" ELSE @]
    /\ UNCHANGED <<agentAt, dialled, answer, panelVars>>

ServeReturns(s) ==
    /\ agentAt[s] = "relaying"
    /\ copying[s] = {}
    /\ agentAt' = [agentAt EXCEPT ![s] = "done"]
    /\ remote' = [remote EXCEPT ![s] = "closed"]
    /\ agentFin' = [agentFin EXCEPT ![s] = TRUE]
    /\ UNCHANGED <<copying, dialled, answer, panelVars>>

\* The target closes its connection, or an error ends it.
TargetEnds(s) ==
    /\ remote[s] \in {"open", "half"}
    /\ remote' = [remote EXCEPT ![s] = "ended"]
    /\ UNCHANGED <<agentAt, copying, dialled, answer, agentFin, panelVars>>

-----------------------------------------------------------------------------
DialOver(s) == OpenStream(s) \/ Established(s) \/ DialFailed(s) \/ RelayReturns(s)

ServeStream(s) ==
    \/ ReadRequest(s) \/ Connected(s) \/ NotConnected(s)
    \/ StartRelay(s) \/ StatusFails(s)
    \/ UpEnds(s) \/ DownEnds(s) \/ ServeReturns(s)

StreamStep(s) ==
    \/ Resolve(s) \/ DialOver(s) \/ ClientEnds(s) \/ ClientGone(s)
    \/ ServeStream(s) \/ TargetEnds(s)

\* A restart of the panel ends its dials and relays.
PanelRestarts ==
    /\ HubRestarts
    /\ panel' = [s \in Stream |-> IF panel[s] = "free" THEN "free" ELSE "over"]
    /\ UNCHANGED <<on, wants, sent, fin, client, agentVars>>

StreamsNext ==
    \/ \E s \in Stream : StreamStep(s) /\ UNCHANGED vars
    \/ /\ \E n \in Node :
             \/ Agent(n) \/ DialAnsweredLate(n) \/ LinkBreaks(n)
             \/ \E k \in Conn : Accept(n, k) \/ PingTimesOut(n, k)
       /\ UNCHANGED streamVars
    \/ PanelRestarts

(***************************************************************************)
(* As in AgentHub, and the goroutines of both ends run.  A target that got *)
(* a half close ends its connection in the end; one that got none owes     *)
(* nothing.  A client owes nothing either.                                 *)
(***************************************************************************)
StreamsFairness ==
    /\ Fairness
    /\ \A s \in Stream :
          /\ WF_streamVars(DialOver(s))
          /\ WF_streamVars(ServeStream(s))
          /\ WF_streamVars(remote[s] = "half" /\ TargetEnds(s))

StreamsSpec == StreamsInit /\ [][StreamsNext]_allVars /\ StreamsFairness

-----------------------------------------------------------------------------
(* Properties.                                                              *)

\* A relay of the panel always has the agent's connection behind it, dialled
\* for the network the client asked for: as long as the session lives at both
\* ends, the agent is relaying to the target, or has closed the stream so that
\* the panel will know.  In particular no request of one version is taken for
\* one of the other, and no status is answered for a dial that failed.
RelayHasRemote ==
    \A s \in Stream : panel[s] = "relay" =>
       /\ dialled[s] = wants[s]
       /\ agentAt[s] = "relaying" \/ agentFin[s] \/ ~AtAgent(s)
       /\ remote[s] # "none"

\* Whatever becomes of a dial at the panel, a dial that outlives it included,
\* the agent does not keep the connection to the target: once the panel is done
\* with the stream, serveStream returns and has closed it.
AgentLetsGo ==
    \A s \in Stream :
       (panel[s] \in {"failed", "over"} /\ sent[s] # "none")
          ~> (agentAt[s] \in {"none", "done"} /\ remote[s] \in {"none", "closed"})

\* "This stream itself is then the pipe to the target, in both directions":
\* when the client has sent all it has to send, the target learns of it, unless
\* the relay ends first.
EndOfInputArrives ==
    \A s \in Stream :
       (panel[s] = "relay" /\ ~client[s])
          ~> (remote[s] \in {"half", "ended", "closed"} \/ panel[s] # "relay")
=============================================================================
