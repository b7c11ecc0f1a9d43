------------------------ MODULE AgentStreams_proofs ------------------------
(***************************************************************************)
(* Theorems of AgentHub and AgentStreams, for any set of nodes and any     *)
(* number of dials, faults and streams, and agents of either version on    *)
(* any connection.                                                         *)
(***************************************************************************)
EXTENDS AgentStreams, TLAPS

-----------------------------------------------------------------------------
(* The registration of the agents.                                          *)

\* Only connections that were dialled are served or registered.
OnlyDialled ==
    \A n \in Node :
       /\ agents[n] =< dials[n]
       /\ \A k \in Conn : handler[n][k] # "none" => k =< dials[n]

IInv == TypeOK /\ OnlyDialled /\ MapIsExact

LEMMA InitInv == Init => IInv
BY HubAssumption DEF Init, IInv, TypeOK, OnlyDialled, MapIsExact, Conn

\* The next dial gets a name no connection of the node has.
LEMMA NewConn ==
    ASSUME TypeOK, NEW n \in Node, dials[n] < MaxDials
    PROVE  dials[n] + 1 \in Conn /\ dials[n] + 1 \in 0 .. MaxDials
BY HubAssumption DEF TypeOK, Conn

LEMMA StepType == TypeOK /\ [Next]_vars => TypeOK'
<1> SUFFICES ASSUME TypeOK, [Next]_vars
             PROVE  TypeOK'
  OBVIOUS
<1> USE HubAssumption DEF TypeOK, network
<1>1. ASSUME NEW n \in Node, Dial(n) \/ DialAnsweredLate(n)
      PROVE  TypeOK'
  <2>1. dials[n] < MaxDials
    BY <1>1 DEF Dial, DialAnsweredLate
  <2>2. dials[n] + 1 \in Conn /\ dials[n] + 1 \in 0 .. MaxDials
    BY <2>1, NewConn
  <2>3. CASE Dial(n)
    BY <2>2, <2>3 DEF Dial
  <2>4. CASE DialAnsweredLate(n)
    BY <2>2, <2>4 DEF DialAnsweredLate
  <2> QED
    BY <1>1, <2>3, <2>4
<1>2. ASSUME NEW n \in Node, AgentLeaves(n)
      PROVE  TypeOK'
  BY <1>2 DEF AgentLeaves
<1>3. ASSUME NEW n \in Node, NEW k \in Conn, Accept(n, k)
      PROVE  TypeOK'
  <2>1. CASE SessionEnds(n, k)
    BY <2>1 DEF SessionEnds
  <2>2. CASE Register(n, k)
    BY <2>2 DEF Register, Conn
  <2>3. CASE PingLoopReturns(n, k)
    BY <2>3 DEF PingLoopReturns
  <2>4. CASE Deregister(n, k)
    BY <2>4 DEF Deregister
  <2>5. CASE CloseSession(n, k)
    BY <2>5 DEF CloseSession
  <2> QED
    BY <1>3, <2>1, <2>2, <2>3, <2>4, <2>5 DEF Accept
<1>4. ASSUME NEW n \in Node, LinkBreaks(n)
      PROVE  TypeOK'
  BY <1>4 DEF LinkBreaks
<1>5. ASSUME NEW n \in Node, NEW k \in Conn, PingTimesOut(n, k)
      PROVE  TypeOK'
  BY <1>5 DEF PingTimesOut
<1>6. CASE HubRestarts
  BY <1>6 DEF HubRestarts
<1>7. CASE UNCHANGED vars
  BY <1>7 DEF vars
<1> QED
  BY <1>1, <1>2, <1>3, <1>4, <1>5, <1>6, <1>7 DEF Next, Agent

\* The registration of connections keeps its types.
THEOREM TypeCorrect == Spec => []TypeOK
<1>1. Init => TypeOK
  BY InitInv DEF IInv
<1> QED
  BY <1>1, StepType, PTL DEF Spec

LEMMA StepInv == IInv /\ [Next]_vars => IInv'
<1> SUFFICES ASSUME IInv, [Next]_vars
             PROVE  OnlyDialled' /\ MapIsExact'
  BY StepType DEF IInv
<1> USE HubAssumption DEF IInv, TypeOK, OnlyDialled, MapIsExact, network
<1>1. ASSUME NEW n \in Node, Dial(n) \/ DialAnsweredLate(n)
      PROVE  OnlyDialled' /\ MapIsExact'
  <2> DEFINE k == dials[n] + 1
  <2>1. dials[n] < MaxDials
    BY <1>1 DEF Dial, DialAnsweredLate
  <2>2. k \in Conn /\ k # agents[n]
    BY <2>1, NewConn
  <2>3. /\ dials' = [dials EXCEPT ![n] = k]
        /\ hubEnd' = [hubEnd EXCEPT ![n] = @ \cup {k}]
        /\ handler' = [handler EXCEPT ![n][k] = "accepted"]
        /\ agents' = agents
    BY <1>1 DEF Dial, DialAnsweredLate
  <2>4. OnlyDialled'
    BY <2>1, <2>2, <2>3 DEF Conn
  <2>5. MapIsExact'
    BY <2>2, <2>3, SMTT(30) DEF Conn
  <2> QED
    BY <2>4, <2>5
<1>2. ASSUME NEW n \in Node, AgentLeaves(n) \/ LinkBreaks(n)
      PROVE  OnlyDialled' /\ MapIsExact'
  BY <1>2 DEF AgentLeaves, LinkBreaks
<1>3. ASSUME NEW n \in Node, NEW k \in Conn, Accept(n, k) \/ PingTimesOut(n, k)
      PROVE  OnlyDialled' /\ MapIsExact'
  <2>1. CASE SessionEnds(n, k)
    BY <2>1 DEF SessionEnds
  <2>2. CASE Register(n, k)
    <3>1. /\ agents' = [agents EXCEPT ![n] = k]
          /\ hubEnd' = [hubEnd EXCEPT ![n] = @ \ {agents[n]}]
          /\ handler' = [handler EXCEPT ![n][k] = "serving"]
          /\ dials' = dials /\ handler[n][k] = "accepted"
      BY <2>2 DEF Register
    <3>2. OnlyDialled'
      BY <3>1 DEF Conn
    <3>3. \A m \in Node : m # n => agents'[m] = agents[m] /\ hubEnd'[m] = hubEnd[m] /\ handler'[m] = handler[m]
      BY <3>1
    <3>4. /\ agents'[n] = k /\ handler'[n][k] = "serving" /\ k # 0
          /\ \A j \in hubEnd'[n] : j \in hubEnd[n] /\ j # agents[n]
          /\ \A j \in Conn : j # k => handler'[n][j] = handler[n][j]
      BY <3>1 DEF Conn
    <3>5. \A j \in hubEnd'[n] : handler'[n][j] \in {"serving", "leaving"} => agents'[n] = j
      BY <3>4
    <3> QED
      BY <3>2, <3>3, <3>4, <3>5
  <2>3. CASE PingLoopReturns(n, k) \/ PingTimesOut(n, k)
    <3>1. /\ handler' = [handler EXCEPT ![n][k] = "leaving"] /\ handler[n][k] = "serving"
          /\ UNCHANGED <<agents, hubEnd, dials>>
      BY <2>3 DEF PingLoopReturns, PingTimesOut
    <3>2. \A m \in Node : \A j \in Conn :
             /\ handler'[m][j] \in {"serving", "leaving"} <=> handler[m][j] \in {"serving", "leaving"}
             /\ handler'[m][j] # "none" => handler[m][j] # "none"
      BY <3>1
    <3>3. OnlyDialled'
      BY <3>1, <3>2
    <3>4. \A m \in Node : agents[m] # 0 => agents[m] \in Conn
      BY DEF Conn
    <3>5. MapIsExact'
      BY <3>1, <3>2, <3>4
    <3> QED
      BY <3>3, <3>5
  <2>4. CASE Deregister(n, k)
    BY <2>4 DEF Deregister, Conn
  <2>5. CASE CloseSession(n, k)
    BY <2>5 DEF CloseSession, Conn
  <2> QED
    BY <1>3, <2>1, <2>2, <2>3, <2>4, <2>5 DEF Accept
<1>4. CASE HubRestarts
  BY <1>4 DEF HubRestarts
<1>5. CASE UNCHANGED vars
  BY <1>5 DEF vars
<1> QED
  BY <1>1, <1>2, <1>3, <1>4, <1>5 DEF Next, Agent

\* The map names every live session that is being served, and no session that
\* is over.
THEOREM MapAlwaysExact == Spec => []MapIsExact
<1>1. IInv => MapIsExact
  BY DEF IInv
<1> QED
  BY <1>1, InitInv, StepInv, PTL DEF Spec

-----------------------------------------------------------------------------
(* The streams over it.                                                     *)

\* What happens on the streams is a step of the registration or leaves it alone:
\* whatever holds of the registration by itself holds with any dials over it.
THEOREM StreamsKeepTheHub == StreamsSpec => Spec
<1>1. StreamsInit => Init
  BY DEF StreamsInit
<1>2. [StreamsNext]_allVars => [Next]_vars
  BY DEF StreamsNext, PanelRestarts, Next, allVars
<1> QED
  BY <1>1, <1>2, PTL DEF StreamsSpec, Spec

\* The map stays exact with streams that are opened, relayed and broken off over
\* the sessions it names.
THEOREM MapExactUnderStreams == StreamsSpec => []MapIsExact
BY StreamsKeepTheHub, MapAlwaysExact, PTL

StreamsTypeOK ==
    /\ panel \in [Stream -> {"free", "resolved", "asked", "failed", "relay", "over"}]
    /\ wants \in [Stream -> {"tcp", "udp"}]
    /\ sent \in [Stream -> {"none", "v1", "v2"}]
    /\ agentAt \in [Stream -> {"none", "dialling", "connected", "relaying", "done"}]
    /\ dialled \in [Stream -> {"none", "tcp", "udp"}]
    /\ remote \in [Stream -> {"none", "open", "half", "ended", "closed"}]
    /\ answer \in [Stream -> {"none", "ok", "fail"}]
    /\ agentFin \in [Stream -> BOOLEAN]

\* The panel asks once, in a request the agent cannot misread, and is told that
\* the target is there only when it is; an agent that is done has closed the
\* stream.
Exchange(s) ==
    /\ panel[s] \in {"free", "resolved"} => sent[s] = "none"
    /\ sent[s] = "none" => agentAt[s] = "none"
    /\ sent[s] = "v1" => wants[s] = "tcp"
    /\ agentAt[s] = "none" => answer[s] = "none"
    /\ agentAt[s] \in {"dialling", "connected", "relaying"} => dialled[s] = wants[s]
    /\ agentAt[s] \in {"connected", "relaying"} => remote[s] # "none"
    /\ agentAt[s] = "done" => agentFin[s]
    /\ answer[s] = "ok" =>
          agentAt[s] \in {"relaying", "done"} /\ dialled[s] = wants[s] /\ remote[s] # "none"
    /\ panel[s] = "relay" => answer[s] = "ok"

StreamsInv == StreamsTypeOK /\ \A s \in Stream : Exchange(s)

LEMMA StreamsInitInv == StreamsInit => StreamsInv
BY DEF StreamsInit, Streams, StreamsInv, StreamsTypeOK, Exchange

LEMMA PanelInv ==
    ASSUME StreamsInv, NEW s \in Stream,
           Resolve(s) \/ DialOver(s) \/ ClientEnds(s) \/ ClientGone(s)
    PROVE  StreamsInv'
<1> USE DEF StreamsInv, StreamsTypeOK, Exchange, agentVars
<1>1. CASE Resolve(s)
  BY <1>1 DEF Resolve
<1>2. CASE OpenStream(s)
  <2>1. Request(s) \in {"none", "v1", "v2"} /\ (Request(s) = "v1" => wants[s] = "tcp")
    BY DEF Request
  <2> QED
    BY <1>2, <2>1 DEF OpenStream
<1>3. CASE Established(s)
  BY <1>3 DEF Established
<1>4. CASE DialFailed(s) \/ RelayReturns(s) \/ ClientEnds(s) \/ ClientGone(s)
  BY <1>4 DEF DialFailed, RelayReturns, ClientEnds, ClientGone
<1> QED
  BY <1>1, <1>2, <1>3, <1>4 DEF DialOver

\* A step of one stream at the agent: the others keep their state.
LEMMA OnlyHere ==
    ASSUME StreamsInv, NEW s \in Stream, StreamsTypeOK', Exchange(s)', UNCHANGED panelVars,
           \A u \in Stream \ {s} :
              /\ agentAt'[u] = agentAt[u] /\ dialled'[u] = dialled[u] /\ remote'[u] = remote[u]
              /\ answer'[u] = answer[u] /\ agentFin'[u] = agentFin[u]
    PROVE  StreamsInv'
<1>1. ASSUME NEW u \in Stream, u # s
      PROVE  Exchange(u)'
  BY <1>1 DEF StreamsInv, Exchange, panelVars
<1> QED
  BY <1>1 DEF StreamsInv

LEMMA ServeInv ==
    ASSUME StreamsInv, NEW s \in Stream, ServeStream(s) \/ TargetEnds(s)
    PROVE  StreamsInv'
<1> DEFINE Elsewhere ==
      /\ UNCHANGED panelVars
      /\ \A u \in Stream \ {s} :
            /\ agentAt'[u] = agentAt[u] /\ dialled'[u] = dialled[u] /\ remote'[u] = remote[u]
            /\ answer'[u] = answer[u] /\ agentFin'[u] = agentFin[u]
<1>1. CASE ReadRequest(s)
  <2>1. StreamsTypeOK' /\ Elsewhere
    <3> USE DEF StreamsInv, StreamsTypeOK, panelVars
    <3>1. CASE sent[s] = "v2" /\ Version[on[s][2]] < 2
      BY <1>1, <3>1, ZenonT(40) DEF ReadRequest
    <3>2. CASE ~ (sent[s] = "v2" /\ Version[on[s][2]] < 2)
      <4>1. /\ agentAt' = [agentAt EXCEPT ![s] = "dialling"]
            /\ dialled' = [dialled EXCEPT ![s] = IF sent[s] = "v1" THEN "tcp" ELSE wants[s]]
            /\ UNCHANGED <<agentFin, remote, answer, panelVars>>
        BY <1>1, <3>2 DEF ReadRequest
      <4> QED
        BY <4>1
    <3> QED
      BY <3>1, <3>2
  <2>2. Exchange(s)'
    BY <1>1 DEF ReadRequest, StreamsInv, StreamsTypeOK, Exchange, panelVars
  <2> QED
    BY <2>1, <2>2, OnlyHere
<1>2. CASE Connected(s)
  <2>1. StreamsTypeOK' /\ Elsewhere
    BY <1>2 DEF Connected, StreamsInv, StreamsTypeOK, panelVars
  <2>2. Exchange(s)'
    BY <1>2 DEF Connected, StreamsInv, StreamsTypeOK, Exchange, panelVars
  <2> QED
    BY <2>1, <2>2, OnlyHere
<1>3. CASE NotConnected(s)
  <2>1. StreamsTypeOK' /\ Elsewhere
    BY <1>3 DEF NotConnected, StreamsInv, StreamsTypeOK, panelVars
  <2>2. Exchange(s)'
    BY <1>3 DEF NotConnected, StreamsInv, StreamsTypeOK, Exchange, panelVars
  <2> QED
    BY <2>1, <2>2, OnlyHere
<1>4. CASE StartRelay(s)
  <2>1. StreamsTypeOK' /\ Elsewhere
    BY <1>4 DEF StartRelay, StreamsInv, StreamsTypeOK, panelVars
  <2>2. Exchange(s)'
    BY <1>4 DEF StartRelay, StreamsInv, StreamsTypeOK, Exchange, panelVars
  <2> QED
    BY <2>1, <2>2, OnlyHere
<1>5. CASE StatusFails(s)
  <2>1. StreamsTypeOK' /\ Elsewhere
    BY <1>5 DEF StatusFails, StreamsInv, StreamsTypeOK, panelVars
  <2>2. Exchange(s)'
    BY <1>5 DEF StatusFails, StreamsInv, StreamsTypeOK, Exchange, panelVars
  <2> QED
    BY <2>1, <2>2, OnlyHere
<1>6. CASE UpEnds(s)
  <2>1. StreamsTypeOK' /\ Elsewhere
    BY <1>6 DEF UpEnds, closeUp, StreamsInv, StreamsTypeOK, panelVars
  <2>2. Exchange(s)'
    BY <1>6 DEF UpEnds, closeUp, StreamsInv, StreamsTypeOK, Exchange, panelVars
  <2> QED
    BY <2>1, <2>2, OnlyHere
<1>7. CASE DownEnds(s)
  <2>1. StreamsTypeOK' /\ Elsewhere
    BY <1>7 DEF DownEnds, StreamsInv, StreamsTypeOK, panelVars
  <2>2. Exchange(s)'
    BY <1>7 DEF DownEnds, StreamsInv, StreamsTypeOK, Exchange, panelVars
  <2> QED
    BY <2>1, <2>2, OnlyHere
<1>8. CASE ServeReturns(s)
  <2>1. StreamsTypeOK' /\ Elsewhere
    BY <1>8 DEF ServeReturns, StreamsInv, StreamsTypeOK, panelVars
  <2>2. Exchange(s)'
    BY <1>8 DEF ServeReturns, StreamsInv, StreamsTypeOK, Exchange, panelVars
  <2> QED
    BY <2>1, <2>2, OnlyHere
<1>9. CASE TargetEnds(s)
  <2>1. StreamsTypeOK' /\ Elsewhere
    BY <1>9 DEF TargetEnds, StreamsInv, StreamsTypeOK, panelVars
  <2>2. Exchange(s)'
    BY <1>9 DEF TargetEnds, StreamsInv, StreamsTypeOK, Exchange, panelVars
  <2> QED
    BY <2>1, <2>2, OnlyHere
<1> QED
  BY <1>1, <1>2, <1>3, <1>4, <1>5, <1>6, <1>7, <1>8, <1>9 DEF ServeStream

LEMMA StreamsStepInv == StreamsInv /\ [StreamsNext]_allVars => StreamsInv'
<1> SUFFICES ASSUME StreamsInv, [StreamsNext]_allVars
             PROVE  StreamsInv'
  OBVIOUS
<1>1. CASE UNCHANGED streamVars
  BY <1>1 DEF streamVars, panelVars, agentVars, StreamsInv, StreamsTypeOK, Exchange
<1>2. CASE PanelRestarts
  BY <1>2 DEF PanelRestarts, agentVars, StreamsInv, StreamsTypeOK, Exchange
<1>3. ASSUME NEW s \in Stream, StreamStep(s)
      PROVE  StreamsInv'
  BY <1>3, PanelInv, ServeInv DEF StreamStep
<1> QED
  BY <1>1, <1>2, <1>3 DEF StreamsNext, allVars

\* Behind a relay of the panel there is always the agent's connection, dialled for
\* the network the client asked for, and the agent relays to it or has closed the
\* stream.
THEOREM RelayAlwaysHasRemote == StreamsSpec => []RelayHasRemote
<1>1. StreamsInv => RelayHasRemote
  BY DEF StreamsInv, StreamsTypeOK, Exchange, RelayHasRemote
<1> QED
  BY <1>1, StreamsInitInv, StreamsStepInv, PTL DEF StreamsSpec
=============================================================================
