------------------------------ MODULE MCParts ------------------------------
(***************************************************************************)
(* The components that share no state with any other, in one instance for  *)
(* TLC: the batch writer, the usage accounting, the UDP half of the Trojan *)
(* front end, the selection of egresses, the traffic accounting, the live  *)
(* log and the datagram frames.  Every behaviour is one of one component,  *)
(* its focus; the others stay in their initial state.                      *)
(***************************************************************************)
EXTENDS BatchWriter, UsageWriter, FiniteSets

CONSTANTS Target, MaxAssociations, MaxPackets, MaxAnswers, MaxDialled,
          Client, Agent, StreamOnly, Tunnel, MaxDials, MaxChanges, MaxTime,
          Tag, IP, MaxBytes, MaxEvents,
          MaxDay, MaxLines, MaxLine, Inner, Limit, MaxChunks, MaxFaults,
          MaxLength, Buffer, MaxFrames

ASSUME PartsAssumption ==
    /\ Target # {}
    /\ MaxAssociations \in Nat
    /\ MaxDialled \in Nat
    /\ MaxDay \in Nat \ {0}
    /\ Limit \in Nat \ {0}
    /\ MaxLine \in Nat
    /\ Inner \subseteq Nat \ {0}
    /\ Buffer \in Nat
    /\ MaxLength \in Nat

\* Agents are rows of a table, named by their numbers, and tunnels accounts of
\* another.
ASSUME SelectionAssumption ==
    /\ Agent \subseteq Int /\ IsFiniteSet(Agent)
    /\ IsFiniteSet(Tunnel)
    /\ MaxTime \in Nat

\* There are finitely many accounts, so that their bytes have a sum.
ASSUME TrafficAssumption == IsFiniteSet(Tag)

VARIABLES focus,
    client, udpSession, active, udpOpen, reader, pieces, recent, up, down, carried, reported,
    udpBudget,
    online, running, keeper, lossy, bound, answers, cursor, sticky, now, dial, round, dialBudget,
    counter, address, traffic, pool, samples, lastTag, lastIP, lastTotal, since, whole, passed,
    trafficBudget,
    today, size, date, open, page, request, logBudget,
    lengths, frameTodo, wire, frameReader, received, closed

udpVars == <<client, udpSession, active, udpOpen, reader, pieces, recent, up, down, carried,
             reported, udpBudget>>
dialVars == <<online, running, keeper, lossy, bound, answers, cursor, sticky, now, dial, round,
              dialBudget>>
trafficVars == <<counter, address, traffic, pool, samples, lastTag, lastIP, lastTotal, since,
                 whole, passed, trafficBudget>>
logVars == <<today, size, date, open, page, request, logBudget>>
frameVars == <<lengths, frameTodo, wire, frameReader, received, closed>>
allVars == <<focus, vars, usageVars, udpVars, dialVars, trafficVars, logVars, frameVars>>

T == INSTANCE TrojanUdp WITH session <- udpSession, open <- udpOpen, budget <- udpBudget
S == INSTANCE Selection WITH budget <- dialBudget
F == INSTANCE Traffic WITH budget <- trafficBudget
L == INSTANCE LogFeed WITH budget <- logBudget, Lines <- MaxLines
P == INSTANCE PacketFrames WITH todo <- frameTodo, reader <- frameReader, MaxPackets <- MaxFrames

\* One egress connects quickly; the others do not, or only slowly, or say that
\* there is no such target.
FewEgresses ==
    /\ keeper \in {{}, {CHOOSE t \in Tunnel : TRUE}}
    /\ bound # CHOOSE t \in Tunnel : TRUE
    /\ \E e \in S!Egress, others \in {S!Slow, S!Never, S!Denied} :
          answers = [x \in S!Egress |-> IF x = e THEN S!Quick ELSE others]

MCInit ==
    /\ focus \in {"batch", "usage", "udp", "selection", "traffic", "log", "frames"}
    /\ Init /\ UsageInit /\ T!Init /\ L!Init /\ P!Init
    /\ F!Init /\ address = [t \in Tag |-> CHOOSE i \in IP : TRUE]
    /\ S!Init
    /\ IF focus = "selection" THEN FewEgresses
       ELSE /\ keeper = {} /\ bound = CHOOSE t \in Tunnel : TRUE
            /\ answers = [e \in S!Egress |-> S!Quick] /\ dialBudget.changes = 0

BatchStep == focus = "batch" /\ Next
             /\ UNCHANGED <<focus, usageVars, udpVars, dialVars, trafficVars, logVars, frameVars>>
UsageStep == focus = "usage" /\ UsageNext
             /\ UNCHANGED <<focus, vars, udpVars, dialVars, trafficVars, logVars, frameVars>>
UdpStep == focus = "udp" /\ T!Next
           /\ UNCHANGED <<focus, vars, usageVars, dialVars, trafficVars, logVars, frameVars>>
SelectionStep == focus = "selection" /\ S!Next
                 /\ UNCHANGED <<focus, vars, usageVars, udpVars, trafficVars, logVars, frameVars>>
TrafficStep == focus = "traffic" /\ F!Next
               /\ UNCHANGED <<focus, vars, usageVars, udpVars, dialVars, logVars, frameVars>>
LogStep == focus = "log" /\ L!Next
           /\ UNCHANGED <<focus, vars, usageVars, udpVars, dialVars, trafficVars, frameVars>>
FrameStep == focus = "frames" /\ P!Next
             /\ UNCHANGED <<focus, vars, usageVars, udpVars, dialVars, trafficVars, logVars>>

MCNext ==
    \/ BatchStep \/ UsageStep \/ UdpStep \/ SelectionStep \/ TrafficStep \/ LogStep \/ FrameStep

\* Each component's own fairness, where it is the one that moves.
FairBatch ==
    /\ WF_vars(focus = "batch" /\ LockWrite) /\ WF_vars(focus = "batch" /\ Fill)
    /\ WF_vars(focus = "batch" /\ FlushFull) /\ WF_vars(focus = "batch" /\ WriteReturns)
    /\ WF_vars(focus = "batch" /\ LockFlush) /\ WF_vars(focus = "batch" /\ FlushReturns)
    /\ WF_vars(focus = "batch" /\ TimerFires) /\ WF_vars(focus = "batch" /\ Callback)
    /\ WF_vars(focus = "batch" /\ CallbackReturns)
    /\ WF_vars(focus = "batch" /\ (DstWrite \/ DstFails))

FairUsage ==
    /\ WF_usageVars(focus = "usage" /\ Writer)
    /\ \A u \in Session : WF_usageVars(focus = "usage" /\ Report(u))
    /\ \A p \in Stopper : WF_usageVars(focus = "usage" /\ Flush(p))

FairUdp ==
    /\ WF_udpVars(focus = "udp" /\ T!SessionSteps)
    /\ WF_udpVars(focus = "udp" /\ T!GoneFails)
    /\ \A a \in T!Association : /\ WF_udpVars(focus = "udp" /\ T!ReaderSteps(a))
                               /\ WF_udpVars(focus = "udp" /\ T!ClosedBroken(a))

MCSpec ==
    /\ MCInit /\ [][MCNext]_allVars
    /\ FairBatch /\ FairUsage /\ FairUdp
    /\ WF_logVars(focus = "log" /\ L!Live)

-----------------------------------------------------------------------------
(* The properties of the components, under the names they have there.       *)

\* Every variable of every component has its type.
Typed == TypeOK /\ UsageTypeOK /\ T!TypeOK /\ S!TypeOK /\ F!TypeOK /\ L!TypeOK /\ P!TypeOK

\* TrojanUdp: what a closed association has carried is what it reported, and a
\* session that is over has closed them all.
ReportedInFull == T!ReportedInFull

\* TrojanUdp: no more associations are open than the limit.
WithinLimit == T!WithinLimit

\* TrojanUdp: a client that is gone gets its session to return.
SessionEnds == T!SessionEnds

\* Selection: the nodes get their turns evenly.
SpreadsEvenly == S!SpreadsEvenly

\* Selection: one agent that answers is enough for the automatic choice.
ServedIfReachable == S!ServedIfReachable

\* Selection: a slot leaves through its own account while that answers.
SlotKeepsAddress == S!SlotKeepsAddress

\* Traffic: an account is credited with its bytes, and only once.
CreditedOnce == F!CreditedOnce

\* Traffic: a sample is no more than what passed since the last one.
SampleIsThroughput == F!SampleIsThroughput

\* LogFeed: the page shows the beginning of one day's file.
ShowsTheFile == L!ShowsTheFile

\* LogFeed: in the end it shows all of it.
CatchesUp == L!CatchesUp

\* PacketFrames: the datagrams come out whole and in order.
DatagramsWhole == P!DatagramsWhole
=============================================================================
