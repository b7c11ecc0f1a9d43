------------------------------ MODULE TrojanUdp ------------------------------
(***************************************************************************)
(* The UDP half of the Trojan front end                                    *)
(* (backend/internal/proxy/trojan_udp.go).  One client connection carries  *)
(* the datagrams of any number of targets.  The goroutine of the session   *)
(* (relayTrojanUDP) reads the client's packets and sends each over the     *)
(* association of its target; a goroutine per association (readResponses)  *)
(* copies the answers back.  Either side may close an association, and     *)
(* closing it reports its traffic, once.                                   *)
(*                                                                         *)
(* useMu of an association is a sync.RWMutex: sending and answering hold   *)
(* it for reading, close for writing.  Every datagram counts as one byte;  *)
(* an answer longer than a frame is written to the client in pieces.       *)
(***************************************************************************)
EXTENDS Integers, FiniteSets

CONSTANTS Target,          \* destinations the client may name
          MaxAssociations, \* trojanUDPMaxAssociations
          MaxPackets,      \* bound on the packets of the client
          MaxAnswers,      \* bound on the datagrams of the targets
          MaxDialled       \* bound on the associations ever dialled

VARIABLES
    client,    \* the connection of the client: "open", "closed"
    session,   \* where relayTrojanUDP is, with the packet it sends
    active,    \* the map of relayTrojanUDP: target to association, 0 for none
    open,      \* associations that are not closed
    reader,    \* where readResponses of each association is
    pieces,    \* frames of the answer that are still to be written
    recent,    \* touched since readResponses last loaded lastUse
    up,        \* upBytes and dnBytes
    down,
    carried,   \* datagrams an association has passed on, both ways
    reported,  \* the datagrams handed to onUsage
    budget     \* packets and answers still to come

vars == <<client, session, active, open, reader, pieces, recent, up, down,
          carried, reported, budget>>
association == <<open, pieces, recent, up, down, carried, reported>>

Association == 1 .. MaxDialled
Dialled == {a \in Association : reader[a] # "none"}

Idle == [at |-> "reading", target |-> CHOOSE t \in Target : TRUE, assoc |-> 0, attempt |-> 0]

Init ==
    /\ client = "open"
    /\ session = Idle
    /\ active = [t \in Target |-> 0]
    /\ open = {}
    /\ reader = [a \in Association |-> "none"]
    /\ pieces = [a \in Association |-> 0]
    /\ recent = {}
    /\ up = [a \in Association |-> 0]
    /\ down = [a \in Association |-> 0]
    /\ carried = [a \in Association |-> 0]
    /\ reported = [a \in Association |-> 0]
    /\ budget = [packets |-> MaxPackets, answers |-> MaxAnswers]

At(place) == session.at = place

-----------------------------------------------------------------------------
(* close of an association.                                                 *)

\* Who holds useMu of association a for reading.
Using(a) ==
    \/ session.at \in {"sending", "counting"} /\ session.assoc = a
    \/ reader[a] \in {"answering", "counting"}

\* Mutant: close does not take the lock.
Closed_Unlocked(a) ==
    /\ open' = open \ {a}
    /\ reported' = [reported EXCEPT ![a] = IF a \in open THEN up[a] + down[a] ELSE @]
    /\ UNCHANGED <<recent, up, down, carried>>

\* close: once, under the lock, the connection and then the report.
Closed(a) ==
    /\ a \in open => ~ Using(a)
    /\ open' = open \ {a}
    /\ reported' = [reported EXCEPT ![a] = IF a \in open THEN up[a] + down[a] ELSE @]
    /\ UNCHANGED <<recent, up, down, carried>>

-----------------------------------------------------------------------------
(* relayTrojanUDP: the session.                                             *)

\* A packet of the client is read and is for target t.
ReadPacket(t) ==
    /\ At("reading") /\ client = "open"
    /\ budget.packets > 0
    /\ budget' = [budget EXCEPT !.packets = @ - 1]
    /\ session' = [Idle EXCEPT !.at = "finding", !.target = t]
    /\ UNCHANGED <<client, active, reader, association>>

\* The connection is over, or what was read is no packet.
ReadFails ==
    /\ At("reading")
    /\ session' = [session EXCEPT !.at = "ending"]
    /\ UNCHANGED <<client, active, reader, association, budget>>

Swept == [t \in Target |-> IF active[t] \in open THEN active[t] ELSE 0]
Live == {t \in Target : Swept[t] # 0}

\* association(): the target has one that is not closed.
Reuse ==
    /\ At("finding") /\ active[session.target] \in open
    /\ session' = [session EXCEPT !.at = "found", !.assoc = active[session.target]]
    /\ UNCHANGED <<client, active, reader, association, budget>>

\* It has none, and the closed ones are swept out of the map; there may be as
\* many as are allowed already.
Sweep ==
    /\ At("finding") /\ active[session.target] \notin open
    /\ active' = Swept
    /\ session' = IF Cardinality(Live) >= MaxAssociations THEN Idle
                  ELSE [session EXCEPT !.at = "dialling"]
    /\ UNCHANGED <<client, reader, association, budget>>

\* dialUDPVia has an egress that answers.
Dial(a) ==
    /\ At("dialling")
    /\ a \notin Dialled /\ \A b \in Association : b < a => b \in Dialled
    /\ open' = open \cup {a}
    /\ reader' = [reader EXCEPT ![a] = "arming"]
    /\ recent' = recent \cup {a}
    /\ active' = [active EXCEPT ![session.target] = a]
    /\ session' = [session EXCEPT !.at = "found", !.assoc = a]
    /\ UNCHANGED <<client, pieces, up, down, carried, reported, budget>>

DialFails ==
    /\ At("dialling")
    /\ session' = Idle
    /\ UNCHANGED <<client, active, reader, association, budget>>

\* send: RLock and touch.
Use ==
    /\ At("found")
    /\ session' = [session EXCEPT !.at = "sending"]
    /\ recent' = recent \cup {session.assoc}
    /\ UNCHANGED <<client, active, open, reader, pieces, up, down, carried, reported, budget>>

\* The packet is written, which a closed connection refuses.
Write ==
    /\ At("sending") /\ session.assoc \in open
    /\ carried' = [carried EXCEPT ![session.assoc] = @ + 1]
    /\ session' = [session EXCEPT !.at = "counting"]
    /\ UNCHANGED <<client, active, open, reader, pieces, recent, up, down, reported, budget>>

Count ==
    /\ At("counting")
    /\ up' = [up EXCEPT ![session.assoc] = @ + 1]
    /\ session' = Idle
    /\ UNCHANGED <<client, active, open, reader, pieces, recent, down, carried, reported, budget>>

\* It is not written, and RUnlock.
WriteFails ==
    /\ At("sending")
    /\ session' = [session EXCEPT !.at = "dropping"]
    /\ UNCHANGED <<client, active, reader, association, budget>>

\* Mutant: only the map forgets it.
Drop_Forget ==
    /\ At("dropping")
    /\ active' = [active EXCEPT ![session.target] = 0]
    /\ session' = IF session.attempt = 1 THEN Idle
                  ELSE [session EXCEPT !.at = "finding", !.attempt = 1]
    /\ UNCHANGED <<client, reader, association, budget>>

\* send gives the association up, and tries once more.
Drop ==
    /\ At("dropping")
    /\ Closed(session.assoc)
    /\ active' = [active EXCEPT ![session.target] = 0]
    /\ session' = IF session.attempt = 1 THEN Idle
                  ELSE [session EXCEPT !.at = "finding", !.attempt = 1]
    /\ UNCHANGED <<client, reader, pieces, budget>>

-----------------------------------------------------------------------------
(* close of the relay, when relayTrojanUDP returns.                         *)

EndRelay ==
    /\ At("ending")
    /\ client' = "closed"
    /\ session' = [session EXCEPT !.at = "closing"]
    /\ UNCHANGED <<active, reader, association, budget>>

CloseActive(t) ==
    /\ At("closing") /\ active[t] \in open
    /\ Closed(active[t])
    /\ UNCHANGED <<client, session, active, reader, pieces, budget>>

\* Mutant: the relay does not close what is active.
AllClosed_Skip ==
    /\ At("closing")
    /\ session' = [session EXCEPT !.at = "waiting"]
    /\ UNCHANGED <<client, active, reader, association, budget>>

AllClosed ==
    /\ At("closing") /\ Live = {}
    /\ session' = [session EXCEPT !.at = "waiting"]
    /\ UNCHANGED <<client, active, reader, association, budget>>

\* wg.Wait.
Returns ==
    /\ At("waiting")
    /\ \A a \in Dialled : reader[a] = "done"
    /\ session' = [session EXCEPT !.at = "returned"]
    /\ UNCHANGED <<client, active, reader, association, budget>>

-----------------------------------------------------------------------------
(* readResponses.                                                           *)

Go(a, from, to) == reader[a] = from /\ reader' = [reader EXCEPT ![a] = to]

\* The deadline is set from the lastUse that is loaded.
Arm(a) ==
    /\ Go(a, "arming", "reading")
    /\ recent' = recent \ {a}
    /\ UNCHANGED <<client, session, active, open, pieces, up, down, carried, reported, budget>>

\* A datagram of the target, and touch.
Answer(a) ==
    /\ Go(a, "reading", "answered")
    /\ a \in open
    /\ budget.answers > 0
    /\ budget' = [budget EXCEPT !.answers = @ - 1]
    /\ recent' = recent \cup {a}
    /\ UNCHANGED <<client, session, active, open, pieces, up, down, carried, reported>>

\* RLock, and the association may be closed by now.
Admit(a) ==
    /\ reader[a] = "answered"
    /\ reader' = [reader EXCEPT ![a] = IF a \in open THEN "answering" ELSE "ending"]
    /\ pieces' \in {[pieces EXCEPT ![a] = n] : n \in 1 .. 2}
    /\ UNCHANGED <<client, session, active, open, recent, up, down, carried, reported, budget>>

\* A frame of the answer is written under writeMu; the answer is passed on
\* with the last one.
WriteFrame(a) ==
    /\ reader[a] = "answering" /\ client = "open"
    /\ pieces' = [pieces EXCEPT ![a] = @ - 1]
    /\ reader' = [reader EXCEPT ![a] = IF pieces[a] = 1 THEN "counting" ELSE @]
    /\ carried' = [carried EXCEPT ![a] = IF pieces[a] = 1 THEN @ + 1 ELSE @]
    /\ UNCHANGED <<client, session, active, open, recent, up, down, reported, budget>>

CountAnswer(a) ==
    /\ Go(a, "counting", "arming")
    /\ down' = [down EXCEPT ![a] = @ + 1]
    /\ UNCHANGED <<client, session, active, open, pieces, recent, up, carried, reported, budget>>

\* The client is gone, or takes nothing within the deadline of a write: the
\* whole session is aborted, and the frames already written are not counted.
FrameFails(a) ==
    /\ Go(a, "answering", "ending")
    /\ client' = "closed"
    /\ UNCHANGED <<session, active, association, budget>>

\* The deadline: an association that was touched meanwhile reads on.
Timeout(a) ==
    /\ reader[a] = "reading" /\ a \in open
    /\ reader' = [reader EXCEPT ![a] = IF a \in recent THEN "arming" ELSE "ending"]
    /\ UNCHANGED <<client, session, active, association, budget>>

\* The connection is closed, or refused by the target.
ReadBroken(a) ==
    /\ Go(a, "reading", "ending")
    /\ UNCHANGED <<client, session, active, association, budget>>

EndReader(a) ==
    /\ Go(a, "ending", "done")
    /\ Closed(a)
    /\ UNCHANGED <<client, session, active, pieces, budget>>

-----------------------------------------------------------------------------
\* The client goes away.
ClientLeaves ==
    /\ client = "open"
    /\ client' = "closed"
    /\ UNCHANGED <<session, active, reader, association, budget>>

SessionSteps ==
    \/ Reuse \/ Sweep \/ (\E a \in Association : Dial(a)) \/ DialFails
    \/ Use \/ Write \/ Count \/ WriteFails \/ Drop
    \/ EndRelay \/ (\E t \in Target : CloseActive(t)) \/ AllClosed \/ Returns

ReaderSteps(a) ==
    Arm(a) \/ Admit(a) \/ WriteFrame(a) \/ CountAnswer(a) \/ FrameFails(a) \/ EndReader(a)

Next ==
    \/ SessionSteps \/ ReadFails \/ (\E t \in Target : ReadPacket(t))
    \/ \E a \in Association : ReaderSteps(a) \/ Answer(a) \/ Timeout(a) \/ ReadBroken(a)
    \/ ClientLeaves

GoneFails == client = "closed" /\ ReadFails
ClosedBroken(a) == a \notin open /\ ReadBroken(a)

\* Every goroutine runs, a read of a closed connection returns, and a write to
\* the client ends, by its deadline if by nothing else.  Nobody need answer,
\* nor an idle association time out.
Fairness ==
    /\ WF_vars(SessionSteps)
    /\ WF_vars(GoneFails)
    /\ \A a \in Association : WF_vars(ReaderSteps(a)) /\ WF_vars(ClosedBroken(a))

Spec == Init /\ [][Next]_vars /\ Fairness

-----------------------------------------------------------------------------
TypeOK ==
    /\ client \in {"open", "closed"}
    /\ active \in [Target -> 0 .. MaxDialled]
    /\ open \subseteq Dialled
    /\ \A a \in Association : reader[a] \in
          {"none", "arming", "reading", "answered", "answering", "counting", "ending", "done"}

\* What a closed association has passed on, both ways, is what it reported:
\* no packet that is being sent and no answer that is being written when
\* somebody closes it is left out, and none is reported twice.  When the
\* session has returned every association is closed (close, reportUsage,
\* relay.close).
ReportedInFull ==
    /\ \A a \in Dialled \ open : reported[a] = carried[a]
    /\ At("returned") => open = {} /\ \A a \in Dialled : reader[a] = "done"

\* There are never more open associations than trojanUDPMaxAssociations: the
\* map may forget only what is closed.
WithinLimit == Cardinality(open) <= MaxAssociations

\* A client that is gone gets its session to return, whatever the session and
\* its associations are in the middle of; the server waits for it, and its
\* usage is then complete.
SessionEnds == client = "closed" ~> At("returned")
=============================================================================
