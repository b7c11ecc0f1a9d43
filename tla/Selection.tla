------------------------------ MODULE Selection ------------------------------
(***************************************************************************)
(* Which egress a proxy connection leaves through: the credentials name a  *)
(* way to choose (Manager.resolve and the functions it calls, backend/     *)
(* internal/proxy/manager.go), and the chain of candidates it returns is   *)
(* dialled in order (dialViaNetworkWithPolicy of mixed.go, with the limits *)
(* of dial_policy.go).                                                     *)
(*                                                                         *)
(* resolve runs under the manager's mutex and is one step; the dial holds  *)
(* no lock, and agents and tunnels may come and go under it.  Dials share  *)
(* nothing, so that one at a time is followed.  The score that orders the  *)
(* tunnels is left out: any order may come of it.  Time is counted in      *)
(* seconds within a dial, and in sticky windows between the dials.         *)
(***************************************************************************)
EXTENDS Integers, SequencesExt

CONSTANTS Client,      \* client addresses
          Agent,       \* remote nodes, as numbers: the order of their ids
          StreamOnly,  \* those whose agent cannot carry UDP
          Tunnel,      \* accounts of the local pool, as numbers
          MaxDials,    \* bound on the connections while nothing changes
          MaxChanges,  \* bound on what comes, goes or breaks during a single one
          MaxTime      \* bound on the windows

MaxAttempts == 3       \* maxProxyDialAttempts
AttemptTTL == 5        \* proxyDialAttemptTTL
TotalTTL == 12         \* proxyDialTotalTTL
StickyWindow == 1      \* rotateStickyWindow

Quick == 1             \* seconds in which an egress reaches the target
Slow == 4
Never == 99
Denied == 100          \* it answers that it does not reach it

AgentEgress(n) == <<"agent", n>>
TunnelEgress(t) == <<"tunnel", t>>
Egress == {AgentEgress(n) : n \in Agent} \cup {TunnelEgress(t) : t \in Tunnel}
Warp == <<"warp">>     \* the local pool, as one node
Nobody == <<"nobody">>

VARIABLES
    online,    \* agents the hub has
    running,   \* the manager's tunnels
    keeper,    \* those whose account keeps its address
    lossy,     \* those that lose 80 % of the packets or more
    bound,     \* the account of the client's slot
    answers,   \* how long each egress takes to connect to the target
    cursor,    \* rotateCursor
    sticky,    \* rotateSticky
    now,
    dial,      \* the connection that is being made
    round,     \* history: the last list of nodes, and what each was given
    budget

world == <<online, running, keeper, lossy, bound, answers>>
vars == <<world, cursor, sticky, now, dial, round, budget>>

NoDial == [at |-> "none", way |-> "none", net |-> "tcp", chain |-> <<>>,
           nodes |-> 0,
           attempts |-> 0, spent |-> 0, egress |-> Nobody, quick |-> {}]

Init ==
    /\ online = Agent /\ running = Tunnel
    /\ keeper \in SUBSET Tunnel
    /\ lossy = {}
    /\ bound \in Tunnel
    /\ answers \in [Egress -> {Quick, Slow, Never, Denied}]
    /\ cursor = 0
    /\ sticky = [c \in Client |-> [node |-> Nobody, assigned |-> 0]]
    /\ now = 0
    /\ dial = NoDial
    /\ round = [nodes |-> <<>>, given |-> <<>>]
    /\ budget \in {[dials |-> MaxDials, changes |-> 0], [dials |-> 1, changes |-> MaxChanges]}

-----------------------------------------------------------------------------
(* The local pool.                                                          *)

\* candidatesLocked: the keepers, or everybody when there is none.
Pool == LET Usable(pool) == (running \cap pool) \ lossy
        IN IF Usable(keeper) # {} THEN Usable(keeper) ELSE Usable(Tunnel)

\* rankedStableCandidatesLocked, for every order of the scores.
Ranked == {[i \in DOMAIN s |-> TunnelEgress(s[i])] : s \in SetToSeqs(Pool)}

\* A list without one of its elements, which it has only once.
Without(s, e) ==
    IF e \in ToSet(s) THEN RemoveAt(s, CHOOSE i \in DOMAIN s : s[i] = e) ELSE s

\* slotCandidatesLocked: the bound tunnel first, whatever its loss.
SlotChain(tunnels) ==
    LET others == Without(tunnels, TunnelEgress(bound))
    IN IF bound \in running THEN <<TunnelEgress(bound)>> \o others ELSE others

-----------------------------------------------------------------------------
(* rotateCandidatesLocked.                                                  *)

\* The agents, in the order of their ids.
OnlineEgresses ==
    [i \in 1 .. Cardinality(online) |->
        AgentEgress(CHOOSE n \in online : Cardinality({m \in online : m <= n}) = i)]

\* The local pool is one node and every agent is one.
Nodes == (IF Pool # {} THEN <<Warp>> ELSE <<>>) \o OnlineEgresses

Held(c) ==
    /\ sticky[c].node \in ToSet(Nodes)
    /\ now - sticky[c].assigned < StickyWindow

\* The node of this connection: the client's own within the window, or the
\* next one.
Pick(c) == IF Held(c) THEN sticky[c].node ELSE Nodes[(cursor % Len(Nodes)) + 1]

\* Mutant: the cursor moves on with every connection.
Assign_Moves(c) ==
    LET kept == {x \in Client : now - sticky[x].assigned < StickyWindow}
    IN /\ cursor' = cursor + 1
       /\ sticky' = IF Held(c) THEN sticky
                    ELSE [x \in Client |->
                            IF x = c THEN [node |-> Pick(c), assigned |-> now]
                            ELSE IF x \in kept THEN sticky[x]
                            ELSE [node |-> Nobody, assigned |-> 0]]

\* A new assignment moves the cursor and prunes the expired ones.
Assign(c) ==
    LET kept == {x \in Client : now - sticky[x].assigned < StickyWindow}
    IN IF Held(c) THEN UNCHANGED <<cursor, sticky>>
       ELSE /\ cursor' = cursor + 1
            /\ sticky' = [x \in Client |->
                            IF x = c THEN [node |-> Pick(c), assigned |-> now]
                            ELSE IF x \in kept THEN sticky[x]
                            ELSE [node |-> Nobody, assigned |-> 0]]

\* The history of the property SpreadsEvenly.
Given(c) ==
    LET fresh == [n \in ToSet(Nodes) |-> 0]
        given == IF round.nodes = Nodes THEN round.given ELSE fresh
    IN round' = IF Held(c) THEN round
                ELSE [nodes |-> Nodes, given |-> [given EXCEPT ![Pick(c)] = @ + 1]]

\* Mutant: the chain fails over within the pool of the node only.
RotateChain_Within(node, tunnels) ==
    IF node = Warp THEN tunnels ELSE <<node>>

\* The egress of the node, then one of every other node, then the rest of its
\* own, MaxAttempts in all.
RotateChain(node, tunnels) ==
    LET own == IF node = Warp THEN tunnels ELSE <<node>>
        others == Without(Nodes, node)
        heads == [i \in DOMAIN others |-> IF others[i] = Warp THEN Head(tunnels) ELSE others[i]]
        chain == <<Head(own)>> \o heads \o Tail(own)
    IN SubSeq(chain, 1, IF Len(chain) < MaxAttempts THEN Len(chain) ELSE MaxAttempts)

-----------------------------------------------------------------------------
\* An egress nobody finds any more; it refuses whoever has found it before.
Gone(e) == (e[1] = "agent" /\ e[2] \notin online) \/ (e[1] = "tunnel" /\ e[2] \notin running)

(* resolve, for each kind of credentials.                                   *)

CanStart == dial.at # "dialling" /\ budget.dials > 0

\* A connection with this chain, or none at all when it is empty.
Start(way, chain) ==
    /\ \E net \in {"tcp", "udp"} :
          dial' = [NoDial EXCEPT !.at = IF chain = <<>> THEN "failed" ELSE "dialling",
                                 !.way = way, !.net = net,
                                 !.chain = chain, !.nodes = Len(Nodes),
                                 !.quick = {e \in Egress : answers[e] = Quick}]
    /\ budget' = [budget EXCEPT !.dials = @ - 1]
    /\ UNCHANGED <<world, now>>

ResolveAuto(c) ==
    /\ CanStart
    /\ \E tunnels \in Ranked :
          IF Nodes = <<>>
          THEN Start("auto", <<>>) /\ UNCHANGED <<cursor, sticky, round>>
          ELSE /\ Start("auto", RotateChain(Pick(c), tunnels))
               /\ Assign(c) /\ Given(c)

ResolveStable ==
    /\ CanStart
    /\ \E tunnels \in Ranked : Start("stable", tunnels)
    /\ UNCHANGED <<cursor, sticky, round>>

\* Mutant: the bound tunnel takes its place by score.
ResolveSlot_ByScore ==
    /\ CanStart
    /\ \E tunnels \in Ranked : Start("slot", tunnels)
    /\ UNCHANGED <<cursor, sticky, round>>

ResolveSlot ==
    /\ CanStart
    /\ \E tunnels \in Ranked : Start("slot", SlotChain(tunnels))
    /\ UNCHANGED <<cursor, sticky, round>>

\* node-<id> and the tag of a tunnel name one egress, or nothing.
ResolveOne ==
    /\ CanStart
    /\ \E e \in Egress : Start("one", IF Gone(e) THEN <<>> ELSE <<e>>)
    /\ UNCHANGED <<cursor, sticky, round>>

-----------------------------------------------------------------------------
(* dialViaNetworkWithPolicy.                                                *)

Datagrams(e) == e[1] = "tunnel" \/ e[2] \notin StreamOnly

Least(m, n) == IF m < n THEN m ELSE n

\* The connection is made through e, or is not made.
Served(e) == dial' = [NoDial EXCEPT !.at = "served", !.egress = e]
Failed == dial' = [NoDial EXCEPT !.at = "failed"]

\* The error of e ends the dial, whatever is left of the chain.
DeniedBy(e) == dial' = [NoDial EXCEPT !.at = "failed", !.egress = e]

\* The chain, the attempts or the time is at its end.
GiveUp ==
    /\ dial.at = "dialling"
    /\ \/ dial.chain = <<>>
       \/ dial.attempts >= MaxAttempts
       \/ dial.spent >= TotalTTL
    /\ Failed
    /\ UNCHANGED <<world, cursor, sticky, now, round, budget>>

Going ==
    /\ dial.at = "dialling" /\ dial.chain # <<>>
    /\ dial.attempts < MaxAttempts /\ dial.spent < TotalTTL

\* An egress without datagrams is passed over, and is no attempt.
Skip ==
    /\ Going
    /\ dial.net = "udp" /\ ~ Datagrams(Head(dial.chain))
    /\ dial' = [dial EXCEPT !.chain = Tail(@)]
    /\ UNCHANGED <<world, cursor, sticky, now, round, budget>>

\* The time the next attempt has.
Allowed == Least(AttemptTTL, TotalTTL - dial.spent)

\* isPermanentTargetDialError: the resolver or the stack of a tunnel says that
\* there is no such name, no address of its family or nobody who listens.  What
\* an agent says of its own attempt is one text for every reason, and is none.
Permanent(e) == e[1] = "tunnel" /\ ~ Gone(e) /\ answers[e] = Denied

\* One attempt: it connects in its time, or its error is permanent and ends the
\* dial, or the next candidate is tried, after the whole time or earlier.
Attempt ==
    LET e == Head(dial.chain)
    IN /\ Going
       /\ dial.net = "udp" => Datagrams(e)
       /\ \/ ~ Gone(e) /\ answers[e] <= Allowed /\ Served(e)
          \/ Permanent(e) /\ DeniedBy(e)
          \/ /\ Gone(e) \/ answers[e] > Allowed
             /\ ~ Permanent(e)
             /\ \E taken \in {0, Allowed} :
                   dial' = [dial EXCEPT !.chain = Tail(@), !.attempts = @ + 1, !.spent = @ + taken]
       /\ UNCHANGED <<world, cursor, sticky, now, round, budget>>

-----------------------------------------------------------------------------
(* What happens meanwhile.                                                  *)

\* An egress that breaks is no longer one that was quick all the time.
Change(e) ==
    /\ budget.changes > 0
    /\ budget' = [budget EXCEPT !.changes = @ - 1]
    /\ dial' = [dial EXCEPT !.quick = @ \ {e}]
    /\ UNCHANGED <<bound, cursor, sticky, now, round>>

AgentComesOrGoes(n) ==
    /\ online' \in {online \cup {n}, online \ {n}} /\ online' # online
    /\ Change(AgentEgress(n))
    /\ UNCHANGED <<running, keeper, lossy, answers>>

TunnelStops(t) ==
    /\ running' = running \ {t} /\ t \in running
    /\ Change(TunnelEgress(t))
    /\ UNCHANGED <<online, keeper, lossy, answers>>

\* A new measurement of a tunnel.
Metadata(t) ==
    /\ lossy' \in {lossy \cup {t}, lossy \ {t}} /\ lossy' # lossy
    /\ Change(TunnelEgress(t))
    /\ UNCHANGED <<online, running, keeper, answers>>

Breaks(e) ==
    /\ answers[e] \in {Quick, Slow}
    /\ \E how \in {Never, Denied} : answers' = [answers EXCEPT ![e] = how]
    /\ Change(e)
    /\ UNCHANGED <<online, running, keeper, lossy>>

WindowPasses ==
    /\ now < MaxTime
    /\ now' = now + 1
    /\ UNCHANGED <<world, cursor, sticky, dial, round, budget>>

Next ==
    \/ \E c \in Client : ResolveAuto(c)
    \/ ResolveStable \/ ResolveSlot \/ ResolveOne \/ GiveUp \/ Skip \/ Attempt
    \/ \E n \in Agent : AgentComesOrGoes(n)
    \/ \E t \in Tunnel : TunnelStops(t) \/ Metadata(t)
    \/ \E e \in Egress : Breaks(e)
    \/ WindowPasses

Spec == Init /\ [][Next]_vars

-----------------------------------------------------------------------------
TypeOK ==
    /\ online \subseteq Agent /\ running \subseteq Tunnel /\ lossy \subseteq Tunnel
    /\ dial.at \in {"none", "dialling", "served", "failed"}
    /\ \A c \in Client : sticky[c].node \in {Warp, Nobody} \cup {AgentEgress(n) : n \in Agent}
    /\ cursor \in Nat

\* As long as the list of nodes stays as it is, the clients that are given a
\* node are spread evenly over them, and those that come back within their
\* window take nobody's turn ("全局 round-robin 把新分配均匀铺开", egress.go:24).
SpreadsEvenly ==
    \A m, n \in DOMAIN round.given : round.given[m] <= round.given[n] + 1

\* With the credential "auto" and no more than MaxAttempts nodes, one agent
\* that reaches the target quickly from the look-up on is enough for the
\* connection to succeed, whatever the others do, unless a tunnel that is tried
\* before it returns a permanent error: the others can use up neither the
\* attempts nor the time.
ServedIfReachable ==
    [][(/\ dial.at = "dialling" /\ dial'.at = "failed"
        /\ dial.way = "auto" /\ dial'.egress = Nobody
        /\ dial.nodes <= MaxAttempts)
       => \A n \in online : \/ AgentEgress(n) \notin dial.quick
                            \/ dial.net = "udp" /\ ~ Datagrams(AgentEgress(n))]_vars

\* The credential of a slot leaves through its own account, hence with the
\* address the user chose, whenever that account's tunnel answers.
SlotKeepsAddress ==
    [][(/\ dial.at = "dialling" /\ dial'.at = "served"
        /\ dial.way = "slot" /\ bound \in running /\ TunnelEgress(bound) \in dial.quick)
       => dial'.egress = TunnelEgress(bound)]_vars
=============================================================================
