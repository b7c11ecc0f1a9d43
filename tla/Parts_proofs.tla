---------------------------- MODULE Parts_proofs ----------------------------
(***************************************************************************)
(* What is proved of the components that MCParts runs side by side: that   *)
(* the traffic loop credits no byte twice, that the Trojan UDP relay       *)
(* reports all an association carried and keeps to its limit, that the     *)
(* live log shows one day's file without a gap, that the datagrams come    *)
(* out of a session's stream whole, and that the selection of egresses     *)
(* spreads its clients, keeps a slot to its account and finds the agent    *)
(* that answers.  Each component has its inductive invariant, and each     *)
(* theorem is about that component's specification; the last two put them  *)
(* together, with what Writers_proofs proves, for the composition.         *)
(***************************************************************************)
EXTENDS MCParts, Writers_proofs, FiniteSetTheorems, SequenceTheorems, WellFoundedInduction, TLAPS

-----------------------------------------------------------------------------
(* Traffic.                                                                 *)

\* The counter of a tunnel that has run since the last round is what the loop
\* remembers of it and what it has carried since; one that was started since has
\* carried no more than its account is owed.
TrafficInv ==
    /\ since \in [Tag -> Nat]
    /\ counter \in [Tag -> Nat \cup {F!None}]
    /\ lastTag \in [Tag -> Nat \cup {F!None}]
    /\ traffic \in [Tag -> Nat]
    /\ whole \in SUBSET Tag
    /\ \A t \in whole : counter[t] = lastTag[t] + since[t] /\ lastTag[t] # F!None
    /\ \A t \in Tag \ whole : counter[t] # F!None => counter[t] =< since[t]

LEMMA TrafficInit == F!Init => TrafficInv
BY DEF F!Init, TrafficInv, F!None

LEMMA GrownBounds ==
    ASSUME TrafficInv, NEW t \in Tag, counter[t] # F!None
    PROVE  /\ F!Grown(t) \in Nat /\ F!Grown(t) =< since[t]
           /\ t \in whole => F!Grown(t) = since[t]
BY DEF TrafficInv, F!Grown, F!deltaBytes, F!None

LEMMA TrafficStepInv == TrafficInv /\ [F!Next]_(F!vars) => TrafficInv'
<1> SUFFICES ASSUME TrafficInv, [F!Next]_(F!vars)
             PROVE  TrafficInv'
  OBVIOUS
<1> USE DEF TrafficInv, F!None
<1>1. ASSUME NEW t \in Tag, F!Carry(t)
      PROVE  TrafficInv'
  BY <1>1 DEF F!Carry, F!tables, F!loop
<1>2. ASSUME NEW t \in Tag, F!Stop(t)
      PROVE  TrafficInv'
  BY <1>2 DEF F!Stop, F!tables, F!loop
<1>3. ASSUME NEW t \in Tag, F!Restart(t)
      PROVE  TrafficInv'
  BY <1>3 DEF F!Restart, F!tables, F!loop
<1>4. ASSUME NEW t \in Tag, NEW i \in IP, F!Moves(t, i)
      PROVE  TrafficInv'
  BY <1>4 DEF F!Moves, F!tables, F!loop, F!history
<1>5. CASE F!PanelRestarts
  BY <1>5 DEF F!PanelRestarts, F!tables, F!Forgotten
<1>6. CASE F!Round
  <2>1. /\ lastTag' = [t \in Tag |-> IF t \in F!Snapshot THEN counter[t] ELSE lastTag[t]]
        /\ since' = [t \in Tag |-> 0] /\ whole' = F!Snapshot /\ counter' = counter
    BY <1>6 DEF F!Round, F!RememberTags
  <2>2. PICK rows \in SUBSET Tag :
           traffic' = [t \in Tag |-> IF t \in F!Snapshot \cap rows
                                     THEN traffic[t] + F!Grown(t) ELSE traffic[t]]
    BY <1>6 DEF F!Round
  <2>3. traffic' \in [Tag -> Nat]
    BY <2>2, GrownBounds DEF F!Snapshot
  <2> QED
    BY <2>1, <2>3 DEF F!Snapshot
<1>7. CASE UNCHANGED F!vars
  BY <1>7 DEF F!vars, F!tables, F!loop, F!history
<1> QED
  BY <1>1, <1>2, <1>3, <1>4, <1>5, <1>6, <1>7 DEF F!Next

LEMMA CreditIsOwed ==
    ASSUME TrafficInv, [F!Next]_(F!vars), NEW t \in Tag
    PROVE  LET credit == traffic'[t] - traffic[t]
           IN /\ credit >= 0 /\ credit <= since[t]
              /\ t \in whole => credit \in {0, since[t]}
<1> USE DEF TrafficInv
<1>1. CASE traffic' = traffic
  BY <1>1
<1>2. CASE F!Round
  <2>1. PICK rows \in SUBSET Tag :
           traffic' = [u \in Tag |-> IF u \in F!Snapshot \cap rows
                                     THEN traffic[u] + F!Grown(u) ELSE traffic[u]]
    BY <1>2 DEF F!Round
  <2>2. CASE t \in F!Snapshot \cap rows
    BY <2>1, <2>2, GrownBounds DEF F!Snapshot
  <2>3. CASE t \notin F!Snapshot \cap rows
    BY <2>1, <2>3
  <2> QED
    BY <2>2, <2>3
<1>3. traffic' = traffic \/ F!Round
  BY DEF F!Next, F!Carry, F!Stop, F!Restart, F!Moves, F!PanelRestarts, F!tables, F!vars
<1> QED
  BY <1>1, <1>2, <1>3

\* A round credits an account with no byte twice, whatever tunnels were replaced,
\* stopped or moved and however often the program restarted; one whose tunnel ran
\* since the last round gets all its bytes, or none when the row is not written.
THEOREM AlwaysCreditedOnce == F!Spec => CreditedOnce
<1>1. TrafficInv /\ [F!Next]_(F!vars) =>
         [\A t \in Tag :
             LET credit == traffic'[t] - traffic[t]
             IN /\ credit >= 0 /\ credit <= since[t]
                /\ t \in whole => credit \in {0, since[t]}]_(F!vars)
  BY CreditIsOwed
<1> QED
  BY <1>1, TrafficInit, TrafficStepInv, PTL DEF F!Spec, CreditedOnce, F!CreditedOnce

\* Induction without a predicate: of the numbers up to a bound that are bad, one
\* is the least, because the subsets of a finite set are well founded.
LEMMA LeastOne ==
    ASSUME NEW k \in Nat, NEW bad \in SUBSET (0 .. k), bad # {}
    PROVE  \E n \in bad : \A m \in bad : n <= m
<1> DEFINE all == 1 .. k
           initial == {1 .. n : n \in bad}
           R == StrictSubsetOrdering(all)
<1>1. IsFiniteSet(all)
  BY FS_Interval
<1>2. IsWellFoundedOn(R, SUBSET all)
  BY <1>1, FS_StrictSubsetOrderingWellFounded, FS_FiniteSubsetsOfFinite
<1>3. initial \subseteq SUBSET all /\ initial # {}
  <2>1. ASSUME NEW n \in bad
        PROVE  1 .. n \in SUBSET all
    <3>1. n \in Nat /\ n <= k
      OBVIOUS
    <3> QED
      BY <3>1
  <2>2. initial # {}
    OBVIOUS
  <2> QED
    BY <2>1, <2>2
<1>4. PICK s \in initial : \A t \in initial : ~ (<<t, s>> \in R)
  <2> HIDE DEF all, initial, R
  <2> QED
    BY <1>2, <1>3, WFMin
<1>5. PICK n \in bad : s = 1 .. n
  OBVIOUS
<1>6. ASSUME NEW m \in bad, ~ (n <= m)
      PROVE  FALSE
  <2>1. 1 .. m \in initial /\ 1 .. m \subseteq 1 .. n /\ n \in 1 .. n /\ n \notin 1 .. m
    BY <1>6
  <2>2. <<1 .. m, s>> \in R
    BY <1>3, <1>5, <2>1 DEF StrictSubsetOrdering
  <2> QED
    BY <1>4, <2>1, <2>2
<1> QED
  BY <1>6

\* What the sum over s is, given those over smaller sets.
SumOver(h, s) == IF s = {} THEN 0 ELSE counter[CHOOSE t \in s : TRUE] + h[s \ {CHOOSE t \in s : TRUE}]

LEMMA TotalIs ==
    ASSUME NEW tags
    PROVE  F!Total(tags) = (CHOOSE h : h = [s \in SUBSET tags |-> SumOver(h, s)])[tags]
BY DEF F!Total, F!MapThenSumSet, F!MapThenFoldSet, SumOver

\* Sums of what the tunnels have carried: the recursion they are defined by has a
\* solution, because the accounts are finitely many.
LEMMA SumsExist ==
    ASSUME NEW tags, IsFiniteSet(tags), \A t \in tags : counter[t] \in Nat
    PROVE  \E h : h = [s \in SUBSET tags |-> SumOver(h, s)]
<1> DEFINE k == Cardinality(tags)
           Sums(h, n) == \A s \in SUBSET tags : Cardinality(s) <= n => h[s] = SumOver(h, s)
           bad == {n \in 0 .. k : ~ \E h \in [SUBSET tags -> Nat] : Sums(h, n)}
<1>1. k \in Nat /\ \A s \in SUBSET tags : IsFiniteSet(s) /\ Cardinality(s) \in 0 .. k
  BY FS_CardinalityType, FS_Subset
<1>2. \A s \in SUBSET tags : s # {} =>
          LET r == s \ {CHOOSE t \in s : TRUE}
          IN /\ (CHOOSE t \in s : TRUE) \in tags /\ r \in SUBSET tags
             /\ Cardinality(r) = Cardinality(s) - 1
  BY <1>1, FS_RemoveElement
<1>3. \A s \in SUBSET tags : Cardinality(s) <= 0 => s = {}
  BY <1>1, FS_EmptySet
<1>4. ASSUME NEW h \in [SUBSET tags -> Nat], NEW s \in SUBSET tags
      PROVE  SumOver(h, s) \in Nat
  BY <1>2 DEF SumOver
<1>5. bad = {}
  <2> SUFFICES ASSUME bad # {}
               PROVE  FALSE
    OBVIOUS
  <2>1. bad \in SUBSET (0 .. k)
    OBVIOUS
  <2>2. PICK n \in bad : \A m \in bad : n <= m
    <3> HIDE DEF bad, k
    <3> QED
      BY <1>1, <2>1, LeastOne
  <2>3. n \in 0 .. k /\ ~ \E h \in [SUBSET tags -> Nat] : Sums(h, n)
    OBVIOUS
  <2>4. CASE n = 0
    <3> DEFINE h == [s \in SUBSET tags |-> 0]
    <3>1. h \in [SUBSET tags -> Nat] /\ Sums(h, 0)
      BY <1>3 DEF SumOver
    <3> HIDE DEF Sums, h
    <3> QED
      BY <2>3, <2>4, <3>1
  <2>5. CASE n # 0
    <3>1. n - 1 \in 0 .. k /\ n - 1 \notin bad
      <4> HIDE DEF bad, k
      <4> QED
        BY <1>1, <2>2, <2>3, <2>5
    <3>2. PICK g \in [SUBSET tags -> Nat] : Sums(g, n - 1)
      BY <3>1
    <3> DEFINE h == [s \in SUBSET tags |-> IF Cardinality(s) = n THEN SumOver(g, s) ELSE g[s]]
    <3>3. h \in [SUBSET tags -> Nat]
      BY <1>4
    <3>4. ASSUME NEW s \in SUBSET tags, Cardinality(s) <= n
          PROVE  h[s] = SumOver(h, s)
      <4>1. h[s] = SumOver(g, s)
        <5>1. CASE Cardinality(s) = n
          BY <5>1
        <5>2. CASE Cardinality(s) # n
          <6>1. Cardinality(s) <= n - 1
            BY <1>1, <2>3, <3>4, <5>2
          <6> QED
            BY <3>2, <5>2, <6>1
        <5> QED
          BY <5>1, <5>2
      <4>2. SumOver(h, s) = SumOver(g, s)
        <5>1. CASE s = {}
          BY <5>1 DEF SumOver
        <5>2. CASE s # {}
          <6> DEFINE r == s \ {CHOOSE t \in s : TRUE}
          <6>1. r \in SUBSET tags /\ Cardinality(r) = Cardinality(s) - 1
            BY <1>2, <5>2
          <6>2. Cardinality(r) # n
            BY <1>1, <2>3, <3>4, <6>1
          <6>3. h[r] = g[r]
            BY <6>1, <6>2
          <6> QED
            BY <5>2, <6>3 DEF SumOver
        <5> QED
          BY <5>1, <5>2
      <4> QED
        BY <4>1, <4>2
    <3>5. Sums(h, n)
      BY <3>4
    <3> HIDE DEF Sums, h
    <3> QED
      BY <2>3, <3>3, <3>5
  <2> QED
    BY <2>4, <2>5
<1>6. PICK h \in [SUBSET tags -> Nat] : Sums(h, k)
  BY <1>1, <1>5
<1>7. \A s \in SUBSET tags : h[s] = SumOver(h, s)
  BY <1>1, <1>6
<1>8. h = [s \in SUBSET tags |-> SumOver(h, s)]
  BY <1>6, <1>7
<1> QED
  BY <1>8

LEMMA TotalType ==
    ASSUME NEW tags, IsFiniteSet(tags), \A t \in tags : counter[t] \in Nat
    PROVE  F!Total(tags) \in Nat
<1> DEFINE h == CHOOSE h : h = [s \in SUBSET tags |-> SumOver(h, s)]
           bad == {n \in 0 .. Cardinality(tags) : \E s \in SUBSET tags : Cardinality(s) = n /\ h[s] \notin Nat}
<1>1. h = [s \in SUBSET tags |-> SumOver(h, s)]
  BY SumsExist
<1> HIDE DEF h
<1>2. \A s \in SUBSET tags : IsFiniteSet(s) /\ Cardinality(s) \in 0 .. Cardinality(tags)
  BY FS_CardinalityType, FS_Subset
<1>3. Cardinality(tags) \in Nat
  BY FS_CardinalityType
<1>4. bad = {}
  <2> SUFFICES ASSUME bad # {}
               PROVE  FALSE
    OBVIOUS
  <2>1. bad \in SUBSET (0 .. Cardinality(tags))
    OBVIOUS
  <2>2. PICK n \in bad : \A m \in bad : n <= m
    <3> HIDE DEF bad
    <3> QED
      BY <1>3, <2>1, LeastOne
  <2>3. PICK s \in SUBSET tags : Cardinality(s) = n /\ h[s] \notin Nat
    OBVIOUS
  <2>4. h[s] = SumOver(h, s)
    BY <1>1
  <2>5. s # {}
    BY <2>3, <2>4 DEF SumOver
  <2> DEFINE x == CHOOSE t \in s : TRUE
             r == s \ {x}
  <2>6. x \in s /\ r \in SUBSET tags /\ Cardinality(r) = n - 1
    BY <1>2, <2>3, <2>5, FS_RemoveElement
  <2>7. n - 1 \notin bad /\ n - 1 \in 0 .. Cardinality(tags)
    <3>1. n \in Nat /\ Cardinality(r) \in 0 .. Cardinality(tags)
      BY <1>2, <2>1, <2>6
    <3> HIDE DEF bad, r
    <3> QED
      BY <2>2, <2>6, <3>1
  <2>8. h[r] \in Nat
    BY <2>6, <2>7
  <2>9. h[s] = counter[x] + h[r]
    BY <2>4, <2>5 DEF SumOver
  <2> QED
    BY <2>3, <2>6, <2>8, <2>9
  
<1>5. h[tags] \in Nat
  BY <1>2, <1>4
<1> QED
  BY <1>5, TotalIs DEF h

\* What the tables and the loop hold of the addresses: an address was credited
\* with its last growth at least.
PoolTypes ==
    /\ pool \in [IP -> [total : Nat, current : Nat]]
    /\ lastIP \in [IP -> Nat \cup {F!None}]
    /\ \A i \in IP : pool[i].total >= pool[i].current

LEMMA IPRowType ==
    ASSUME TrafficInv, PoolTypes, NEW i \in IP
    PROVE  /\ F!IPRow(i) \in [total : Nat, current : Nat]
           /\ F!IPRow(i).total >= F!IPRow(i).current
           /\ F!Tags(i) # {} => F!Total(F!Tags(i)) \in Nat
<1>1. F!Total(F!Tags(i)) \in Nat
  <2>1. IsFiniteSet(F!Tags(i))
    BY TrafficAssumption, FS_Subset DEF F!Tags, F!Snapshot
  <2>2. \A t \in F!Tags(i) : counter[t] \in Nat
    BY DEF TrafficInv, F!Tags, F!Snapshot
  <2> QED
    BY <2>1, <2>2, TotalType
<1> DEFINE grown == IF F!Tags(i) = {} \/ lastIP[i] = F!None THEN 0
                    ELSE F!deltaBytes(F!Total(F!Tags(i)), lastIP[i])
<1>2. grown \in Nat
  BY <1>1 DEF PoolTypes, F!deltaBytes, F!None
<1>3. F!IPRow(i) = [total |-> pool[i].total + grown,
                    current |-> IF F!Tags(i) # {} \/ lastIP[i] # F!None THEN grown ELSE pool[i].current]
  BY DEF F!IPRow
<1>4. F!Tags(i) = {} /\ lastIP[i] = F!None => grown = 0
  OBVIOUS
<1> HIDE DEF grown
<1>5. pool[i].total \in Nat /\ pool[i].current \in Nat /\ pool[i].total >= pool[i].current
  BY DEF PoolTypes
<1> QED
  BY <1>1, <1>2, <1>3, <1>4, <1>5

LEMMA PoolStep == TrafficInv /\ PoolTypes /\ [F!Next]_(F!vars) => PoolTypes'
<1> SUFFICES ASSUME TrafficInv, PoolTypes, [F!Next]_(F!vars)
             PROVE  PoolTypes'
  OBVIOUS
<1>1. CASE UNCHANGED <<pool, lastIP>>
  BY <1>1 DEF PoolTypes
<1>2. CASE F!PanelRestarts
  BY <1>2 DEF F!PanelRestarts, F!Forgotten, F!tables, PoolTypes
<1>3. CASE F!Round
  <2>1. PICK rows \in {{}, IP} : pool' = [i \in IP |-> IF i \in rows THEN F!IPRow(i) ELSE pool[i]]
    BY <1>3 DEF F!Round
  <2>2. lastIP' = [i \in IP |-> IF F!Tags(i) = {} THEN F!None ELSE F!Total(F!Tags(i))]
    BY <1>3 DEF F!Round
  <2>3. lastIP' \in [IP -> Nat \cup {F!None}]
    BY <2>2, IPRowType
  <2>4. ASSUME NEW i \in IP
        PROVE  pool'[i] \in [total : Nat, current : Nat] /\ pool'[i].total >= pool'[i].current
    <3>1. CASE i \in rows
      BY <2>1, <3>1, IPRowType
    <3>2. CASE i \notin rows
      BY <2>1, <3>2 DEF PoolTypes
    <3> QED
      BY <3>1, <3>2
  <2> QED
    BY <2>1, <2>3, <2>4 DEF PoolTypes
<1>4. UNCHANGED <<pool, lastIP>> \/ F!PanelRestarts \/ F!Round
  BY DEF F!Next, F!Carry, F!Stop, F!Restart, F!Moves, F!tables, F!loop, F!vars
<1> QED
  BY <1>1, <1>2, <1>3, <1>4

\* No counter and no row falls below nothing, a tunnel that ran all the time is
\* running, and the speed of an address is part of its total (trafficLoop).
THEOREM TrafficTypeCorrect == F!Spec => []F!TypeOK
<1>1. F!Init => PoolTypes
  BY DEF F!Init, PoolTypes, F!None
<1>2. TrafficInv /\ PoolTypes => F!TypeOK
  BY DEF TrafficInv, PoolTypes, F!TypeOK, F!Snapshot, F!None
<1> QED
  BY <1>1, <1>2, TrafficInit, TrafficStepInv, PoolStep, PTL DEF F!Spec

LEMMA MCTraffic == MCSpec => F!Spec
<1>1. MCInit => F!Init
  BY DEF MCInit
<1>2. [MCNext]_allVars => [F!Next]_(F!vars)
  BY DEF MCNext, BatchStep, UsageStep, UdpStep, SelectionStep, TrafficStep, LogStep, FrameStep,
         allVars, trafficVars, F!vars, F!tables, F!loop, F!history
<1> QED
  BY <1>1, <1>2, PTL DEF MCSpec, F!Spec

-----------------------------------------------------------------------------
(* TrojanUdp.                                                               *)

Sessions ==
    [at : {"reading", "finding", "dialling", "found", "sending", "counting", "dropping",
           "ending", "closing", "waiting", "returned"},
     target : Target, assoc : 0 .. MaxDialled, attempt : {0, 1}]

Counters == [T!Association -> Nat]

UdpTypes ==
    /\ udpSession \in Sessions
    /\ active \in [Target -> 0 .. MaxDialled]
    /\ udpOpen \in SUBSET T!Association
    /\ reader \in [T!Association -> {"none", "arming", "reading", "answered", "answering",
                                     "counting", "ending", "done"}]
    /\ up \in Counters /\ down \in Counters /\ carried \in Counters /\ reported \in Counters

\* Whoever has a datagram of an association half accounted for keeps it open; an
\* association that is not dialled yet, or whose reader is done, is not open.
Places ==
    /\ \A a \in T!Association :
          /\ reader[a] \in {"none", "done"} => a \notin udpOpen
          /\ reader[a] \in {"answering", "counting"} => a \in udpOpen
    /\ udpSession.at \in {"found", "sending", "counting", "dropping"} =>
          /\ udpSession.assoc \in T!Dialled
          /\ active[udpSession.target] = udpSession.assoc
    /\ udpSession.at = "counting" => udpSession.assoc \in udpOpen
    /\ udpSession.at = "dialling" => active[udpSession.target] \notin udpOpen
    /\ udpSession.at = "returned" => \A a \in T!Dialled : reader[a] = "done"

\* What an association has carried is counted, but for what the session and the
\* reader are about to count; a closed one has reported what is counted.
InSession(a) == IF udpSession.at = "counting" /\ udpSession.assoc = a THEN 1 ELSE 0
InReader(a)  == IF reader[a] = "counting" THEN 1 ELSE 0
BookOf(a) ==
    /\ carried[a] = up[a] + down[a] + InSession(a) + InReader(a)
    /\ a \in T!Dialled \ udpOpen => reported[a] = up[a] + down[a]
Books == \A a \in T!Association : BookOf(a)

\* The map names every open association under one target.
Mapped ==
    /\ \A a \in udpOpen : \E t \in Target : active[t] = a
    /\ \A t \in Target : active[t] # 0 => active[t] \in T!Dialled
    /\ \A t, u \in Target : active[t] # 0 /\ active[t] = active[u] => t = u

UdpInv == UdpTypes /\ Places /\ Books /\ Mapped

LEMMA IdleIsSession == T!Idle \in Sessions
BY PartsAssumption DEF T!Idle, Sessions

LEMMA DialIsNotIdle == T!Idle.at = "reading"
BY DEF T!Idle

LEMMA OneMore ==
    ASSUME NEW f \in Counters, NEW a \in T!Association
    PROVE  LET g == [f EXCEPT ![a] = @ + 1]
           IN g \in Counters /\ g[a] = f[a] + 1 /\ \A b \in T!Association \ {a} : g[b] = f[b]
BY DEF Counters

\* close reports what is counted, once.
LEMMA ClosedBooks ==
    ASSUME UdpTypes, NEW a \in T!Association, T!Closed(a)
    PROVE  /\ reported' \in Counters /\ udpOpen' = udpOpen \ {a}
           /\ a \in udpOpen => ~ T!Using(a) /\ reported'[a] = up[a] + down[a]
           /\ \A b \in T!Association : b # a \/ b \notin udpOpen => reported'[b] = reported[b]
           /\ UNCHANGED <<recent, up, down, carried>>
<1>1. up[a] + down[a] \in Nat
  BY DEF UdpTypes, Counters
<1> QED
  BY <1>1 DEF T!Closed, UdpTypes, Counters

LEMMA BookTypes ==
    ASSUME UdpTypes, Books, NEW a \in T!Association
    PROVE  /\ up[a] \in Nat /\ down[a] \in Nat /\ carried[a] \in Nat
           /\ InSession(a) \in {0, 1} /\ InReader(a) \in {0, 1}
           /\ carried[a] = up[a] + down[a] + InSession(a) + InReader(a)
           /\ a \in T!Dialled \ udpOpen => reported[a] = up[a] + down[a]
BY DEF UdpTypes, Counters, InSession, InReader, Books, BookOf

LEMMA UdpInitInv == T!Init => UdpInv
<1> SUFFICES ASSUME T!Init
             PROVE  UdpInv
  OBVIOUS
<1>1. udpSession = T!Idle /\ T!Idle.target \in Target
  BY IdleIsSession DEF T!Init, Sessions
<1> QED
  BY <1>1, PartsAssumption
     DEF T!Init, T!Idle, T!Association, T!Dialled, UdpInv, UdpTypes, Sessions, Counters, Places, Books,
         BookOf, Mapped, InSession, InReader

LEMMA UdpStepInv == UdpInv /\ [T!Next]_(T!vars) => UdpInv'
<1> SUFFICES ASSUME UdpInv, [T!Next]_(T!vars)
             PROVE  UdpInv'
  OBVIOUS
<1> USE PartsAssumption, IdleIsSession DEF UdpInv, UdpTypes, T!association, T!At, T!Association, T!Dialled
<1>1. ASSUME NEW t \in Target, T!ReadPacket(t)
      PROVE  UdpInv'
  <2>1. UdpTypes'
    <3>1. udpSession' \in Sessions
      BY <1>1 DEF T!ReadPacket, T!Idle, Sessions
    <3>2. up' \in Counters /\ down' \in Counters /\ carried' \in Counters /\ reported' \in Counters
      BY <1>1 DEF T!ReadPacket, T!Idle, Counters
    <3>3. udpOpen' \in SUBSET T!Association /\ active' \in [Target -> 0 .. MaxDialled]
      BY <1>1 DEF T!ReadPacket, T!Idle, Sessions
    <3> QED
      BY <1>1, <3>1, <3>2, <3>3 DEF T!ReadPacket, T!Idle
  <2>2. Places'
    BY <1>1 DEF T!ReadPacket, T!Idle, Places, Sessions, Counters
  <2>3. Books'
    BY <1>1 DEF T!ReadPacket, T!Idle, Places, Books, BookOf, InSession, InReader, Sessions, Counters
  <2>4. Mapped'
    BY <1>1 DEF T!ReadPacket, T!Idle, Places, Mapped, Sessions, Counters
  <2> QED
    BY <2>1, <2>2, <2>3, <2>4
<1>2. CASE T!ReadFails
  <2>1. UdpTypes'
    BY <1>2 DEF T!ReadFails, Sessions
  <2>2. Places'
    BY <1>2 DEF T!ReadFails, Places, Sessions, Counters
  <2>3. Books'
    BY <1>2 DEF T!ReadFails, Places, Books, BookOf, InSession, InReader, Sessions, Counters
  <2>4. Mapped'
    BY <1>2 DEF T!ReadFails, Places, Mapped, Sessions, Counters
  <2> QED
    BY <2>1, <2>2, <2>3, <2>4
<1>3. CASE T!Reuse
  <2>1. UdpTypes'
    BY <1>3 DEF T!Reuse, Sessions
  <2>2. Places'
    BY <1>3 DEF T!Reuse, Places, Sessions, Counters
  <2>3. Books'
    BY <1>3 DEF T!Reuse, Places, Books, BookOf, InSession, InReader, Sessions, Counters
  <2>4. Mapped'
    BY <1>3 DEF T!Reuse, Places, Mapped, Sessions, Counters
  <2> QED
    BY <2>1, <2>2, <2>3, <2>4
<1>4. CASE T!Sweep
  <2>1. UdpTypes'
    <3>1. udpSession' \in Sessions
      BY <1>4 DEF T!Sweep, T!Idle, T!Swept, Sessions
    <3>2. up' \in Counters /\ down' \in Counters /\ carried' \in Counters /\ reported' \in Counters
      BY <1>4 DEF T!Sweep, T!Idle, T!Swept, Counters
    <3>3. udpOpen' \in SUBSET T!Association /\ active' \in [Target -> 0 .. MaxDialled]
      BY <1>4 DEF T!Sweep, T!Idle, T!Swept, Sessions
    <3> QED
      BY <1>4, <3>1, <3>2, <3>3 DEF T!Sweep, T!Idle, T!Swept
  <2>2. Places'
    BY <1>4 DEF T!Sweep, T!Idle, T!Swept, Places, Sessions, Counters
  <2>3. Books'
    BY <1>4 DEF T!Sweep, T!Idle, T!Swept, Places, Books, BookOf, InSession, InReader, Sessions, Counters
  <2>4. Mapped'
    BY <1>4 DEF T!Sweep, T!Idle, T!Swept, Places, Mapped, Sessions, Counters
  <2> QED
    BY <2>1, <2>2, <2>3, <2>4
<1>5. ASSUME NEW a \in T!Association, T!Dial(a)
      PROVE  UdpInv'
  <2>1. UdpTypes'
    <3>1. udpSession' \in Sessions
      <4>1. udpSession' = [udpSession EXCEPT !.at = "found", !.assoc = a] /\ a \in 0 .. MaxDialled
        BY <1>5 DEF T!Dial
      <4> QED
        BY <4>1 DEF Sessions
    <3>2. up' \in Counters /\ down' \in Counters /\ carried' \in Counters /\ reported' \in Counters
      BY <1>5 DEF T!Dial, Counters
    <3>3. udpOpen' \in SUBSET T!Association /\ active' \in [Target -> 0 .. MaxDialled]
      BY <1>5 DEF T!Dial, Sessions
    <3> QED
      BY <1>5, <3>1, <3>2, <3>3 DEF T!Dial
  <2>2. Places'
    BY <1>5 DEF T!Dial, Places, Sessions, Counters
  <2>3. Books'
    BY <1>5 DEF T!Dial, Places, Books, BookOf, InSession, InReader, Sessions, Counters
  <2>4. Mapped'
    BY <1>5, SMTT(30) DEF T!Dial, Places, Mapped, Sessions, Counters
  <2> QED
    BY <2>1, <2>2, <2>3, <2>4
<1>6. CASE T!DialFails
  <2>1. UdpTypes'
    <3>1. udpSession' \in Sessions
      BY <1>6 DEF T!DialFails, T!Idle, Sessions
    <3>2. up' \in Counters /\ down' \in Counters /\ carried' \in Counters /\ reported' \in Counters
      BY <1>6 DEF T!DialFails, T!Idle, Counters
    <3>3. udpOpen' \in SUBSET T!Association /\ active' \in [Target -> 0 .. MaxDialled]
      BY <1>6 DEF T!DialFails, T!Idle, Sessions
    <3> QED
      BY <1>6, <3>1, <3>2, <3>3 DEF T!DialFails, T!Idle
  <2>2. Places'
    BY <1>6 DEF T!DialFails, T!Idle, Places, Sessions, Counters
  <2>3. Books'
    BY <1>6 DEF T!DialFails, T!Idle, Places, Books, BookOf, InSession, InReader, Sessions, Counters
  <2>4. Mapped'
    BY <1>6 DEF T!DialFails, T!Idle, Places, Mapped, Sessions, Counters
  <2> QED
    BY <2>1, <2>2, <2>3, <2>4
<1>7. CASE T!Use
  <2>1. UdpTypes'
    BY <1>7 DEF T!Use, Sessions
  <2>2. Places'
    BY <1>7 DEF T!Use, Places, Sessions, Counters
  <2>3. Books'
    BY <1>7 DEF T!Use, Places, Books, BookOf, InSession, InReader, Sessions, Counters
  <2>4. Mapped'
    BY <1>7 DEF T!Use, Places, Mapped, Sessions, Counters
  <2> QED
    BY <2>1, <2>2, <2>3, <2>4
<1>8. CASE T!Write
  <2>1. UdpTypes'
    <3>1. udpSession' \in Sessions
      BY <1>8 DEF T!Write, Sessions
    <3>2. up' \in Counters /\ down' \in Counters /\ carried' \in Counters /\ reported' \in Counters
      BY <1>8, OneMore DEF T!Write
    <3>3. udpOpen' \in SUBSET T!Association /\ active' \in [Target -> 0 .. MaxDialled]
      BY <1>8 DEF T!Write, Sessions
    <3> QED
      BY <1>8, <3>1, <3>2, <3>3 DEF T!Write
  <2>2. Places'
    BY <1>8 DEF T!Write, Places, Sessions, Counters
  <2>3. Books'
    <3> DEFINE c == udpSession.assoc
    <3>1. c \in T!Association /\ udpSession.at = "sending" /\ udpSession'.at = "counting"
          /\ udpSession'.assoc = c /\ UNCHANGED <<udpOpen, reader, up, down, reported>>
      BY <1>8 DEF T!Write, Sessions
    <3>2. carried'[c] = carried[c] + 1 /\ \A b \in T!Association \ {c} : carried'[b] = carried[b]
      BY <1>8, <3>1 DEF T!Write, Counters
    <3>3. ASSUME NEW b \in T!Association
          PROVE  InSession(b)' = InSession(b) + (IF b = c THEN 1 ELSE 0) /\ InReader(b)' = InReader(b)
      BY <3>1 DEF InSession, InReader
    <3>4. ASSUME NEW b \in T!Association
          PROVE  BookOf(b)'
      <4>1. carried'[b] = carried[b] + (IF b = c THEN 1 ELSE 0)
        BY <3>2, BookTypes
      <4>2. carried'[b] = up'[b] + down'[b] + InSession(b)' + InReader(b)'
        <5>1. /\ up[b] \in Nat /\ down[b] \in Nat
              /\ InSession(b) \in {0, 1} /\ InReader(b) \in {0, 1}
              /\ carried[b] = up[b] + down[b] + InSession(b) + InReader(b)
          BY BookTypes
        <5> QED
          BY <3>1, <3>3, <4>1, <5>1
      <4>3. b \in (T!Dialled \ udpOpen)' => reported'[b] = up'[b] + down'[b]
        BY <3>1, BookTypes
      <4> QED
        BY <4>2, <4>3 DEF BookOf
    <3> QED
      BY <3>4 DEF Books
  <2>4. Mapped'
    BY <1>8 DEF T!Write, Places, Mapped, Sessions, Counters
  <2> QED
    BY <2>1, <2>2, <2>3, <2>4
<1>9. CASE T!Count
  <2>1. UdpTypes'
    <3>1. udpSession' \in Sessions
      BY <1>9 DEF T!Count, T!Idle, Sessions
    <3>2. up' \in Counters /\ down' \in Counters /\ carried' \in Counters /\ reported' \in Counters
      BY <1>9, OneMore DEF T!Count, Places
    <3>3. udpOpen' \in SUBSET T!Association /\ active' \in [Target -> 0 .. MaxDialled]
      BY <1>9 DEF T!Count, T!Idle, Sessions
    <3> QED
      BY <1>9, <3>1, <3>2, <3>3 DEF T!Count, T!Idle
  <2>2. Places'
    BY <1>9 DEF T!Count, T!Idle, Places, Sessions, Counters
  <2>3. Books'
    BY <1>9, SMTT(30) DEF T!Count, T!Idle, Places, Books, BookOf, InSession, InReader, Sessions, Counters
  <2>4. Mapped'
    BY <1>9 DEF T!Count, T!Idle, Places, Mapped, Sessions, Counters
  <2> QED
    BY <2>1, <2>2, <2>3, <2>4
<1>10. CASE T!WriteFails
  <2>1. UdpTypes'
    BY <1>10 DEF T!WriteFails, Sessions
  <2>2. Places'
    BY <1>10 DEF T!WriteFails, Places, Sessions, Counters
  <2>3. Books'
    BY <1>10 DEF T!WriteFails, Places, Books, BookOf, InSession, InReader, Sessions, Counters
  <2>4. Mapped'
    BY <1>10 DEF T!WriteFails, Places, Mapped, Sessions, Counters
  <2> QED
    BY <2>1, <2>2, <2>3, <2>4
<1>11. CASE T!Drop
  <2>1. UdpTypes'
    <3>1. udpSession' \in Sessions
      BY <1>11 DEF T!Drop, T!Idle, T!Closed, T!Using, Sessions
    <3>2. up' \in Counters /\ down' \in Counters /\ carried' \in Counters /\ reported' \in Counters
      BY <1>11, ClosedBooks DEF T!Drop, Places
    <3>3. udpOpen' \in SUBSET T!Association /\ active' \in [Target -> 0 .. MaxDialled]
      BY <1>11 DEF T!Drop, T!Idle, T!Closed, T!Using, Sessions
    <3> QED
      BY <1>11, <3>1, <3>2, <3>3 DEF T!Drop, T!Idle, T!Closed, T!Using
  <2>2. Places'
    BY <1>11 DEF T!Drop, T!Idle, T!Closed, T!Using, Places, Sessions, Counters
  <2>3. Books'
    BY <1>11 DEF T!Drop, T!Idle, T!Closed, T!Using, Places, Books, BookOf, InSession, InReader, Sessions, Counters
  <2>4. Mapped'
    BY <1>11 DEF T!Drop, T!Idle, T!Closed, T!Using, Places, Mapped, Sessions, Counters
  <2> QED
    BY <2>1, <2>2, <2>3, <2>4
<1>12. CASE T!EndRelay
  <2>1. UdpTypes'
    BY <1>12 DEF T!EndRelay, Sessions
  <2>2. Places'
    BY <1>12 DEF T!EndRelay, Places, Sessions, Counters
  <2>3. Books'
    BY <1>12 DEF T!EndRelay, Places, Books, BookOf, InSession, InReader, Sessions, Counters
  <2>4. Mapped'
    BY <1>12 DEF T!EndRelay, Places, Mapped, Sessions, Counters
  <2> QED
    BY <2>1, <2>2, <2>3, <2>4
<1>13. ASSUME NEW t \in Target, T!CloseActive(t)
      PROVE  UdpInv'
  <2>1. UdpTypes'
    <3>1. udpSession' \in Sessions
      BY <1>13 DEF T!CloseActive, T!Closed, T!Using, Sessions
    <3>2. up' \in Counters /\ down' \in Counters /\ carried' \in Counters /\ reported' \in Counters
      BY <1>13, ClosedBooks DEF T!CloseActive
    <3>3. udpOpen' \in SUBSET T!Association /\ active' \in [Target -> 0 .. MaxDialled]
      BY <1>13 DEF T!CloseActive, T!Closed, T!Using, Sessions
    <3> QED
      BY <1>13, <3>1, <3>2, <3>3 DEF T!CloseActive, T!Closed, T!Using
  <2>2. Places'
    BY <1>13 DEF T!CloseActive, T!Closed, T!Using, Places, Sessions, Counters
  <2>3. Books'
    BY <1>13 DEF T!CloseActive, T!Closed, T!Using, Places, Books, BookOf, InSession, InReader, Sessions, Counters
  <2>4. Mapped'
    BY <1>13 DEF T!CloseActive, T!Closed, T!Using, Places, Mapped, Sessions, Counters
  <2> QED
    BY <2>1, <2>2, <2>3, <2>4
<1>14. CASE T!AllClosed
  <2>1. UdpTypes'
    BY <1>14 DEF T!AllClosed, Sessions
  <2>2. Places'
    BY <1>14 DEF T!AllClosed, Places, Sessions, Counters
  <2>3. Books'
    BY <1>14 DEF T!AllClosed, Places, Books, BookOf, InSession, InReader, Sessions, Counters
  <2>4. Mapped'
    BY <1>14 DEF T!AllClosed, Places, Mapped, Sessions, Counters
  <2> QED
    BY <2>1, <2>2, <2>3, <2>4
<1>15. CASE T!Returns
  <2>1. UdpTypes'
    BY <1>15 DEF T!Returns, Sessions
  <2>2. Places'
    BY <1>15 DEF T!Returns, Places, Sessions, Counters
  <2>3. Books'
    BY <1>15 DEF T!Returns, Places, Books, BookOf, InSession, InReader, Sessions, Counters
  <2>4. Mapped'
    BY <1>15 DEF T!Returns, Places, Mapped, Sessions, Counters
  <2> QED
    BY <2>1, <2>2, <2>3, <2>4
<1>16. ASSUME NEW a \in T!Association, T!Arm(a)
      PROVE  UdpInv'
  <2>1. UdpTypes'
    BY <1>16 DEF T!Arm, T!Go
  <2>2. Places'
    BY <1>16 DEF T!Arm, T!Go, Places, Sessions, Counters
  <2>3. Books'
    BY <1>16 DEF T!Arm, T!Go, Places, Books, BookOf, InSession, InReader,
                   Sessions, Counters
  <2>4. Mapped'
    BY <1>16 DEF T!Arm, T!Go, Places, Mapped, Sessions, Counters
  <2> QED
    BY <2>1, <2>2, <2>3, <2>4
<1>17. ASSUME NEW a \in T!Association, T!Answer(a)
      PROVE  UdpInv'
  <2>1. UdpTypes'
    BY <1>17 DEF T!Answer, T!Go
  <2>2. Places'
    BY <1>17 DEF T!Answer, T!Go, Places, Sessions, Counters
  <2>3. Books'
    BY <1>17 DEF T!Answer, T!Go, Places, Books, BookOf, InSession, InReader,
                   Sessions, Counters
  <2>4. Mapped'
    BY <1>17 DEF T!Answer, T!Go, Places, Mapped, Sessions, Counters
  <2> QED
    BY <2>1, <2>2, <2>3, <2>4
<1>18. ASSUME NEW a \in T!Association, T!Admit(a)
      PROVE  UdpInv'
  <2>1. UdpTypes'
    BY <1>18 DEF T!Admit
  <2>2. Places'
    BY <1>18 DEF T!Admit, Places, Sessions, Counters
  <2>3. Books'
    BY <1>18 DEF T!Admit, Places, Books, BookOf, InSession, InReader, Sessions, Counters
  <2>4. Mapped'
    BY <1>18 DEF T!Admit, Places, Mapped, Sessions, Counters
  <2> QED
    BY <2>1, <2>2, <2>3, <2>4
<1>19. ASSUME NEW a \in T!Association, T!WriteFrame(a)
      PROVE  UdpInv'
  <2>1. UdpTypes'
    <3>1. udpSession' \in Sessions
      BY <1>19 DEF T!WriteFrame, Sessions
    <3>2. up' \in Counters /\ down' \in Counters /\ carried' \in Counters /\ reported' \in Counters
      <4>1. pieces[a] = 1 => carried' = [carried EXCEPT ![a] = @ + 1]
        BY <1>19 DEF T!WriteFrame
      <4>2. pieces[a] # 1 => carried' = carried
        BY <1>19 DEF T!WriteFrame, Counters
      <4> QED
        BY <1>19, <4>1, <4>2, OneMore DEF T!WriteFrame
    <3>3. udpOpen' \in SUBSET T!Association /\ active' \in [Target -> 0 .. MaxDialled]
      BY <1>19 DEF T!WriteFrame, Sessions
    <3> QED
      BY <1>19, <3>1, <3>2, <3>3 DEF T!WriteFrame
  <2>2. Places'
    BY <1>19 DEF T!WriteFrame, Places, Sessions, Counters
  <2>3. Books'
    <3>1. reader[a] = "answering" /\ UNCHANGED <<udpSession, udpOpen, up, down, reported>>
      BY <1>19 DEF T!WriteFrame
    <3>2. CASE pieces[a] = 1
      <4>1. /\ carried'[a] = carried[a] + 1
            /\ \A b \in T!Association \ {a} : carried'[b] = carried[b]
        BY <1>19, <3>2 DEF T!WriteFrame, Counters
      <4>2. reader' = [reader EXCEPT ![a] = "counting"]
        BY <1>19, <3>2 DEF T!WriteFrame
      <4>3. ASSUME NEW b \in T!Association
            PROVE  InReader(b)' = InReader(b) + (IF b = a THEN 1 ELSE 0) /\ InSession(b)' = InSession(b)
        BY <3>1, <4>2 DEF InSession, InReader
      <4>4. ASSUME NEW b \in T!Association
            PROVE  BookOf(b)'
        <5>1. carried'[b] = carried[b] + (IF b = a THEN 1 ELSE 0)
          BY <4>1, BookTypes
        <5>2. carried'[b] = up'[b] + down'[b] + InSession(b)' + InReader(b)'
          <6>1. /\ up[b] \in Nat /\ down[b] \in Nat
                /\ InSession(b) \in {0, 1} /\ InReader(b) \in {0, 1}
                /\ carried[b] = up[b] + down[b] + InSession(b) + InReader(b)
            BY BookTypes
          <6> QED
            BY <3>1, <4>3, <5>1, <6>1
        <5>3. b \in (T!Dialled \ udpOpen)' => reported'[b] = up'[b] + down'[b]
          BY <3>1, <4>2, BookTypes
        <5> QED
          BY <5>2, <5>3 DEF BookOf
      <4> QED
        BY <4>4 DEF Books
    <3>3. CASE pieces[a] # 1
      <4>1. carried' = carried /\ reader' = reader
        BY <1>19, <3>3 DEF T!WriteFrame, Counters
      <4> QED
        BY <3>1, <4>1 DEF Books, BookOf, InSession, InReader
    <3> QED
      BY <3>2, <3>3
  <2>4. Mapped'
    BY <1>19 DEF T!WriteFrame, Places, Mapped, Sessions, Counters
  <2> QED
    BY <2>1, <2>2, <2>3, <2>4
<1>20. ASSUME NEW a \in T!Association, T!CountAnswer(a)
      PROVE  UdpInv'
  <2>1. UdpTypes'
    <3>1. udpSession' \in Sessions
      BY <1>20 DEF T!CountAnswer, T!Go, Sessions
    <3>2. up' \in Counters /\ down' \in Counters /\ carried' \in Counters /\ reported' \in Counters
      BY <1>20, OneMore DEF T!CountAnswer
    <3>3. udpOpen' \in SUBSET T!Association /\ active' \in [Target -> 0 .. MaxDialled]
      BY <1>20 DEF T!CountAnswer, T!Go, Sessions
    <3> QED
      BY <1>20, <3>1, <3>2, <3>3 DEF T!CountAnswer, T!Go
  <2>2. Places'
    BY <1>20 DEF T!CountAnswer, T!Go, Places, Sessions, Counters
  <2>3. Books'
    <3>1. reader[a] = "counting" /\ reader' = [reader EXCEPT ![a] = "arming"]
          /\ a \in udpOpen /\ UNCHANGED <<udpSession, udpOpen, up, carried, reported>>
      BY <1>20 DEF T!CountAnswer, T!Go, Places
    <3>2. down'[a] = down[a] + 1 /\ \A b \in T!Association \ {a} : down'[b] = down[b]
      BY <1>20 DEF T!CountAnswer, Counters
    <3>3. ASSUME NEW b \in T!Association
          PROVE  InReader(b)' = InReader(b) - (IF b = a THEN 1 ELSE 0) /\ InSession(b)' = InSession(b)
      BY <3>1 DEF InSession, InReader
    <3>4. ASSUME NEW b \in T!Association
          PROVE  BookOf(b)'
      <4>1. down'[b] = down[b] + (IF b = a THEN 1 ELSE 0)
        BY <3>2, BookTypes
      <4>2. carried'[b] = up'[b] + down'[b] + InSession(b)' + InReader(b)'
        <5>1. /\ up[b] \in Nat /\ down[b] \in Nat
              /\ InSession(b) \in {0, 1} /\ InReader(b) \in {0, 1}
              /\ carried[b] = up[b] + down[b] + InSession(b) + InReader(b)
          BY BookTypes
        <5>2. up'[b] = up[b] /\ carried'[b] = carried[b] /\ InSession(b)' = InSession(b)
              /\ InReader(b)' = InReader(b) - (IF b = a THEN 1 ELSE 0)
          BY <3>1, <3>3
        <5>3. CASE b = a
          <6>1. down'[b] = down[b] + 1 /\ InReader(b)' = InReader(b) - 1
            BY <4>1, <5>2, <5>3
          <6> QED
            BY <5>1, <5>2, <6>1
        <5>4. CASE b # a
          <6>1. down'[b] = down[b] /\ InReader(b)' = InReader(b)
            BY <4>1, <5>1, <5>2, <5>4
          <6> QED
            BY <5>1, <5>2, <6>1
        <5> QED
          BY <5>3, <5>4
      <4>3. b \in (T!Dialled \ udpOpen)' => b # a /\ reported'[b] = up'[b] + down'[b]
        BY <3>1, <4>1, BookTypes
      <4> QED
        BY <4>2, <4>3 DEF BookOf
    <3> QED
      BY <3>4 DEF Books
  <2>4. Mapped'
    BY <1>20 DEF T!CountAnswer, T!Go, Places, Mapped, Sessions, Counters
  <2> QED
    BY <2>1, <2>2, <2>3, <2>4
<1>21. ASSUME NEW a \in T!Association, T!FrameFails(a)
      PROVE  UdpInv'
  <2>1. UdpTypes'
    BY <1>21 DEF T!FrameFails, T!Go
  <2>2. Places'
    BY <1>21 DEF T!FrameFails, T!Go, Places, Sessions, Counters
  <2>3. Books'
    BY <1>21 DEF T!FrameFails, T!Go, Places, Books, BookOf, InSession, InReader,
                   Sessions, Counters
  <2>4. Mapped'
    BY <1>21 DEF T!FrameFails, T!Go, Places, Mapped, Sessions, Counters
  <2> QED
    BY <2>1, <2>2, <2>3, <2>4
<1>22. ASSUME NEW a \in T!Association, T!Timeout(a)
      PROVE  UdpInv'
  <2>1. UdpTypes'
    BY <1>22 DEF T!Timeout
  <2>2. Places'
    BY <1>22 DEF T!Timeout, Places, Sessions, Counters
  <2>3. Books'
    BY <1>22 DEF T!Timeout, Places, Books, BookOf, InSession, InReader, Sessions, Counters
  <2>4. Mapped'
    BY <1>22 DEF T!Timeout, Places, Mapped, Sessions, Counters
  <2> QED
    BY <2>1, <2>2, <2>3, <2>4
<1>23. ASSUME NEW a \in T!Association, T!ReadBroken(a)
      PROVE  UdpInv'
  <2>1. UdpTypes'
    BY <1>23 DEF T!ReadBroken, T!Go
  <2>2. Places'
    BY <1>23 DEF T!ReadBroken, T!Go, Places, Sessions, Counters
  <2>3. Books'
    BY <1>23 DEF T!ReadBroken, T!Go, Places, Books, BookOf, InSession, InReader,
                   Sessions, Counters
  <2>4. Mapped'
    BY <1>23 DEF T!ReadBroken, T!Go, Places, Mapped, Sessions, Counters
  <2> QED
    BY <2>1, <2>2, <2>3, <2>4
<1>24. ASSUME NEW a \in T!Association, T!EndReader(a)
      PROVE  UdpInv'
  <2>1. UdpTypes'
    <3>1. udpSession' \in Sessions
      BY <1>24 DEF T!EndReader, T!Closed, T!Using, T!Go, Sessions
    <3>2. up' \in Counters /\ down' \in Counters /\ carried' \in Counters /\ reported' \in Counters
      BY <1>24, ClosedBooks DEF T!EndReader
    <3>3. udpOpen' \in SUBSET T!Association /\ active' \in [Target -> 0 .. MaxDialled]
      BY <1>24 DEF T!EndReader, T!Closed, T!Using, T!Go, Sessions
    <3> QED
      BY <1>24, <3>1, <3>2, <3>3 DEF T!EndReader, T!Closed, T!Using, T!Go
  <2>2. Places'
    BY <1>24 DEF T!EndReader, T!Closed, T!Using, T!Go, Places, Sessions, Counters
  <2>3. Books'
    BY <1>24 DEF T!EndReader, T!Closed, T!Using, T!Go, Places, Books, BookOf, InSession, InReader,
                   Sessions, Counters
  <2>4. Mapped'
    BY <1>24 DEF T!EndReader, T!Closed, T!Using, T!Go, Places, Mapped, Sessions, Counters
  <2> QED
    BY <2>1, <2>2, <2>3, <2>4
<1>25. CASE T!ClientLeaves
  <2>1. UdpTypes'
    BY <1>25 DEF T!ClientLeaves
  <2>2. Places'
    BY <1>25 DEF T!ClientLeaves, Places, Sessions, Counters
  <2>3. Books'
    BY <1>25 DEF T!ClientLeaves, Places, Books, BookOf, InSession, InReader, Sessions, Counters
  <2>4. Mapped'
    BY <1>25 DEF T!ClientLeaves, Places, Mapped, Sessions, Counters
  <2> QED
    BY <2>1, <2>2, <2>3, <2>4
<1>26. CASE UNCHANGED T!vars
  BY <1>26 DEF T!vars, Places, Books, BookOf, InSession, InReader, Mapped
<1> QED
  BY <1>1, <1>2, <1>3, <1>4, <1>5, <1>6, <1>7, <1>8, <1>9, <1>10, <1>11, <1>12,
     <1>13, <1>14, <1>15, <1>16, <1>17, <1>18, <1>19, <1>20, <1>21, <1>22, <1>23, <1>24, <1>25, <1>26
     DEF T!Next, T!SessionSteps, T!ReaderSteps

LEMMA UdpInvariance == T!Init /\ [][T!Next]_(T!vars) => []UdpInv
BY UdpInitInv, UdpStepInv, PTL

LEMMA BooksBalance == UdpInv => T!ReportedInFull
<1> SUFFICES ASSUME UdpInv
             PROVE  T!ReportedInFull
  OBVIOUS
<1>1. ASSUME NEW a \in T!Dialled \ udpOpen
      PROVE  reported[a] = carried[a]
  <2>1. a \in T!Association /\ InSession(a) = 0 /\ InReader(a) = 0
    BY DEF UdpInv, Places, InSession, InReader, T!Dialled
  <2>2. up[a] \in Nat /\ down[a] \in Nat /\ carried[a] = up[a] + down[a] + 0 + 0
        /\ reported[a] = up[a] + down[a]
    BY <2>1, BookTypes DEF UdpInv
  <2> QED
    BY <2>2
<1>2. udpSession.at = "returned" => udpOpen = {} /\ \A a \in T!Dialled : reader[a] = "done"
  BY DEF UdpInv, UdpTypes, Places, T!Dialled
<1> QED
  BY <1>1, <1>2 DEF T!ReportedInFull, T!At

\* Whoever closes an association, and whatever the session and the reader are in
\* the middle of, its report is what it has carried, both ways, and is made once;
\* a session that has returned left none open.
THEOREM AlwaysReportedInFull == T!Spec => []ReportedInFull
BY BooksBalance, UdpInvariance, PTL DEF T!Spec, ReportedInFull

LEMMA UdpTyped == T!Init /\ [][T!Next]_(T!vars) => []T!TypeOK
<1> DEFINE C == client \in {"open", "closed"}
<1>1. T!Init => C
  BY DEF T!Init
<1>2. C /\ [T!Next]_(T!vars) => C'
  <2> SUFFICES ASSUME C, [T!Next]_(T!vars)
               PROVE  C'
    OBVIOUS
  <2>1. client' \in {client, "closed"}
    BY DEF T!Next, T!SessionSteps, T!ReaderSteps, T!vars, T!Reuse, T!Sweep, T!Dial, T!DialFails, T!Use, T!Write,
           T!Count, T!WriteFails, T!Drop, T!EndRelay, T!CloseActive, T!AllClosed, T!Returns, T!ReadFails,
           T!ReadPacket, T!Arm, T!Admit, T!WriteFrame, T!CountAnswer, T!FrameFails, T!EndReader, T!Answer,
           T!Timeout, T!ReadBroken, T!ClientLeaves
  <2> QED
    BY <2>1
<1>3. UdpInv /\ C => T!TypeOK
  BY DEF UdpInv, UdpTypes, Places, T!TypeOK, T!Dialled
<1> HIDE DEF C
<1> QED
  BY <1>1, <1>2, <1>3, UdpInvariance, PTL

\* Only associations that were dialled are open, and there are no more of them
\* than were dialled (relayTrojanUDP).
THEOREM UdpTypeCorrect == T!Spec => []T!TypeOK
BY UdpTyped, PTL DEF T!Spec

-----------------------------------------------------------------------------
(* The limit of associations.                                               *)

LEMMA SameCardinality ==
    ASSUME NEW set
    PROVE  T!Cardinality(set) = Cardinality(set)
BY DEF T!Cardinality, Cardinality

\* As many targets have an open association as there are open associations.
LEMMA LiveIsOpen ==
    ASSUME UdpInv
    PROVE  /\ IsFiniteSet(udpOpen) /\ Cardinality(udpOpen) \in Nat
           /\ Cardinality(udpOpen) = Cardinality(T!Live)
<1> USE PartsAssumption DEF UdpInv, UdpTypes
<1>1. IsFiniteSet(udpOpen)
  <2>1. IsFiniteSet(1 .. MaxDialled)
    BY FS_Interval
  <2> QED
    BY <2>1, FS_Subset DEF T!Association
<1>2. ExistsBijection(udpOpen, T!Live)
  <2> DEFINE f == [a \in udpOpen |-> CHOOSE t \in Target : active[t] = a]
  <2>1. \A a \in udpOpen : f[a] \in Target /\ active[f[a]] = a /\ a # 0
    BY DEF Mapped, T!Association
  <2>2. \A a \in udpOpen : f[a] \in T!Live
    BY <2>1 DEF T!Live, T!Swept
  <2>3. f \in [udpOpen -> T!Live]
    BY <2>2
  <2>4. \A a, b \in udpOpen : f[a] = f[b] => a = b
    BY <2>1
  <2>5. \A t \in T!Live : active[t] \in udpOpen /\ f[active[t]] = t
    <3>1. \A t \in T!Live : t \in Target /\ active[t] \in udpOpen /\ active[t] # 0
      BY DEF T!Live, T!Swept
    <3> QED
      BY <2>1, <3>1 DEF Mapped
  <2> HIDE DEF f
  <2>6. f \in Bijection(udpOpen, T!Live)
    BY <2>3, <2>4, <2>5 DEF Bijection, Injection, Surjection, IsInjective
  <2> QED
    BY <2>6 DEF ExistsBijection
<1> QED
  BY <1>1, <1>2, FS_Bijection, FS_CardinalityType

Limited ==
    /\ Cardinality(udpOpen) =< MaxAssociations
    /\ udpSession.at = "dialling" => Cardinality(udpOpen) < MaxAssociations

LEMMA LimitedStep == UdpInv /\ Limited /\ [T!Next]_(T!vars) => Limited'
<1> SUFFICES ASSUME UdpInv, Limited, [T!Next]_(T!vars)
             PROVE  Limited'
  OBVIOUS
<1> DEFINE n == Cardinality(udpOpen)
<1> USE PartsAssumption DEF Limited, T!At, T!association
<1>1. IsFiniteSet(udpOpen) /\ n \in Nat /\ n = Cardinality(T!Live)
  BY LiveIsOpen
<1>2. ASSUME udpOpen' \in SUBSET udpOpen, udpSession'.at = "dialling" => udpSession.at = "dialling"
      PROVE  Limited'
  <2>1. Cardinality(udpOpen') \in Nat /\ Cardinality(udpOpen') =< n
    BY <1>1, <1>2, FS_Subset, FS_CardinalityType
  <2> QED
    BY <1>1, <1>2, <2>1
<1>3. CASE T!Sweep
  <2>1. udpOpen' = udpOpen /\ (udpSession'.at = "dialling" => Cardinality(T!Live) < MaxAssociations)
    BY <1>1, <1>3, SameCardinality, DialIsNotIdle DEF T!Sweep, UdpInv, UdpTypes, Sessions
  <2> QED
    BY <1>1, <2>1
<1>4. ASSUME NEW a \in T!Association, T!Dial(a)
      PROVE  Limited'
  <2>1. udpOpen' = udpOpen \cup {a} /\ n < MaxAssociations /\ udpSession'.at # "dialling"
    BY <1>4 DEF T!Dial, UdpInv, UdpTypes, Sessions
  <2>2. Cardinality(udpOpen') =< n + 1
    <3>1. Cardinality(udpOpen \cup {a}) = IF a \in udpOpen THEN n ELSE n + 1
      BY <1>1, FS_AddElement
    <3> QED
      BY <1>1, <2>1, <3>1
  <2>3. Cardinality(udpOpen') \in Nat
    BY <1>1, <2>1, FS_AddElement, FS_CardinalityType
  <2> QED
    BY <1>1, <2>1, <2>2, <2>3
<1>5. CASE ~ T!Sweep /\ ~ \E a \in T!Association : T!Dial(a)
  <2>1. udpOpen' \in SUBSET udpOpen
    BY <1>5 DEF T!Next, T!SessionSteps, T!ReaderSteps, T!Closed, T!vars, T!ReadFails, T!ReadPacket,
         T!Reuse, T!DialFails, T!Use, T!Write, T!Count, T!WriteFails, T!Drop, T!EndRelay, T!CloseActive,
         T!AllClosed, T!Returns, T!Arm, T!Answer, T!Admit, T!WriteFrame, T!CountAnswer, T!FrameFails,
         T!Timeout, T!ReadBroken, T!EndReader, T!ClientLeaves
  <2>2. udpSession'.at = "dialling" => udpSession.at = "dialling"
    <3> SUFFICES ASSUME udpSession' # udpSession
                 PROVE  udpSession'.at # "dialling"
      OBVIOUS
    <3> USE DialIsNotIdle DEF UdpInv, UdpTypes, Sessions
    <3>1. CASE T!ReadFails \/ T!Reuse \/ T!Use \/ T!Write \/ T!WriteFails \/ T!EndRelay
               \/ T!AllClosed \/ T!Returns
      BY <3>1 DEF T!ReadFails, T!Reuse, T!Use, T!Write, T!WriteFails, T!EndRelay, T!AllClosed, T!Returns
    <3>2. CASE T!DialFails \/ T!Count \/ T!Drop
      BY <3>2 DEF T!DialFails, T!Count, T!Drop
    <3>3. ASSUME NEW t \in Target, T!ReadPacket(t)
          PROVE  udpSession'.at # "dialling"
      BY <3>3, IdleIsSession DEF T!ReadPacket
    <3>4. udpSession' = udpSession
          \/ T!ReadFails \/ T!Reuse \/ T!Use \/ T!Write \/ T!WriteFails \/ T!EndRelay
          \/ T!AllClosed \/ T!Returns \/ T!DialFails \/ T!Count \/ T!Drop
          \/ \E t \in Target : T!ReadPacket(t)
      BY <1>5 DEF T!Next, T!SessionSteps, T!ReaderSteps, T!vars, T!CloseActive, T!Arm, T!Answer, T!Admit,
           T!WriteFrame, T!CountAnswer, T!FrameFails, T!Timeout, T!ReadBroken, T!EndReader, T!ClientLeaves
    <3> QED
      BY <3>1, <3>2, <3>3, <3>4
  <2> QED
    BY <1>2, <2>1, <2>2
<1> QED
  BY <1>3, <1>4, <1>5

LEMMA LimitHolds == T!Init /\ [][T!Next]_(T!vars) => []T!WithinLimit
<1>1. T!Init => Limited
  BY FS_EmptySet, PartsAssumption, DialIsNotIdle DEF T!Init, Limited
<1>2. Limited => T!WithinLimit
  BY SameCardinality DEF Limited, T!WithinLimit
<1> QED
  BY <1>1, <1>2, UdpInvariance, LimitedStep, PTL

\* No more associations are open than the session may have: none is forgotten
\* while it is open, and none is dialled by anybody but the session that has counted them.
THEOREM AlwaysWithinLimit == T!Spec => []WithinLimit
BY LimitHolds, PTL DEF T!Spec, WithinLimit

-----------------------------------------------------------------------------
(* LogFeed.                                                                 *)

LogBytes == Nat \X Nat

\* The parts of ShowsTheFile, of a page that shows n bytes of the file of day d.
Kept(content, d, n) ==
    /\ content \in Seq(LogBytes) /\ Len(content) = n
    /\ \A i \in 1 .. n : content[i] = L!Damaged \/ content[i] = <<d, i>>

Sparse(content, n) ==
    \A i, j \in 1 .. n :
        content[i] = L!Damaged /\ i - 1 \notin Inner /\ content[j] = L!Damaged /\ j \notin Inner
        => L!Joined(i, j - 1) \/ j - i > Limit

\* A page that ends inside a character has its other replaced ones at least one
\* chunk before its end.
Spaced(content, n) ==
    n \in Inner => \A i \in 1 .. n : content[i] = L!Damaged /\ i - 1 \notin Inner
                                    => L!Joined(i, n) \/ i + Limit =< n

LEMMA DamagedIsNoByte ==
    /\ L!Damaged \in LogBytes
    /\ \A d \in Nat, i \in Nat \ {0} : <<d, i>> \in LogBytes /\ <<d, i>> # L!Damaged
BY DEF L!Damaged, L!None, LogBytes

\* A chunk that follows what the page shows, or begins the file, keeps the three:
\* only a full chunk ends inside a character, so that the characters that are cut
\* are Limit bytes apart.
LEMMA ChunkFollows ==
    ASSUME NEW d \in Nat, NEW m \in Nat, NEW n \in Nat, m =< n,
           NEW A, Kept(A, d, m), Sparse(A, m), Spaced(A, m),
           NEW C \in Seq(LogBytes), Len(C) = n - m,
           \A i \in 1 .. n - m : \/ C[i] = <<d, m + i>>
                               \/ /\ C[i] = L!Damaged
                                  /\ L!Joined(m, m + i - 1) \/ L!Joined(m + i, n),
           n \in Inner => n = m + Limit
    PROVE  Kept(A \o C, d, n) /\ Sparse(A \o C, n) /\ Spaced(A \o C, n)
<1>1. A \in Seq(LogBytes) /\ Len(A) = m
  BY DEF Kept
<1>2. A \o C \in Seq(LogBytes) /\ Len(A \o C) = n
  <2>1. A \o C \in Seq(LogBytes) /\ Len(A \o C) = Len(A) + Len(C)
    BY <1>1, ConcatProperties
  <2> QED
    BY <1>1, <2>1
<1>3. \A i \in 1 .. m : (A \o C)[i] = A[i]
  BY <1>1, ConcatProperties
<1>4. ASSUME NEW i \in m + 1 .. n
      PROVE  \/ (A \o C)[i] = <<d, i>>
             \/ /\ (A \o C)[i] = L!Damaged
                /\ L!Joined(m, i - 1) \/ L!Joined(i, n)
  <2>1. i - m \in 1 .. n - m /\ m + (i - m) = i /\ m + (i - m) - 1 = i - 1
    OBVIOUS
  <2>2. (A \o C)[i] = C[i - m]
    <3>1. \A k \in 1 .. Len(A) + Len(C) :
             (A \o C)[k] = IF k =< Len(A) THEN A[k] ELSE C[k - Len(A)]
      BY <1>1, ConcatProperties
    <3> QED
      BY <1>1, <3>1
  <2> QED
    BY <2>1, <2>2
<1>5. Limit \in Nat /\ Inner \subseteq Nat
  BY PartsAssumption
<1>6. Kept(A \o C, d, n)
  <2>1. ASSUME NEW i \in 1 .. n
        PROVE  (A \o C)[i] = L!Damaged \/ (A \o C)[i] = <<d, i>>
    BY <1>3, <1>4 DEF Kept
  <2> QED
    BY <1>2, <2>1 DEF Kept
<1>7. \A j \in m + 1 .. n : <<d, j>> # L!Damaged
  <2>1. \A j \in m + 1 .. n : j \in Nat \ {0}
    OBVIOUS
  <2> QED
    BY <2>1, DamagedIsNoByte
\* A new byte that is replaced and ends its character is of the one the chunk
\* begins inside; one that begins its character is of the one it ends inside.
<1>8. ASSUME NEW j \in m + 1 .. n, (A \o C)[j] = L!Damaged
      PROVE  j \notin Inner => m \in Inner /\ L!Joined(m, j - 1)
  <2>1. L!Joined(m, j - 1) \/ L!Joined(j, n)
    BY <1>4, <1>8, <1>7
  <2> QED
    BY <2>1 DEF L!Joined
<1>9. ASSUME NEW i \in m + 1 .. n, (A \o C)[i] = L!Damaged
      PROVE  i - 1 \notin Inner => L!Joined(i, n)
  <2>1. L!Joined(m, i - 1) \/ L!Joined(i, n)
    BY <1>4, <1>9, <1>7
  <2> QED
    BY <2>1 DEF L!Joined
<1>10. Spaced(A \o C, n)
  <2> SUFFICES ASSUME n \in Inner, NEW i \in 1 .. n, (A \o C)[i] = L!Damaged, i - 1 \notin Inner
               PROVE  L!Joined(i, n) \/ i + Limit =< n
    BY DEF Spaced
  <2>1. CASE i \in 1 .. m
    BY <1>5, <2>1
  <2>2. CASE i \in m + 1 .. n
    BY <1>9, <2>2
  <2> QED
    BY <2>1, <2>2
<1>11. Sparse(A \o C, n)
  <2> SUFFICES ASSUME NEW i \in 1 .. n, (A \o C)[i] = L!Damaged, i - 1 \notin Inner,
                      NEW j \in 1 .. n, (A \o C)[j] = L!Damaged, j \notin Inner
               PROVE  L!Joined(i, j - 1) \/ j - i > Limit
    BY DEF Sparse
  <2>1. CASE j < i
    BY <2>1 DEF L!Joined
  <2>2. CASE j \in 1 .. m /\ i \in 1 .. m
    BY <1>3, <2>2 DEF Sparse
  <2>3. CASE j \in m + 1 .. n /\ i \in 1 .. m
    <3>1. m \in Inner /\ L!Joined(m, j - 1)
      BY <1>8, <2>3
    <3>2. L!Joined(i, m) \/ i + Limit =< m
      BY <1>3, <2>3, <3>1 DEF Spaced
    <3>3. L!Joined(i, m) => L!Joined(i, j - 1)
      BY <3>1 DEF L!Joined
    <3> QED
      BY <1>5, <2>3, <3>2, <3>3
  <2>4. CASE j \in m + 1 .. n /\ i \in m + 1 .. n /\ i =< j
    <3>1. L!Joined(i, n)
      BY <1>9, <2>4
    <3>2. L!Joined(i, j - 1)
      BY <2>4, <3>1 DEF L!Joined
    <3> QED
      BY <3>2
  <2> QED
    BY <2>1, <2>2, <2>3, <2>4
<1> QED
  BY <1>6, <1>10, <1>11

Pages == [date : Nat, content : Seq(LogBytes), offset : Nat, chunks : Nat]
Requests == [at : {"none", "sent", "read", "answered", "lost"}, date : Nat, day : Nat, offset : Nat,
             next : Nat, from : Nat, more : BOOLEAN]

LogTypes ==
    /\ today \in L!Day /\ date \in 1 .. today /\ open \in {"yes", "no", "stuck"}
    /\ size \in [L!Day -> Nat]
    /\ page \in Pages
    /\ request \in Requests

\* No file ends inside a character.
WholeFiles == \A d \in L!Day : size[d] \notin Inner

\* The page is of a day that has begun, and knows no more of the file of today
\* than there is.
PageFits ==
    /\ page.date =< today
    /\ page.date = 0 => page.offset = 0
    /\ page.date = today => page.offset =< size[today]

PageShows ==
    /\ Kept(page.content, page.date, page.offset)
    /\ Sparse(page.content, page.offset)
    /\ Spaced(page.content, page.offset)

\* A request carries what the page shows; a chunk that was read follows it if it
\* is of the same day, and begins the file if it is of a later one.  It ends
\* inside a character only when it is full.
RequestFits ==
    /\ request.at \in {"sent", "read", "answered"} =>
          request.date = page.date /\ request.offset = page.offset
    /\ request.at \in {"read", "answered"} =>
          /\ request.day \in 1 .. today /\ page.date =< request.day
          /\ request.from =< request.next
          /\ request.next \in Inner => request.next = request.from + Limit
          /\ request.day = today => request.next =< size[today]
          /\ request.day = page.date => request.from = page.offset
    /\ request.at = "read" /\ (page.date = 0 \/ page.offset = 0) => request.from = 0
    /\ request.at = "answered" /\ request.day # page.date => request.from = 0

LogInv == LogTypes /\ WholeFiles /\ PageFits /\ RequestFits /\ PageShows

LEMMA NothingShown ==
    ASSUME NEW d
    PROVE  Kept(<<>>, d, 0) /\ Sparse(<<>>, 0) /\ Spaced(<<>>, 0)
BY EmptySeq DEF Kept, Sparse, Spaced

LEMMA LogInitInv == L!Init => LogInv
<1> SUFFICES ASSUME L!Init
             PROVE  LogInv
  OBVIOUS
<1>1. PageShows
  BY NothingShown DEF L!Init, PageShows
<1>2. LogTypes /\ WholeFiles
  BY PartsAssumption, EmptySeq DEF L!Init, LogTypes, WholeFiles, L!Day, L!None, L!NoRequest, Pages, Requests
<1>3. PageFits /\ RequestFits
  BY PartsAssumption DEF L!Init, PageFits, RequestFits, L!Day, L!None, L!NoRequest
<1> QED
  BY <1>1, <1>2, <1>3 DEF LogInv

\* Rotation removes other days' files only.
LEMMA TodayStays ==
    ASSUME LogTypes, WholeFiles
    PROVE  /\ L!Sizes \in [L!Day -> Nat] /\ L!Sizes[today] = size[today]
           /\ L!Rotated \in [L!Day -> Nat] /\ L!Rotated[today] = size[today]
           /\ \A d \in L!Day : L!Sizes[d] \notin Inner /\ L!Rotated[d] \notin Inner
BY PartsAssumption DEF LogTypes, WholeFiles, L!Sizes, L!Rotated

\* Steps at which the page stays as it is, and the files grow or go.
LEMMA PageStays ==
    ASSUME LogInv, page' = page, LogTypes',
           \/ today' = today /\ size'[today] >= size[today]
           \/ today' = today + 1 /\ size' = size
    PROVE  PageFits' /\ PageShows'
BY DEF LogInv, LogTypes, L!Day, Pages, PageFits, PageShows

LEMMA RequestStays ==
    ASSUME LogInv, page' = page, LogTypes',
           \/ today' = today /\ size'[today] >= size[today]
           \/ today' = today + 1 /\ size' = size,
           request' = request \/ request'.at \notin {"sent", "read", "answered"}
    PROVE  RequestFits'
BY SMTT(30) DEF LogInv, LogTypes, L!Day, Pages, Requests, RequestFits

LEMMA OneLineMore ==
    ASSUME NEW D, NEW f \in [D -> Nat], NEW d \in D, NEW n \in Nat
    PROVE  /\ [f EXCEPT ![d] = @ + n] \in [D -> Nat] /\ [f EXCEPT ![d] = @ + n][d] = f[d] + n
           /\ \A e \in D \ {d} : [f EXCEPT ![d] = @ + n][e] = f[e]
OBVIOUS

LEMMA StoreStep ==
    ASSUME LogInv, L!Write \/ L!RotateFails \/ L!Midnight \/ L!Restart
    PROVE  LogInv'
<1>1. LogTypes /\ WholeFiles /\ today \in L!Day /\ today \in 1 .. today /\ size \in [L!Day -> Nat]
      /\ size[today] \in Nat
  BY DEF LogInv, LogTypes, L!Day
<1>2. LogTypes' /\ WholeFiles' /\ page' = page
      /\ ((today' = today /\ size'[today] >= size[today]) \/ (today' = today + 1 /\ size' = size))
      /\ (request' = request \/ request'.at \notin {"sent", "read", "answered"})
  <2>1. CASE L!Write
    <3>1. /\ date' = today /\ open' = "yes" /\ today' = today /\ page' = page /\ request' = request
      BY <2>1 DEF L!Write, L!Ensured
    <3>2. PICK n \in 1 .. MaxLine : /\ L!Sizes[today] + n \notin Inner
                                  /\ size' = [L!Sizes EXCEPT ![today] = @ + n]
      BY <2>1 DEF L!Write
    <3>3. size' \in [L!Day -> Nat] /\ size'[today] = L!Sizes[today] + n
          /\ \A e \in L!Day \ {today} : size'[e] = L!Sizes[e]
      BY <1>1, <3>2, TodayStays, OneLineMore
    <3>4. LogTypes'
      BY <1>1, <3>1, <3>3 DEF LogTypes
    <3>5. WholeFiles'
      BY <1>1, <3>2, <3>3, TodayStays DEF WholeFiles, L!Day
    <3> QED
      BY <1>1, <3>1, <3>3, <3>4, <3>5, TodayStays
  <2>2. CASE L!RotateFails
    <3>1. open' \in {"no", "stuck"} /\ today' = today /\ size' \in {size, L!Rotated} /\ date' = date
          /\ page' = page /\ request' = request
      BY <2>2 DEF L!RotateFails
    <3>2. LogTypes'
      BY <1>1, <3>1, TodayStays DEF LogTypes
    <3>3. WholeFiles' /\ size'[today] = size[today]
      BY <1>1, <3>1, TodayStays DEF WholeFiles, L!Day
    <3> QED
      BY <1>1, <3>1, <3>2, <3>3
  <2>3. CASE L!Midnight
    <3>1. /\ today < MaxDay /\ today' = today + 1 /\ size' = size /\ date' = date /\ open' = open
          /\ page' = page /\ request' = request
      BY <2>3 DEF L!Midnight, L!store
    <3>2. LogTypes'
      BY <1>1, <3>1, PartsAssumption DEF LogTypes, L!Day
    <3>3. WholeFiles'
      BY <1>1, <3>1 DEF WholeFiles, L!Day
    <3> QED
      BY <3>1, <3>2, <3>3
  <2>4. CASE L!Restart
    <3>1. /\ size' = L!Rotated /\ date' = today /\ open' = "yes" /\ today' = today /\ page' = page
          /\ (request' = request \/ request' = [request EXCEPT !.at = "lost"])
      BY <2>4 DEF L!Restart
    <3>2. request' \in Requests /\ (request' = request \/ request'.at = "lost")
      BY <1>1, <3>1 DEF LogTypes, Requests
    <3>3. LogTypes'
      BY <1>1, <3>1, <3>2, TodayStays DEF LogTypes
    <3>4. WholeFiles' /\ size'[today] = size[today]
      BY <1>1, <3>1, TodayStays DEF WholeFiles, L!Day
    <3> QED
      BY <1>1, <3>1, <3>2, <3>3, <3>4
  <2> QED
    BY <2>1, <2>2, <2>3, <2>4
<1> QED
  BY <1>2, PageStays, RequestStays DEF LogInv

LEMMA ReadStep ==
    ASSUME LogInv, L!FirstRead \/ L!SecondRead
    PROVE  LogInv'
<1> USE PartsAssumption DEF LogInv, LogTypes, L!Day
<1>1. /\ L!Sizes \in [L!Day -> Nat] /\ L!Sizes[today] = size[today] /\ size[today] \in Nat
      /\ size[today] \notin Inner
      /\ size' = L!Sizes /\ date' = today /\ open' = "yes" /\ UNCHANGED <<today, page>>
      /\ WholeFiles'
  BY TodayStays DEF L!FirstRead, L!SecondRead, L!Read, L!Ensured, WholeFiles
<1>2. \A from \in Nat : from =< size[today] =>
         LET next == from + L!Least(Limit, size[today] - from)
         IN /\ next \in Nat /\ from =< next /\ next =< size[today]
            /\ next \in Inner => next = from + Limit
  BY <1>1 DEF L!Least
<1>3. CASE L!FirstRead
  <2> DEFINE from == L!From(request.offset)
             next == from + L!Least(Limit, size[today] - from)
  <2>1. from \in Nat /\ from =< size[today] /\ (request.offset =< size[today] => from = request.offset)
        /\ (request.offset = 0 => from = 0)
    BY <1>1 DEF L!From, Requests
  <2>2. /\ next \in Nat /\ from =< next /\ next =< size[today]
        /\ next \in Inner => next = from + Limit
    BY <1>2, <2>1
  <2>3. \E more \in BOOLEAN :
           request' = [request EXCEPT !.at = "read", !.day = today, !.from = from, !.next = next,
                                      !.more = more]
    <3>1. request' = [request EXCEPT !.at = "read", !.day = today, !.from = from, !.next = next,
                                     !.more = next < size[today]]
      BY <1>1, <1>3 DEF L!FirstRead, L!Read
    <3>2. (next < size[today]) \in BOOLEAN
      OBVIOUS
    <3> HIDE DEF from, next
    <3> QED
      BY <3>1, <3>2
  <2>4. request.at = "sent" /\ request.date = page.date /\ request.offset = page.offset
    BY <1>3 DEF L!FirstRead, RequestFits
  <2> HIDE DEF from, next
  <2>5. /\ request'.at = "read" /\ request'.day = today /\ request'.from = from /\ request'.next = next
        /\ request'.date = page.date /\ request'.offset = page.offset
        /\ request' \in Requests
    <3>1. request \in Requests /\ today \in Nat
      OBVIOUS
    <3>2. PICK more \in BOOLEAN :
             request' = [request EXCEPT !.at = "read", !.day = today, !.from = from, !.next = next,
                                        !.more = more]
      BY <2>3
    <3> HIDE DEF LogInv, LogTypes, L!Day
    <3>3. /\ request'.at = "read" /\ request'.day = today /\ request'.from = from
          /\ request'.next = next /\ request'.date = request.date
          /\ request'.offset = request.offset /\ request' \in Requests
      BY <2>1, <2>2, <3>1, <3>2 DEF Requests
    <3> QED
      BY <2>4, <3>3
  <2>6. LogTypes'
    BY <1>1, <2>5
  <2>7. RequestFits'
    BY <1>1, <2>1, <2>2, <2>4, <2>5 DEF RequestFits, PageFits, Pages
  <2> QED
    BY <1>1, <2>6, <2>7, PageStays
<1>4. CASE L!SecondRead
  <2> DEFINE next == L!Least(Limit, size[today])
  <2>1. next \in Nat /\ next =< size[today] /\ (next \in Inner => next = 0 + Limit)
    BY <1>1 DEF L!Least
  <2>2. \E more \in BOOLEAN :
           request' = [request EXCEPT !.at = "answered", !.day = today, !.from = 0, !.next = next,
                                      !.more = more]
    <3>1. request' = [request EXCEPT !.at = "answered", !.day = today, !.from = 0, !.next = next,
                                     !.more = next < size[today]]
      BY <1>1, <1>4 DEF L!SecondRead
    <3>2. (next < size[today]) \in BOOLEAN
      OBVIOUS
    <3> HIDE DEF next
    <3> QED
      BY <3>1, <3>2
  <2>3. request.at = "read" /\ request.date = page.date /\ request.offset = page.offset
        /\ page.date =< request.day /\ request.day =< today /\ page.date # request.day
    BY <1>4 DEF L!SecondRead, RequestFits
  <2> HIDE DEF next
  <2>4. /\ request'.at = "answered" /\ request'.day = today /\ request'.from = 0 /\ request'.next = next
        /\ request'.date = page.date /\ request'.offset = page.offset
        /\ request' \in Requests
    <3>1. request \in Requests /\ today \in Nat /\ 0 \in Nat
      OBVIOUS
    <3>2. PICK more \in BOOLEAN :
             request' = [request EXCEPT !.at = "answered", !.day = today, !.from = 0, !.next = next,
                                        !.more = more]
      BY <2>2
    <3> HIDE DEF LogInv, LogTypes, L!Day
    <3>3. /\ request'.at = "answered" /\ request'.day = today /\ request'.from = 0
          /\ request'.next = next /\ request'.date = request.date
          /\ request'.offset = request.offset /\ request' \in Requests
      BY <2>1, <3>1, <3>2 DEF Requests
    <3> QED
      BY <2>3, <3>3
  <2>5. LogTypes'
    BY <1>1, <2>4
  <2>6. RequestFits'
    BY <1>1, <2>1, <2>3, <2>4 DEF RequestFits, Pages, Requests
  <2> QED
    BY <1>1, <2>5, <2>6, PageStays
<1> QED
  BY <1>3, <1>4

LEMMA AnswerStep ==
    ASSUME LogInv, L!Answer \/ L!ReadFails \/ L!Lose \/ L!GiveUp
    PROVE  LogInv'
<1> USE DEF LogInv, LogTypes, WholeFiles, L!store
<1>1. CASE L!Answer
  BY <1>1 DEF L!Answer, L!None, RequestFits, PageFits, PageShows, Requests, Pages, L!Day
<1>2. CASE L!Lose
  BY <1>2 DEF L!Lose, RequestFits, PageFits, PageShows, Requests, L!Day
<1>3. CASE L!GiveUp
  BY <1>3 DEF L!GiveUp, L!NoRequest, L!None, RequestFits, PageFits, PageShows, Requests, L!Day
<1>4. CASE L!ReadFails
  BY <1>4 DEF L!ReadFails, RequestFits, PageFits, PageShows, Requests, L!Day
<1> QED
  BY <1>1, <1>2, <1>3, <1>4

LEMMA AskingFits ==
    ASSUME NEW p \in Pages
    PROVE  /\ L!Asking(p) \in Requests /\ L!Asking(p).at = "sent"
           /\ L!Asking(p).date = p.date /\ L!Asking(p).offset = p.offset
BY DEF L!Asking, L!NoRequest, L!None, Requests, Pages

LEMMA ChunkBytes ==
    ASSUME request.day \in Nat, request.from \in Nat, request.next \in Nat, request.from =< request.next
    PROVE  /\ L!Chunk \in Seq(LogBytes) /\ Len(L!Chunk) = request.next - request.from
           /\ \A i \in 1 .. request.next - request.from :
                 \/ L!Chunk[i] = <<request.day, request.from + i>>
                 \/ /\ L!Chunk[i] = L!Damaged
                    /\ \/ L!Joined(request.from, request.from + i - 1)
                       \/ L!Joined(request.from + i, request.next)
<1> DEFINE byte(i) == IF L!Cut(request.from + i) THEN L!Damaged ELSE <<request.day, request.from + i>>
<1>1. PICK n \in Nat : n = request.next - request.from
  OBVIOUS
<1>2. L!Chunk = [i \in 1 .. n |-> byte(i)]
  BY <1>1 DEF L!Chunk
<1>3. \A i \in 1 .. n : byte(i) \in LogBytes
  BY <1>1, DamagedIsNoByte
<1>4. \A i \in 1 .. n : \/ byte(i) = <<request.day, request.from + i>>
                        \/ byte(i) = L!Damaged /\ L!Cut(request.from + i)
  OBVIOUS
<1> HIDE DEF byte
<1>5. L!Chunk \in Seq(LogBytes) /\ Len(L!Chunk) = n /\ \A i \in 1 .. n : L!Chunk[i] = byte(i)
  BY <1>2, <1>3
<1> QED
  BY <1>1, <1>4, <1>5 DEF L!Cut

LEMMA PageStep ==
    ASSUME LogInv, L!Refresh \/ L!Show
    PROVE  LogInv'
<1> USE DEF LogInv, LogTypes, WholeFiles, L!store
<1>1. CASE L!Refresh
  <2>1. page' = [page EXCEPT !.chunks = 1] /\ request' = L!Asking(page)
        /\ UNCHANGED <<today, size, date, open>>
    BY <1>1 DEF L!Refresh
  <2>2. page' \in Pages /\ page'.date = page.date /\ page'.offset = page.offset
        /\ page'.content = page.content
    BY <2>1 DEF Pages
  <2> QED
    BY <2>1, <2>2, AskingFits DEF RequestFits, PageFits, PageShows, L!Day
<1>2. CASE L!Show
  <2>1. /\ request.at = "answered" /\ UNCHANGED <<today, size, date, open>>
        /\ request.day \in 1 .. today /\ request.from \in Nat /\ request.next \in Nat
        /\ request.from =< request.next
        /\ request.next \in Inner => request.next = request.from + Limit
        /\ request.day = today => request.next =< size[today]
        /\ request.from = IF request.day = page.date THEN page.offset ELSE 0
    BY <1>2 DEF L!Show, RequestFits, Requests
  <2>2. request.day \in Nat /\ request.day # 0
    BY <2>1 DEF L!Day
  <2> DEFINE content == (IF request.day = page.date THEN page.content ELSE <<>>) \o L!Chunk
  <2>3. /\ Kept(content, request.day, request.next)
        /\ Sparse(content, request.next) /\ Spaced(content, request.next)
    <3> DEFINE shown == IF request.day = page.date THEN page.content ELSE <<>>
    <3>1. Kept(shown, request.day, request.from) /\ Sparse(shown, request.from) /\ Spaced(shown, request.from)
      BY <2>1, NothingShown DEF PageShows
    <3>2. content = shown \o L!Chunk
      OBVIOUS
    <3> HIDE DEF shown, content
    <3>3. L!Chunk \in Seq(LogBytes) /\ Len(L!Chunk) = request.next - request.from
          /\ \A i \in 1 .. request.next - request.from :
                \/ L!Chunk[i] = <<request.day, request.from + i>>
                \/ /\ L!Chunk[i] = L!Damaged
                   /\ \/ L!Joined(request.from, request.from + i - 1)
                      \/ L!Joined(request.from + i, request.next)
      BY <2>1, <2>2, ChunkBytes
    <3> QED
      BY <2>1, <2>2, <3>1, <3>2, <3>3, ChunkFollows
  <2>4. content \in Seq(LogBytes)
    BY <2>3 DEF Kept
  <2> HIDE DEF content
  <2>5. L!Shown = [page EXCEPT !.date = request.day, !.content = content, !.offset = request.next]
    BY DEF L!Shown, content
  <2>6. L!Shown \in Pages /\ L!Shown.date = request.day /\ L!Shown.offset = request.next
        /\ L!Shown.content = content
    BY <2>1, <2>2, <2>4, <2>5 DEF Pages
  <2>7. \E n \in Nat : page' = [L!Shown EXCEPT !.chunks = n]
    <3>1. page' = [L!Shown EXCEPT !.chunks = IF request.more /\ page.chunks < MaxChunks
                                             THEN @ + 1 ELSE 0]
      BY <1>2 DEF L!Show
    <3>2. (IF request.more /\ page.chunks < MaxChunks THEN L!Shown.chunks + 1 ELSE 0) \in Nat
      BY <2>6 DEF Pages
    <3> QED
      BY <3>1, <3>2
  <2>8. page' \in Pages /\ page'.date = request.day /\ page'.offset = request.next
        /\ page'.content = content
    BY <2>6, <2>7 DEF Pages
  <2>9. request' = L!Asking(L!Shown) \/ request' = L!NoRequest
    BY <1>2 DEF L!Show
  <2>10. LogTypes' /\ RequestFits'
    <3>1. L!NoRequest \in Requests /\ L!NoRequest.at = "none"
      BY DEF L!NoRequest, L!None, Requests
    <3> QED
      BY <2>1, <2>6, <2>8, <2>9, <3>1, AskingFits DEF RequestFits
  <2>11. PageFits' /\ WholeFiles'
    BY <2>1, <2>2, <2>8 DEF PageFits, L!Day
  <2>12. PageShows'
    BY <2>3, <2>8 DEF PageShows
  <2> QED
    BY <2>10, <2>11, <2>12
<1> QED
  BY <1>1, <1>2

LEMMA LogStepInv == LogInv /\ [L!Next]_(L!vars) => LogInv'
<1>1. LogInv /\ UNCHANGED L!vars => LogInv'
  BY DEF L!vars, L!store, LogInv, LogTypes, WholeFiles, PageFits, RequestFits, PageShows
<1> QED
  BY <1>1, StoreStep, ReadStep, AnswerStep, PageStep DEF L!Next

\* Whatever midnights, restarts, failing rotations and lost requests or answers
\* come in between, the page shows the beginning of the file of one day up to its
\* offset: no byte is missing, doubled or of another day, and of the characters,
\* wherever the file has them, it replaces no more than one in Limit bytes.
THEOREM AlwaysShowsTheFile == L!Spec => []ShowsTheFile
<1>1. LogInv => ShowsTheFile
  BY DEF LogInv, PageShows, Kept, Sparse, ShowsTheFile, L!ShowsTheFile
<1> QED
  BY <1>1, LogInitInv, LogStepInv, PTL DEF L!Spec

LEMMA LogTyped == L!Init /\ [][L!Next]_(L!vars) => []L!TypeOK
<1> DEFINE C == request.from =< request.next
<1>1. L!Init => C
  BY DEF L!Init, L!NoRequest
<1>2. LogInv /\ C /\ [L!Next]_(L!vars) => C'
  <2> SUFFICES ASSUME LogInv, C, [L!Next]_(L!vars)
               PROVE  C'
    OBVIOUS
  <2>1. CASE L!FirstRead \/ L!SecondRead
    <3>1. LogInv'
      BY LogStepInv
    <3>2. request'.at \in {"read", "answered"}
      BY <2>1 DEF L!FirstRead, L!Read, L!SecondRead, LogInv, LogTypes, Requests
    <3> QED
      BY <3>1, <3>2 DEF LogInv, RequestFits
  <2>2. CASE \E p : request' = L!Asking(p)
    BY <2>2 DEF L!Asking, L!NoRequest
  <2>3. CASE request' = L!NoRequest
    BY <2>3 DEF L!NoRequest
  <2>4. CASE \/ UNCHANGED request
             \/ \E at \in {"none", "sent", "read", "answered", "lost"} : request' = [request EXCEPT !.at = at]
    BY <2>4 DEF LogInv, LogTypes, Requests
  <2> QED
    BY <2>1, <2>2, <2>3, <2>4
       DEF L!Next, L!Write, L!RotateFails, L!Midnight, L!Restart, L!Answer, L!ReadFails, L!Lose,
           L!Refresh, L!Show, L!GiveUp, L!vars
<1>3. LogInv /\ C => L!TypeOK
  BY DEF LogInv, LogTypes, Requests, L!TypeOK
<1> HIDE DEF C
<1> QED
  BY <1>1, <1>2, <1>3, LogInitInv, LogStepInv, PTL

\* The file that is open is never of a day to come, and a chunk never ends before
\* it begins (Store, LiveLogsJSON).
THEOREM LogTypeCorrect == L!Spec => []L!TypeOK
BY LogTyped, PTL DEF L!Spec

-----------------------------------------------------------------------------
(* PacketFrames.                                                            *)

Bytes == Nat \X Nat

\* The byte that follows b in the frames of datagrams of these lengths.
After(ls, b) == IF b[2] < 2 + ls[b[1]] THEN <<b[1], b[2] + 1>> ELSE <<b[1] + 1, 1>>

InFrames(ls, b) == b[1] \in 1 .. Len(ls) /\ b[2] \in 1 .. 2 + ls[b[1]]

\* The bytes s are those of the frames from the byte first to the last one,
\* without a gap; they are followed by the frame that is not written yet.
Unbroken(ls, s, first) ==
    LET end == <<Len(ls) + 1, 1>>
    IN /\ Len(s) = 0 => first = end
       /\ Len(s) # 0 => s[1] = first /\ After(ls, s[Len(s)]) = end
       /\ \A j \in 1 .. Len(s) : InFrames(ls, s[j])
       /\ \A j \in 1 .. Len(s) - 1 : s[j + 1] = After(ls, s[j])

LEMMA TakeOne ==
    ASSUME NEW ls \in Seq(Nat), NEW s \in Seq(Bytes), NEW first \in Bytes, s # <<>>,
           Unbroken(ls, s, first)
    PROVE  /\ Head(s) = first /\ InFrames(ls, first)
           /\ Tail(s) \in Seq(Bytes) /\ After(ls, first) \in Bytes
           /\ Unbroken(ls, Tail(s), After(ls, first))
<1> DEFINE t == Tail(s)
           end == <<Len(ls) + 1, 1>>
<1>1. /\ Len(s) \in Nat \ {0} /\ t \in Seq(Bytes) /\ Len(t) = Len(s) - 1
      /\ \A j \in 1 .. Len(t) : t[j] = s[j + 1]
  BY HeadTailProperties, EmptySeq
<1>2. /\ Len(s) # 0 /\ s[1] = first /\ After(ls, s[Len(s)]) = end
      /\ \A j \in 1 .. Len(s) : InFrames(ls, s[j])
      /\ \A j \in 1 .. Len(s) - 1 : s[j + 1] = After(ls, s[j])
  BY <1>1 DEF Unbroken
<1>3. Head(s) = first /\ InFrames(ls, first)
  BY <1>1, <1>2
<1>4. After(ls, first) \in Bytes
  <2>1. first[1] \in Nat /\ first[2] \in Nat
    BY DEF Bytes
  <2>2. <<first[1], first[2] + 1>> \in Bytes /\ <<first[1] + 1, 1>> \in Bytes
    BY <2>1 DEF Bytes
  <2> QED
    BY <2>2 DEF After
<1> HIDE DEF t
<1>5. Len(t) = 0 => After(ls, first) = end
  <2>1. Len(t) = 0 => Len(s) = 1
    BY <1>1
  <2> HIDE DEF end
  <2> QED
    BY <1>2, <2>1
<1>6. Len(t) # 0 => t[1] = After(ls, first) /\ After(ls, t[Len(t)]) = end
  <2>1. SUFFICES ASSUME Len(t) # 0
                 PROVE  t[1] = After(ls, first) /\ After(ls, t[Len(t)]) = end
    OBVIOUS
  <2>2. Len(t) \in Nat \ {0} /\ Len(s) = Len(t) + 1
    BY <1>1, <2>1
  <2>3. t[1] = s[2] /\ s[2] = After(ls, s[1])
    BY <1>1, <1>2, <2>2
  <2>4. t[Len(t)] = s[Len(s)]
    BY <1>1, <2>2
  <2> QED
    BY <1>2, <2>3, <2>4
<1>7. ASSUME NEW j \in 1 .. Len(t)
      PROVE  InFrames(ls, t[j])
  <2>1. j + 1 \in 1 .. Len(s) /\ t[j] = s[j + 1]
    BY <1>1
  <2> QED
    BY <1>2, <2>1
<1>8. ASSUME NEW j \in 1 .. Len(t) - 1
      PROVE  t[j + 1] = After(ls, t[j])
  <2>1. j \in 1 .. Len(t) /\ j + 1 \in 1 .. Len(t) /\ j + 1 \in 1 .. Len(s) - 1
    BY <1>1
  <2>2. t[j] = s[j + 1] /\ t[j + 1] = s[(j + 1) + 1]
    BY <1>1, <2>1
  <2> QED
    BY <1>2, <2>1, <2>2
<1>9. Unbroken(ls, t, After(ls, first))
  BY <1>5, <1>6, <1>7, <1>8 DEF Unbroken
<1> QED
  BY <1>1, <1>3, <1>4, <1>9 DEF t

\* The bytes of the frames already written stay what they were when another
\* datagram comes.
LEMMA SameFrames ==
    ASSUME NEW ls \in Seq(Nat), NEW n \in Nat, NEW b \in Bytes, InFrames(ls, b)
    PROVE  InFrames(Append(ls, n), b) /\ After(Append(ls, n), b) = After(ls, b)
<1>1. Append(ls, n) \in Seq(Nat) /\ Len(Append(ls, n)) = Len(ls) + 1
      /\ \A j \in 1 .. Len(ls) : Append(ls, n)[j] = ls[j]
  OBVIOUS
<1> QED
  BY <1>1 DEF InFrames, After, Bytes

LEMMA OneFrameMore ==
    ASSUME NEW ls \in Seq(Nat), NEW s \in Seq(Bytes), NEW first \in Bytes, NEW n \in Nat,
           Unbroken(ls, s, first)
    PROVE  LET frame == [i \in 1 .. 2 + n |-> <<Len(ls) + 1, i>>]
           IN frame \in Seq(Bytes) /\ Unbroken(Append(ls, n), s \o frame, first)
<1> DEFINE p == Len(ls) + 1
           frame == [i \in 1 .. 2 + n |-> <<p, i>>]
           all == Append(ls, n)
           w == s \o frame
           m == Len(s)
<1>1. /\ p \in Nat \ {0} /\ m \in Nat /\ all \in Seq(Nat) /\ Len(all) = p /\ all[p] = n
      /\ frame \in Seq(Bytes) /\ Len(frame) = 2 + n /\ \A i \in 1 .. 2 + n : frame[i] = <<p, i>>
  BY DEF Bytes
<1>2. /\ w \in Seq(Bytes) /\ Len(w) = m + 2 + n
      /\ \A j \in 1 .. m : w[j] = s[j]
      /\ \A j \in m + 1 .. m + 2 + n : w[j] = <<p, j - m>>
  <2> HIDE DEF frame, p
  <2>1. w \in Seq(Bytes) /\ Len(w) = m + 2 + n
    <3>1. w \in Seq(Bytes) /\ Len(w) = Len(s) + Len(frame)
      BY <1>1, ConcatProperties
    <3> HIDE DEF w
    <3> QED
      BY <1>1, <3>1
  <2>2. \A j \in 1 .. m : w[j] = s[j]
    BY <1>1, ConcatProperties
  <2>3. \A j \in m + 1 .. m + 2 + n : w[j] = frame[j - m]
    BY <1>1, ConcatProperties
  <2>4. \A j \in m + 1 .. m + 2 + n : j - m \in 1 .. 2 + n
    BY <1>1
  <2> QED
    BY <1>1, <2>1, <2>2, <2>3, <2>4
<1>3. \A i \in 1 .. 2 + n : /\ InFrames(all, <<p, i>>)
                            /\ After(all, <<p, i>>) = IF i < 2 + n THEN <<p, i + 1>> ELSE <<p + 1, 1>>
  <2> HIDE DEF all, p
  <2> QED
    BY <1>1 DEF InFrames, After
<1>4. /\ m = 0 => first = <<p, 1>>
      /\ m # 0 => s[1] = first /\ After(ls, s[m]) = <<p, 1>>
      /\ \A j \in 1 .. m : InFrames(ls, s[j])
      /\ \A j \in 1 .. m - 1 : s[j + 1] = After(ls, s[j])
  BY <1>1 DEF Unbroken
<1>5. \A j \in 1 .. m : s[j] \in Bytes /\ InFrames(all, s[j]) /\ After(all, s[j]) = After(ls, s[j])
  BY <1>4, SameFrames
<1> HIDE DEF p, frame, all, w, m
<1>6. Len(w) # 0 /\ w[1] = first
  <2>1. CASE m = 0
    <3>1. 1 \in m + 1 .. m + 2 + n /\ 1 - m = 1
      BY <2>1
    <3>2. w[1] = <<p, 1>>
      BY <1>2, <3>1
    <3>3. Len(w) # 0
      BY <1>1, <1>2
    <3> QED
      BY <1>4, <2>1, <3>2, <3>3
  <2>2. CASE m # 0
    <3>1. 1 \in 1 .. m
      BY <1>1, <2>2
    <3> QED
      BY <1>1, <1>2, <1>4, <2>2, <3>1
  <2> QED
    BY <2>1, <2>2
<1>7. After(all, w[Len(w)]) = <<p + 1, 1>>
  <2>1. w[m + 2 + n] = <<p, 2 + n>>
    <3>1. m + 2 + n \in m + 1 .. m + 2 + n /\ (m + 2 + n) - m = 2 + n
      BY <1>1
    <3> QED
      BY <1>2, <3>1
  <2>2. After(all, <<p, 2 + n>>) = <<p + 1, 1>>
    <3>1. 2 + n \in 1 .. 2 + n /\ ~ (2 + n < 2 + n)
      OBVIOUS
    <3> QED
      BY <1>3, <3>1
  <2> QED
    BY <1>2, <2>1, <2>2
<1>8. \A j \in 1 .. Len(w) : InFrames(all, w[j])
  <2>1. SUFFICES ASSUME NEW j \in 1 .. m + 2 + n
                 PROVE  InFrames(all, w[j])
    BY <1>2
  <2>2. CASE j =< m
    BY <1>1, <1>2, <1>5, <2>2
  <2>3. CASE j > m
    <3>1. j \in m + 1 .. m + 2 + n /\ j - m \in 1 .. 2 + n
      BY <1>1, <2>3
    <3> QED
      BY <1>2, <1>3, <3>1
  <2> QED
    BY <1>1, <2>2, <2>3
<1>9. \A j \in 1 .. Len(w) - 1 : w[j + 1] = After(all, w[j])
  <2>1. SUFFICES ASSUME NEW j \in 1 .. m + 1 + n
                 PROVE  w[j + 1] = After(all, w[j])
    BY <1>1, <1>2
  <2>2. CASE j < m
    <3>1. j \in 1 .. m /\ j + 1 \in 1 .. m /\ j \in 1 .. m - 1
      BY <1>1, <2>2
    <3> QED
      BY <1>2, <1>4, <1>5, <3>1
  <2>3. CASE j = m
    <3>1. j \in 1 .. m /\ m # 0 /\ j + 1 \in m + 1 .. m + 2 + n /\ (j + 1) - m = 1
      BY <1>1, <2>3
    <3> QED
      BY <1>2, <1>4, <1>5, <2>3, <3>1
  <2>4. CASE j > m
    <3>1. /\ j \in m + 1 .. m + 2 + n /\ j + 1 \in m + 1 .. m + 2 + n
          /\ j - m \in 1 .. 2 + n /\ j - m < 2 + n /\ (j + 1) - m = (j - m) + 1
      BY <1>1, <2>4, SMTT(30)
    <3>2. w[j] = <<p, j - m>> /\ w[j + 1] = <<p, (j - m) + 1>>
      BY <1>2, <3>1
    <3> QED
      BY <1>3, <3>1, <3>2
  <2> QED
    BY <1>1, <2>2, <2>3, <2>4
<1>10. Unbroken(all, w, first)
  BY <1>1, <1>6, <1>7, <1>8, <1>9 DEF Unbroken
<1> QED
  BY <1>1, <1>10 DEF p, frame, all, w

-----------------------------------------------------------------------------
FrameReaders == [at : {"header", "payload"}, got : Seq(Bytes), length : Nat, payload : Seq(Bytes), seen : Nat]

FrameTypes ==
    /\ lengths \in Seq(Nat)
    /\ frameTodo \in Seq(Bytes) /\ wire \in Seq(Bytes)
    /\ frameReader \in FrameReaders
    /\ received \in Seq(Seq(Bytes))

\* The datagram the reader is at, and how much of its frame it has.
Packet == Len(received) + 1
Begun == IF frameReader.at = "header" THEN Len(frameReader.got) ELSE 2 + frameReader.seen

\* The byte it has to read next.
Due == IF Begun = 0 THEN <<Packet, 1>> ELSE After(lengths, <<Packet, Begun>>)

\* What was written or is about to be, and not read, goes on where the reader is.
GoesOn == Unbroken(lengths, wire \o frameTodo, Due)

\* How many bytes of the payload it has kept.
Filled == IF frameReader.seen < P!Kept THEN frameReader.seen ELSE P!Kept

\* What the reader has is the beginning of one frame.
OneFrame ==
    /\ frameReader.at = "header" =>
          /\ frameReader.payload = <<>> /\ frameReader.seen = 0
          /\ frameReader.got = <<>> \/ frameReader.got = << <<Packet, 1>> >>
    /\ Begun # 0 => Packet =< Len(lengths)
    /\ frameReader.at = "payload" =>
          /\ frameReader.length = lengths[Packet] /\ frameReader.seen =< frameReader.length
          /\ frameReader.payload =
                [i \in 1 .. Filled |-> <<Packet, 2 + i>>]

FrameInv ==
    /\ FrameTypes /\ GoesOn /\ OneFrame
    /\ Len(received) =< Len(lengths)
    /\ P!DatagramsWhole

\* The bytes from the first to the n-th of the payload of datagram p.
LEMMA Payloads ==
    ASSUME NEW p \in Nat, NEW n \in Nat
    PROVE  /\ [i \in 1 .. n |-> <<p, 2 + i>>] \in Seq(Bytes)
           /\ Append([i \in 1 .. n |-> <<p, 2 + i>>], <<p, 2 + (n + 1)>>)
                 = [i \in 1 .. n + 1 |-> <<p, 2 + i>>]
           /\ n = 0 => [i \in 1 .. n |-> <<p, 2 + i>>] = <<>>
<1> DEFINE A == [i \in 1 .. n |-> <<p, 2 + i>>]
           B == [i \in 1 .. n + 1 |-> <<p, 2 + i>>]
           e == <<p, 2 + (n + 1)>>
<1>1. A \in Seq(Bytes) /\ Len(A) = n /\ \A i \in 1 .. n : A[i] = <<p, 2 + i>>
  BY DEF Bytes
<1>2. B \in Seq(Bytes) /\ Len(B) = n + 1 /\ \A i \in 1 .. n + 1 : B[i] = <<p, 2 + i>>
  BY DEF Bytes
<1>3. e \in Bytes
  BY DEF Bytes
<1> HIDE DEF A, B, e
<1>4. /\ Append(A, e) \in Seq(Bytes) /\ Len(Append(A, e)) = n + 1 /\ Append(A, e)[n + 1] = e
      /\ \A i \in 1 .. n : Append(A, e)[i] = A[i]
  BY <1>1, <1>3
<1>5. ASSUME NEW i \in 1 .. n + 1
      PROVE  Append(A, e)[i] = B[i]
  <2>1. CASE i = n + 1
    BY <1>2, <1>4, <2>1 DEF e
  <2>2. CASE i # n + 1
    <3>1. i \in 1 .. n
      BY <2>2
    <3> QED
      BY <1>1, <1>2, <1>4, <3>1
  <2> QED
    BY <2>1, <2>2
<1>6. Append(A, e) = B
  BY <1>2, <1>4, <1>5, SeqEqual
<1>7. n = 0 => A = <<>>
  BY <1>1, EmptySeq
<1> QED
  BY <1>1, <1>6, <1>7 DEF A, B, e

LEMMA FrameInitInv == P!Init => FrameInv
<1> SUFFICES ASSUME P!Init
             PROVE  FrameInv
  OBVIOUS
<1>1. /\ lengths = <<>> /\ frameTodo = <<>> /\ wire = <<>> /\ received = <<>>
      /\ frameReader = [at |-> "header", got |-> <<>>, length |-> 0, payload |-> <<>>, seen |-> 0]
  BY DEF P!Init, P!Fresh
<1>2. /\ <<>> \in Seq(Nat) /\ <<>> \in Seq(Bytes) /\ <<>> \in Seq(Seq(Bytes)) /\ Len(<<>>) = 0
  BY EmptySeq
<1>3. FrameTypes
  BY <1>1, <1>2 DEF FrameTypes, FrameReaders
<1>4. Begun = 0 /\ Packet = 1 /\ Due = <<1, 1>>
  BY <1>1, <1>2 DEF Begun, Packet, Due
<1>5. GoesOn
  <2>1. wire \o frameTodo = <<>>
    BY <1>1, <1>2, ConcatEmptySeq
  <2> QED
    BY <1>1, <1>2, <1>4, <2>1 DEF GoesOn, Unbroken
<1>6. OneFrame
  BY <1>1, <1>4 DEF OneFrame
<1>7. P!DatagramsWhole
  BY <1>1 DEF P!DatagramsWhole
<1> QED
  BY <1>1, <1>2, <1>3, <1>5, <1>6, <1>7 DEF FrameInv

\* The reader's place is in the frame it has begun.
LEMMA BegunFits ==
    ASSUME FrameInv
    PROVE  /\ Packet \in Nat \ {0} /\ Begun \in Nat /\ Due \in Bytes /\ Len(lengths) \in Nat
           /\ \A k \in 1 .. Len(lengths) : lengths[k] \in Nat
           /\ Begun # 0 => Packet \in 1 .. Len(lengths) /\ InFrames(lengths, <<Packet, Begun>>)
<1>1. /\ FrameTypes /\ OneFrame
  BY DEF FrameInv
<1>2. /\ frameReader.at \in {"header", "payload"} /\ frameReader.got \in Seq(Bytes)
      /\ frameReader.seen \in Nat /\ Len(received) \in Nat /\ Len(lengths) \in Nat
      /\ \A k \in 1 .. Len(lengths) : lengths[k] \in Nat
  BY <1>1 DEF FrameTypes, FrameReaders
<1>3. frameReader.at = "header" => Begun \in {0, 1}
  <2>1. Len(<<>>) = 0 /\ Len(<< <<Packet, 1>> >>) = 1
    OBVIOUS
  <2> QED
    BY <1>1, <2>1 DEF OneFrame, Begun
<1>4. Packet \in Nat \ {0} /\ Begun \in Nat
  BY <1>2 DEF Packet, Begun
<1>5. ASSUME Begun # 0
      PROVE  Packet \in 1 .. Len(lengths) /\ InFrames(lengths, <<Packet, Begun>>)
  <2>1. Packet \in 1 .. Len(lengths) /\ lengths[Packet] \in Nat
    BY <1>1, <1>2, <1>4, <1>5 DEF OneFrame
  <2>2. Begun \in 1 .. 2 + lengths[Packet]
    <3>1. CASE frameReader.at = "header"
      BY <1>3, <1>5, <2>1, <3>1
    <3>2. CASE frameReader.at = "payload"
      BY <1>1, <1>2, <2>1, <3>2 DEF OneFrame, Begun
    <3> QED
      BY <1>2, <3>1, <3>2
  <2> QED
    BY <2>1, <2>2 DEF InFrames
<1>6. Due \in Bytes
  <2>1. <<Packet, 1>> \in Bytes /\ <<Packet, Begun + 1>> \in Bytes /\ <<Packet + 1, 1>> \in Bytes
    BY <1>4 DEF Bytes
  <2> QED
    BY <2>1 DEF Due, After
<1> QED
  BY <1>2, <1>4, <1>5, <1>6

LEMMA HeadOfBoth ==
    ASSUME NEW s \in Seq(Bytes), NEW t \in Seq(Bytes), s # <<>>
    PROVE  s \o t # <<>> /\ Head(s \o t) = Head(s) /\ Tail(s \o t) = Tail(s) \o t
<1> DEFINE w == s \o t
           u == Tail(w)
           v == Tail(s) \o t
<1>1. Len(s) \in Nat \ {0} /\ Len(t) \in Nat /\ Tail(s) \in Seq(Bytes) /\ Len(Tail(s)) = Len(s) - 1
      /\ \A i \in 1 .. Len(Tail(s)) : Tail(s)[i] = s[i + 1]
  BY HeadTailProperties, EmptySeq, LenProperties
<1>2. /\ w \in Seq(Bytes) /\ Len(w) = Len(s) + Len(t)
      /\ \A i \in 1 .. Len(s) + Len(t) : w[i] = IF i <= Len(s) THEN s[i] ELSE t[i - Len(s)]
  BY ConcatProperties
<1>3. /\ v \in Seq(Bytes) /\ Len(v) = Len(Tail(s)) + Len(t)
      /\ \A i \in 1 .. Len(Tail(s)) + Len(t) :
            v[i] = IF i <= Len(Tail(s)) THEN Tail(s)[i] ELSE t[i - Len(Tail(s))]
  BY <1>1, ConcatProperties
<1> HIDE DEF w, v
<1>4. w # <<>>
  BY <1>1, <1>2, EmptySeq
<1>5. u \in Seq(Bytes) /\ Len(u) = Len(w) - 1 /\ \A i \in 1 .. Len(u) : u[i] = w[i + 1]
  BY <1>2, <1>4, HeadTailProperties
<1> HIDE DEF u
<1>6. Len(u) = Len(v)
  BY <1>1, <1>2, <1>3, <1>5
<1>7. ASSUME NEW i \in 1 .. Len(u)
      PROVE  u[i] = v[i]
  <2>1. /\ i \in Nat \ {0} /\ i \in 1 .. Len(Tail(s)) + Len(t) /\ i + 1 \in 1 .. Len(s) + Len(t)
        /\ u[i] = w[i + 1]
    BY <1>1, <1>2, <1>3, <1>5, <1>6
  <2>2. CASE i =< Len(Tail(s))
    <3>1. i + 1 =< Len(s) /\ i \in 1 .. Len(Tail(s))
      BY <1>1, <2>1, <2>2
    <3> QED
      BY <1>1, <1>2, <1>3, <2>1, <2>2, <3>1
  <2>3. CASE ~ (i =< Len(Tail(s)))
    <3>1. ~ (i + 1 =< Len(s)) /\ (i + 1) - Len(s) = i - Len(Tail(s))
      BY <1>1, <2>1, <2>3
    <3> QED
      BY <1>2, <1>3, <2>1, <2>3, <3>1
  <2> QED
    BY <2>2, <2>3
<1>8. u = v
  BY <1>3, <1>5, <1>6, <1>7, SeqEqual
<1>9. Head(w) = Head(s)
  <2>1. w[1] = s[1]
    BY <1>1, <1>2
  <2> QED
    BY <1>2, <1>4, <2>1
<1> QED
  BY <1>4, <1>8, <1>9 DEF w, u, v

\* What the reader takes from the wire is the byte it is due.
LEMMA TakesTheDue ==
    ASSUME FrameInv, P!Take, UNCHANGED <<lengths, frameTodo>>
    PROVE  /\ Head(wire) = Due /\ InFrames(lengths, Due) /\ wire' \in Seq(Bytes)
           /\ Unbroken(lengths, wire' \o frameTodo, After(lengths, Due))
<1>1. /\ lengths \in Seq(Nat) /\ wire \in Seq(Bytes) /\ frameTodo \in Seq(Bytes)
      /\ wire # <<>> /\ wire' = Tail(wire)
      /\ Unbroken(lengths, wire \o frameTodo, Due)
  BY DEF FrameInv, FrameTypes, GoesOn, P!Take
<1>2. wire \o frameTodo \in Seq(Bytes) /\ Due \in Bytes
  BY <1>1, BegunFits, ConcatProperties
<1>3. /\ wire \o frameTodo # <<>> /\ Head(wire \o frameTodo) = Head(wire)
      /\ Tail(wire \o frameTodo) = wire' \o frameTodo
  BY <1>1, HeadOfBoth
<1>4. /\ Head(wire \o frameTodo) = Due /\ InFrames(lengths, Due)
      /\ Unbroken(lengths, Tail(wire \o frameTodo), After(lengths, Due))
  BY <1>1, <1>2, <1>3, TakeOne
<1>5. wire' \in Seq(Bytes)
  BY <1>1, HeadTailProperties
<1> QED
  BY <1>3, <1>4, <1>5

\* Steps of the reader within its frame.
LEMMA WithinFrame ==
    ASSUME FrameInv, P!Take, UNCHANGED <<lengths, frameTodo, received>>, Begun' = Begun + 1,
           \/ Begun = 0
           \/ Begun # 0 /\ Begun < 2 + lengths[Packet]
    PROVE  /\ Head(wire) = <<Packet, Begun + 1>> /\ Packet \in 1 .. Len(lengths)
           /\ wire' \in Seq(Bytes) /\ GoesOn' /\ Packet' = Packet
<1>1. /\ Head(wire) = Due /\ InFrames(lengths, Due) /\ wire' \in Seq(Bytes)
      /\ Unbroken(lengths, wire' \o frameTodo, After(lengths, Due))
  BY TakesTheDue
<1>2. Packet \in Nat \ {0} /\ Begun \in Nat
  BY BegunFits
<1>3. Due = <<Packet, Begun + 1>>
  BY <1>2 DEF Due, After
<1>4. Packet \in 1 .. Len(lengths)
  BY <1>1, <1>3 DEF InFrames
<1>5. Packet' = Packet
  BY DEF Packet
<1>6. Due' = After(lengths, <<Packet, Begun + 1>>)
  <2>1. Begun' # 0 /\ lengths' = lengths
    BY <1>2
  <2> QED
    BY <1>5, <2>1 DEF Due, After
<1>7. GoesOn'
  BY <1>1, <1>3, <1>6 DEF GoesOn
<1> QED
  BY <1>1, <1>3, <1>4, <1>5, <1>7

LEMMA WritePacketStep ==
    ASSUME FrameInv, NEW n \in 0 .. MaxLength, P!WritePacket(n)
    PROVE  FrameInv'
<1>1. /\ FrameTypes /\ GoesOn /\ OneFrame /\ Len(received) =< Len(lengths) /\ P!DatagramsWhole
      /\ n \in Nat
  BY DEF FrameInv
<1>2. /\ frameTodo = <<>> /\ lengths' = Append(lengths, n)
      /\ frameTodo' = [i \in 1 .. 2 + n |-> <<Len(lengths) + 1, i>>]
      /\ wire' = wire /\ frameReader' = frameReader /\ received' = received
  BY DEF P!WritePacket, P!Header
<1>3. /\ lengths \in Seq(Nat) /\ lengths' \in Seq(Nat) /\ Len(lengths') = Len(lengths) + 1
      /\ \A k \in 1 .. Len(lengths) : lengths'[k] = lengths[k]
      /\ Len(lengths) \in Nat /\ Len(received) \in Nat
  BY <1>1, <1>2 DEF FrameTypes
<1>4. Packet' = Packet /\ Begun' = Begun /\ Filled' = Filled
  BY <1>2 DEF Packet, Begun, Filled, P!Kept
<1>5. Due' = Due
  <2>1. CASE Begun = 0
    BY <1>4, <2>1 DEF Due
  <2>2. CASE Begun # 0
    <3>1. <<Packet, Begun>> \in Bytes /\ InFrames(lengths, <<Packet, Begun>>)
      BY <2>2, BegunFits DEF Bytes
    <3>2. After(lengths', <<Packet, Begun>>) = After(lengths, <<Packet, Begun>>)
      BY <1>1, <1>2, <1>3, <3>1, SameFrames
    <3> QED
      BY <1>4, <2>2, <3>2 DEF Due
  <2> QED
    BY <2>1, <2>2
<1>6. frameTodo' \in Seq(Bytes) /\ GoesOn'
  <2>1. wire \in Seq(Bytes) /\ wire \o frameTodo = wire
    BY <1>1, <1>2, ConcatEmptySeq DEF FrameTypes
  <2>2. Unbroken(lengths, wire, Due) /\ Due \in Bytes
    BY <1>1, <2>1, BegunFits DEF GoesOn
  <2>3. frameTodo' \in Seq(Bytes) /\ Unbroken(lengths', wire \o frameTodo', Due)
    BY <1>1, <1>2, <1>3, <2>1, <2>2, OneFrameMore
  <2> QED
    BY <1>2, <1>5, <2>3 DEF GoesOn
<1>7. FrameTypes'
  BY <1>1, <1>2, <1>3, <1>6 DEF FrameTypes
<1>8. OneFrame'
  <2>1. Begun # 0 => Packet \in 1 .. Len(lengths) /\ lengths'[Packet] = lengths[Packet]
    BY <1>3, BegunFits
  <2>2. frameReader.at = "payload" => Begun # 0
    <3>1. frameReader.seen \in Nat
      BY <1>1 DEF FrameTypes, FrameReaders
    <3> QED
      BY <3>1 DEF Begun
  <2> QED
    BY <1>1, <1>2, <1>3, <1>4, <2>1, <2>2 DEF OneFrame
<1>9. P!DatagramsWhole'
  <2>1. SUFFICES ASSUME NEW k \in DOMAIN received
                 PROVE  received[k] = [i \in 1 .. (IF lengths'[k] < Buffer THEN lengths'[k] ELSE Buffer)
                                          |-> <<k, P!Header + i>>]
    BY <1>2 DEF P!DatagramsWhole
  <2>2. k \in 1 .. Len(lengths)
    <3>1. received \in Seq(Seq(Bytes))
      BY <1>1 DEF FrameTypes
    <3>2. k \in 1 .. Len(received)
      BY <3>1, LenProperties
    <3> QED
      BY <1>1, <1>3, <3>2
  <2>3. lengths'[k] = lengths[k]
    BY <1>3, <2>2
  <2> QED
    BY <1>1, <2>3 DEF P!DatagramsWhole
<1> QED
  BY <1>1, <1>2, <1>3, <1>6, <1>7, <1>8, <1>9 DEF FrameInv

LEMMA WriteSomeStep == FrameInv /\ P!WriteSome => FrameInv'
<1> SUFFICES ASSUME FrameInv, P!WriteSome
             PROVE  FrameInv'
  OBVIOUS
<1>1. FrameTypes /\ GoesOn /\ OneFrame /\ Len(received) =< Len(lengths) /\ P!DatagramsWhole
  BY DEF FrameInv
<1>2. PICK n \in 1 .. Len(frameTodo) :
         wire' = wire \o SubSeq(frameTodo, 1, n) /\ frameTodo' = SubSeq(frameTodo, n + 1, Len(frameTodo))
  BY DEF P!WriteSome
<1>3. lengths' = lengths /\ frameReader' = frameReader /\ received' = received
  BY DEF P!WriteSome
<1>4. wire \in Seq(Bytes) /\ frameTodo \in Seq(Bytes) /\ Len(frameTodo) \in Nat
  BY <1>1, LenProperties DEF FrameTypes
<1>5. SubSeq(frameTodo, 1, n) \in Seq(Bytes) /\ frameTodo' \in Seq(Bytes)
  <2>1. \A i \in 1 .. Len(frameTodo) : frameTodo[i] \in Bytes
    BY <1>4, ElementOfSeq
  <2>2. SubSeq(frameTodo, 1, n) \in Seq(Bytes)
    <3>1. \A i \in 1 .. n : frameTodo[i] \in Bytes
      BY <1>4, <2>1
    <3> QED
      BY <3>1, SubSeqProperties
  <2>3. SubSeq(frameTodo, n + 1, Len(frameTodo)) \in Seq(Bytes)
    <3>1. \A i \in n + 1 .. Len(frameTodo) : frameTodo[i] \in Bytes
      BY <1>4, <2>1
    <3>2. n + 1 \in Int /\ Len(frameTodo) \in Int
      BY <1>4
    <3> QED
      BY <3>1, <3>2, SubSeqProperties
  <2> QED
    BY <1>2, <2>2, <2>3
<1>6. SubSeq(frameTodo, 1, n) \o frameTodo' = frameTodo
  <2>1. 1 \in 1 .. Len(frameTodo) + 1 /\ n \in 1 - 1 .. Len(frameTodo)
        /\ Len(frameTodo) \in n .. Len(frameTodo)
    BY <1>4
  <2>2. SubSeq(frameTodo, 1, n) \o SubSeq(frameTodo, n + 1, Len(frameTodo))
           = SubSeq(frameTodo, 1, Len(frameTodo))
    BY <1>4, <2>1, ConcatAdjacentSubSeq
  <2> QED
    BY <1>2, <1>4, <2>2, SubSeqFull
<1>7. wire' \in Seq(Bytes) /\ wire' \o frameTodo' = wire \o frameTodo
  <2> DEFINE sent == SubSeq(frameTodo, 1, n)
  <2>1. wire' = wire \o sent /\ sent \o frameTodo' = frameTodo /\ sent \in Seq(Bytes)
    BY <1>2, <1>5, <1>6
  <2> HIDE DEF sent
  <2>2. (wire \o sent) \o frameTodo' = wire \o (sent \o frameTodo')
    <3>1. wire \in Seq(Bytes) /\ sent \in Seq(Bytes) /\ frameTodo' \in Seq(Bytes)
      BY <1>4, <1>5, <2>1
    <3>2. \A s, t, u \in Seq(Bytes) : (s \o t) \o u = s \o (t \o u)
      BY ConcatAssociative, SMTT(30)
    <3> QED
      BY <3>1, <3>2
  <2>3. wire \o sent \in Seq(Bytes)
    BY <1>4, <2>1, ConcatProperties
  <2> QED
    BY <2>1, <2>2, <2>3
<1>8. Packet' = Packet /\ Begun' = Begun /\ Filled' = Filled
  BY <1>3 DEF Packet, Begun, Filled, P!Kept
<1>9. GoesOn'
  <2>1. Due' = Due
    BY <1>3, <1>8 DEF Due
  <2> QED
    BY <1>1, <1>3, <1>7, <2>1 DEF GoesOn
<1>10. FrameTypes' /\ OneFrame' /\ P!DatagramsWhole'
  BY <1>1, <1>3, <1>5, <1>7, <1>8 DEF FrameTypes, OneFrame, P!DatagramsWhole
<1> QED
  BY <1>1, <1>3, <1>9, <1>10 DEF FrameInv

LEMMA ReadHeaderStep == FrameInv /\ P!ReadHeader => FrameInv'
<1> SUFFICES ASSUME FrameInv, P!ReadHeader
             PROVE  FrameInv'
  OBVIOUS
<1>1. /\ FrameTypes /\ GoesOn /\ OneFrame /\ Len(received) =< Len(lengths) /\ P!DatagramsWhole
      /\ lengths \in Seq(Nat) /\ frameTodo \in Seq(Bytes) /\ received \in Seq(Seq(Bytes))
      /\ frameReader \in FrameReaders
  BY DEF FrameInv, FrameTypes
<1>2. /\ frameReader.at = "header" /\ P!Take
      /\ lengths' = lengths /\ frameTodo' = frameTodo /\ received' = received
  BY DEF P!ReadHeader
<1>3. frameReader.payload = <<>> /\ frameReader.seen = 0
      /\ (frameReader.got = <<>> \/ frameReader.got = << <<Packet, 1>> >>)
  BY <1>1, <1>2 DEF OneFrame
<1>4. Packet \in Nat \ {0} /\ \A k \in 1 .. Len(lengths) : lengths[k] \in Nat
  BY BegunFits
<1>5. CASE frameReader.got = <<>>
  <2>1. frameReader' = [frameReader EXCEPT !.got = <<Head(wire)>>]
    BY <1>5 DEF P!ReadHeader
  <2>2. frameReader'.at = "header" /\ frameReader'.got = <<Head(wire)>>
        /\ frameReader'.payload = <<>> /\ frameReader'.seen = 0
    BY <1>1, <1>2, <1>3, <2>1 DEF FrameReaders
  <2>3. Begun = 0 /\ Begun' = 1
    <3>1. Len(<<>>) = 0 /\ Len(<<Head(wire)>>) = 1
      OBVIOUS
    <3> QED
      BY <1>2, <1>5, <2>2, <3>1 DEF Begun
  <2>4. /\ Head(wire) = <<Packet, 1>> /\ Packet \in 1 .. Len(lengths)
        /\ wire' \in Seq(Bytes) /\ GoesOn' /\ Packet' = Packet
    BY <1>2, <2>3, WithinFrame
  <2>5. frameReader' \in FrameReaders
    <3>1. <<Packet, 1>> \in Bytes
      BY <1>4 DEF Bytes
    <3>2. <<Head(wire)>> \in Seq(Bytes)
      BY <2>4, <3>1
    <3> QED
      BY <1>1, <2>1, <3>2 DEF FrameReaders
  <2>6. OneFrame'
    BY <1>2, <2>2, <2>4 DEF OneFrame
  <2> QED
    BY <1>1, <1>2, <2>4, <2>5, <2>6 DEF FrameInv, FrameTypes, P!DatagramsWhole
<1>6. CASE frameReader.got # <<>>
  <2>1. frameReader.got = << <<Packet, 1>> >>
    BY <1>3, <1>6
  <2>2. Begun = 1
    BY <1>2, <2>1 DEF Begun
  <2>3. Packet \in 1 .. Len(lengths) /\ lengths[Packet] \in Nat
    BY <1>4, <2>2, BegunFits
  <2>4. PICK n \in P!Says(frameReader.got[1], Head(wire)) :
           frameReader' = [frameReader EXCEPT !.at = "payload", !.length = n]
    BY <1>6 DEF P!ReadHeader
  <2>5. /\ frameReader'.at = "payload" /\ frameReader'.length = n /\ frameReader'.seen = 0
        /\ frameReader'.payload = <<>>
    BY <1>1, <1>3, <2>4 DEF FrameReaders
  <2>6. Begun' = 2
    BY <2>5 DEF Begun
  <2>7. /\ Head(wire) = <<Packet, 2>> /\ wire' \in Seq(Bytes) /\ GoesOn' /\ Packet' = Packet
    BY <1>2, <2>2, <2>3, <2>6, WithinFrame
  <2>8. n = lengths[Packet]
    <3>1. frameReader.got[1] = <<Packet, 1>>
      BY <2>1
    <3> QED
      BY <2>4, <2>7, <3>1 DEF P!Says
  <2>9. frameReader' \in FrameReaders
    BY <1>1, <2>3, <2>4, <2>8 DEF FrameReaders
  <2>10. Filled' = 0
    <3>1. P!Kept' \in Nat
      BY <2>3, <2>5, <2>8, PartsAssumption DEF P!Kept
    <3> QED
      BY <2>5, <3>1 DEF Filled
  <2>11. OneFrame'
    <3>1. [i \in 1 .. 0 |-> <<Packet, 2 + i>>] = <<>>
      BY <1>4, Payloads
    <3> QED
      BY <1>2, <2>3, <2>5, <2>7, <2>8, <2>10, <3>1 DEF OneFrame
  <2> QED
    BY <1>1, <1>2, <2>7, <2>9, <2>11 DEF FrameInv, FrameTypes, P!DatagramsWhole
<1> QED
  BY <1>5, <1>6

\* What is known of the reader in the payload.
LEMMA InPayload ==
    ASSUME FrameInv, frameReader.at = "payload"
    PROVE  /\ Packet \in 1 .. Len(lengths) /\ lengths[Packet] \in Nat
           /\ frameReader.length = lengths[Packet]
           /\ frameReader.seen \in Nat /\ frameReader.seen =< lengths[Packet]
           /\ Begun = 2 + frameReader.seen /\ Begun # 0
           /\ frameReader.payload = [i \in 1 .. Filled |-> <<Packet, 2 + i>>]
           /\ P!Kept \in Nat /\ P!Kept =< lengths[Packet]
<1>1. FrameTypes /\ OneFrame
  BY DEF FrameInv
<1>2. frameReader.seen \in Nat
  BY <1>1 DEF FrameTypes, FrameReaders
<1>3. Begun = 2 + frameReader.seen /\ Begun # 0
  BY <1>2 DEF Begun
<1>4. Packet \in 1 .. Len(lengths) /\ lengths[Packet] \in Nat
  BY <1>3, BegunFits
<1>5. /\ frameReader.length = lengths[Packet] /\ frameReader.seen =< frameReader.length
      /\ frameReader.payload = [i \in 1 .. Filled |-> <<Packet, 2 + i>>]
  BY <1>1 DEF OneFrame
<1>6. P!Kept \in Nat /\ P!Kept =< lengths[Packet]
  BY <1>4, <1>5, PartsAssumption DEF P!Kept
<1> QED
  BY <1>2, <1>3, <1>4, <1>5, <1>6

LEMMA ReadPayloadStep == FrameInv /\ P!ReadPayload => FrameInv'
<1> SUFFICES ASSUME FrameInv, P!ReadPayload
             PROVE  FrameInv'
  OBVIOUS
<1>1. /\ FrameTypes /\ OneFrame /\ Len(received) =< Len(lengths) /\ P!DatagramsWhole
      /\ lengths \in Seq(Nat) /\ frameTodo \in Seq(Bytes) /\ received \in Seq(Seq(Bytes))
      /\ frameReader \in FrameReaders
  BY DEF FrameInv, FrameTypes
<1>2. /\ frameReader.at = "payload" /\ frameReader.seen < P!Kept /\ P!Take
      /\ frameReader' = [frameReader EXCEPT !.payload = Append(@, Head(wire)), !.seen = @ + 1]
      /\ lengths' = lengths /\ frameTodo' = frameTodo /\ received' = received
  BY DEF P!ReadPayload
<1> DEFINE seen == frameReader.seen
<1>3. /\ Packet \in 1 .. Len(lengths) /\ lengths[Packet] \in Nat /\ Packet \in Nat
      /\ frameReader.length = lengths[Packet] /\ seen \in Nat /\ seen =< lengths[Packet]
      /\ Begun = 2 + seen /\ Begun # 0
      /\ frameReader.payload = [i \in 1 .. Filled |-> <<Packet, 2 + i>>]
      /\ P!Kept \in Nat /\ P!Kept =< lengths[Packet]
  BY <1>2, InPayload, BegunFits
<1>4. /\ frameReader'.at = "payload" /\ frameReader'.seen = seen + 1
      /\ frameReader'.length = lengths[Packet]
      /\ frameReader'.payload = Append(frameReader.payload, Head(wire))
  BY <1>1, <1>2, <1>3 DEF FrameReaders
<1>5. Begun' = Begun + 1 /\ Begun < 2 + lengths[Packet] /\ seen + 1 =< lengths[Packet]
  BY <1>2, <1>3, <1>4 DEF Begun
<1>6. /\ Head(wire) = <<Packet, 2 + (seen + 1)>> /\ wire' \in Seq(Bytes) /\ GoesOn'
      /\ Packet' = Packet
  <2>1. /\ Head(wire) = <<Packet, Begun + 1>> /\ wire' \in Seq(Bytes) /\ GoesOn' /\ Packet' = Packet
    BY <1>2, <1>3, <1>5, WithinFrame
  <2>2. Begun + 1 = 2 + (seen + 1)
    BY <1>3
  <2> QED
    BY <2>1, <2>2
<1>7. Filled = seen /\ Filled' = seen + 1
  <2>1. P!Kept' = P!Kept
    BY <1>3, <1>4 DEF P!Kept
  <2> QED
    BY <1>2, <1>3, <1>4, <2>1 DEF Filled
<1> HIDE DEF seen
<1>8. frameReader'.payload = [i \in 1 .. seen + 1 |-> <<Packet, 2 + i>>]
      /\ frameReader'.payload \in Seq(Bytes)
  <2>1. frameReader'.payload = Append([i \in 1 .. seen |-> <<Packet, 2 + i>>], <<Packet, 2 + (seen + 1)>>)
    BY <1>3, <1>4, <1>6, <1>7
  <2>2. seen \in Nat /\ seen + 1 \in Nat /\ Packet \in Nat
    BY <1>3
  <2>3. Append([i \in 1 .. seen |-> <<Packet, 2 + i>>], <<Packet, 2 + (seen + 1)>>)
           = [i \in 1 .. seen + 1 |-> <<Packet, 2 + i>>]
    BY <2>2, Payloads
  <2>4. [i \in 1 .. seen + 1 |-> <<Packet, 2 + i>>] \in Seq(Bytes)
    BY <2>2, Payloads
  <2> QED
    BY <2>1, <2>3, <2>4
<1>9. frameReader' \in FrameReaders
  <2>1. seen + 1 \in Nat /\ frameReader.seen = seen
    BY <1>3 DEF seen
  <2>2. frameReader' = [frameReader EXCEPT !.payload = frameReader'.payload, !.seen = seen + 1]
    BY <1>1, <1>2, <2>1 DEF FrameReaders
  <2> QED
    BY <1>1, <1>8, <2>1, <2>2 DEF FrameReaders
<1>10. OneFrame'
  <2>1. Packet =< Len(lengths)
    BY <1>3
  <2> QED
    BY <1>2, <1>4, <1>5, <1>6, <1>7, <1>8, <2>1 DEF OneFrame
<1> QED
  BY <1>1, <1>2, <1>6, <1>9, <1>10 DEF FrameInv, FrameTypes, P!DatagramsWhole

LEMMA DiscardStep == FrameInv /\ P!Discard => FrameInv'
<1> SUFFICES ASSUME FrameInv, P!Discard
             PROVE  FrameInv'
  OBVIOUS
<1>1. /\ FrameTypes /\ OneFrame /\ Len(received) =< Len(lengths) /\ P!DatagramsWhole
      /\ lengths \in Seq(Nat) /\ frameTodo \in Seq(Bytes) /\ received \in Seq(Seq(Bytes))
      /\ frameReader \in FrameReaders
  BY DEF FrameInv, FrameTypes
<1>2. /\ frameReader.at = "payload" /\ P!Kept =< frameReader.seen
      /\ frameReader.seen < frameReader.length /\ P!Take
      /\ frameReader' = [frameReader EXCEPT !.seen = @ + 1]
      /\ lengths' = lengths /\ frameTodo' = frameTodo /\ received' = received
  BY DEF P!Discard
<1>3. /\ Packet \in 1 .. Len(lengths) /\ lengths[Packet] \in Nat
      /\ frameReader.length = lengths[Packet] /\ frameReader.seen \in Nat
      /\ Begun = 2 + frameReader.seen /\ Begun # 0
      /\ frameReader.payload = [i \in 1 .. Filled |-> <<Packet, 2 + i>>]
      /\ P!Kept \in Nat
  BY <1>2, InPayload
<1>4. /\ frameReader'.at = "payload" /\ frameReader'.seen = frameReader.seen + 1
      /\ frameReader'.length = lengths[Packet] /\ frameReader'.payload = frameReader.payload
      /\ frameReader' \in FrameReaders
  <2>1. frameReader' = [frameReader EXCEPT !.seen = frameReader.seen + 1]
    BY <1>2
  <2>2. frameReader.seen + 1 \in Nat
    BY <1>3
  <2> QED
    BY <1>1, <1>2, <1>3, <2>1, <2>2 DEF FrameReaders
<1>5. Begun' = Begun + 1 /\ Begun < 2 + lengths[Packet] /\ frameReader'.seen =< lengths[Packet]
  BY <1>2, <1>3, <1>4 DEF Begun
<1>6. wire' \in Seq(Bytes) /\ GoesOn' /\ Packet' = Packet
  BY <1>2, <1>3, <1>5, WithinFrame
<1>7. Filled' = Filled
  <2>1. P!Kept' = P!Kept
    BY <1>3, <1>4 DEF P!Kept
  <2> QED
    BY <1>2, <1>3, <1>4, <2>1 DEF Filled
<1>8. OneFrame'
  <2>1. Packet =< Len(lengths)
    BY <1>3
  <2> QED
    BY <1>2, <1>3, <1>4, <1>5, <1>6, <1>7, <2>1 DEF OneFrame
<1> QED
  BY <1>1, <1>2, <1>4, <1>6, <1>8 DEF FrameInv, FrameTypes, P!DatagramsWhole

LEMMA ReturnStep == FrameInv /\ P!Return => FrameInv'
<1> SUFFICES ASSUME FrameInv, P!Return
             PROVE  FrameInv'
  OBVIOUS
<1>1. /\ FrameTypes /\ GoesOn /\ OneFrame /\ Len(received) =< Len(lengths) /\ P!DatagramsWhole
      /\ lengths \in Seq(Nat) /\ wire \in Seq(Bytes) /\ frameTodo \in Seq(Bytes)
      /\ received \in Seq(Seq(Bytes)) /\ frameReader \in FrameReaders
      /\ Len(received) \in Nat /\ Len(lengths) \in Nat
  BY LenProperties DEF FrameInv, FrameTypes
<1>2. /\ frameReader.at = "payload" /\ frameReader.seen = frameReader.length
      /\ received' = Append(received, frameReader.payload)
      /\ frameReader' = [at |-> "header", got |-> <<>>, length |-> 0, payload |-> <<>>, seen |-> 0]
      /\ lengths' = lengths /\ frameTodo' = frameTodo /\ wire' = wire
  BY DEF P!Return, P!Fresh
<1>3. /\ Packet \in 1 .. Len(lengths) /\ lengths[Packet] \in Nat
      /\ frameReader.length = lengths[Packet]
      /\ Begun = 2 + lengths[Packet] /\ Begun # 0
      /\ frameReader.payload = [i \in 1 .. Filled |-> <<Packet, 2 + i>>]
  BY <1>2, InPayload
<1>4. Filled = IF lengths[Packet] < Buffer THEN lengths[Packet] ELSE Buffer
  BY <1>2, <1>3, PartsAssumption DEF Filled, P!Kept
<1>5. frameReader.payload \in Seq(Bytes)
  BY <1>1 DEF FrameReaders
<1>6. /\ received' \in Seq(Seq(Bytes)) /\ Len(received') = Packet
      /\ received'[Packet] = frameReader.payload
      /\ \A k \in 1 .. Len(received) : received'[k] = received[k]
  BY <1>1, <1>2, <1>5 DEF Packet
<1>7. Packet' = Packet + 1 /\ Begun' = 0
  <2>1. Len(<<>>) = 0
    OBVIOUS
  <2> QED
    BY <1>2, <1>6, <2>1 DEF Packet, Begun
<1>8. GoesOn'
  <2>1. Due = <<Packet + 1, 1>>
    BY <1>3 DEF Due, After
  <2>2. Due' = <<Packet + 1, 1>>
    BY <1>7 DEF Due
  <2> QED
    BY <1>1, <1>2, <2>1, <2>2 DEF GoesOn
<1>9. FrameTypes'
  <2>1. <<>> \in Seq(Bytes)
    OBVIOUS
  <2> QED
    BY <1>1, <1>2, <1>6, <2>1 DEF FrameTypes, FrameReaders
<1>10. OneFrame'
  BY <1>2, <1>7 DEF OneFrame
<1>11. P!DatagramsWhole'
  <2>1. SUFFICES ASSUME NEW k \in 1 .. Packet
                 PROVE  received'[k] = [i \in 1 .. (IF lengths[k] < Buffer THEN lengths[k] ELSE Buffer)
                                           |-> <<k, 2 + i>>]
    <3>1. DOMAIN received' = 1 .. Packet
      BY <1>6, LenProperties
    <3> QED
      BY <1>2, <3>1 DEF P!DatagramsWhole, P!Header
  <2>2. CASE k = Packet
    BY <1>3, <1>4, <1>6, <2>2
  <2>3. CASE k # Packet
    <3>1. k \in 1 .. Len(received)
      BY <1>1, <2>3 DEF Packet
    <3>2. k \in DOMAIN received
      BY <1>1, <3>1, LenProperties
    <3> QED
      BY <1>1, <1>6, <3>1, <3>2 DEF P!DatagramsWhole, P!Header
  <2> QED
    BY <2>2, <2>3
<1> QED
  BY <1>2, <1>3, <1>6, <1>8, <1>9, <1>10, <1>11 DEF FrameInv

LEMMA FrameStepInv == FrameInv /\ [P!Next]_(P!vars) => FrameInv'
<1>1. FrameInv /\ UNCHANGED <<lengths, frameTodo, wire, frameReader, received>> => FrameInv'
  BY DEF FrameInv, FrameTypes, GoesOn, OneFrame, Packet, Begun, Due, Filled, P!Kept, P!DatagramsWhole
<1>2. P!Close \/ UNCHANGED P!vars => UNCHANGED <<lengths, frameTodo, wire, frameReader, received>>
  BY DEF P!Close, P!vars
<1> QED
  BY <1>1, <1>2, WritePacketStep, WriteSomeStep, ReadHeaderStep, ReadPayloadStep, DiscardStep,
     ReturnStep DEF P!Next

\* However the stream cuts the frames up and whenever it is closed, each datagram
\* comes out once, in order, and with its own bytes: as many as the buffer holds.
THEOREM AlwaysDatagramsWhole == P!Spec => []DatagramsWhole
<1>1. FrameInv => DatagramsWhole
  BY DEF FrameInv, DatagramsWhole
<1> QED
  BY <1>1, FrameInitInv, FrameStepInv, PTL DEF P!Spec

\* No datagram is longer than the header can say.
Short ==
    /\ \A k \in 1 .. Len(lengths) : lengths[k] =< MaxLength
    /\ frameReader.at = "header" => frameReader.seen = 0

LEMMA ShortStays == FrameInv /\ Short /\ [P!Next]_(P!vars) => Short'
<1> SUFFICES ASSUME FrameInv, Short, [P!Next]_(P!vars)
             PROVE  Short'
  OBVIOUS
<1>0. lengths \in Seq(Nat) /\ frameReader \in FrameReaders /\ FrameInv'
  BY FrameStepInv DEF FrameInv, FrameTypes
<1>1. CASE lengths' = lengths
  BY <1>0, <1>1 DEF Short, FrameInv, OneFrame
<1>2. CASE \E n \in 0 .. MaxLength : P!WritePacket(n)
  <2>1. PICK n \in 0 .. MaxLength : lengths' = Append(lengths, n) /\ frameReader' = frameReader
    BY <1>2 DEF P!WritePacket
  <2>2. n =< MaxLength
    BY <2>1, PartsAssumption
  <2>3. \A k \in 1 .. Len(lengths') : lengths'[k] = IF k = Len(lengths) + 1 THEN n ELSE lengths[k]
    BY <1>0, <2>1
  <2>4. \A k \in 1 .. Len(lengths') : k = Len(lengths) + 1 \/ k \in 1 .. Len(lengths)
    BY <1>0, <2>1
  <2> QED
    BY <2>1, <2>2, <2>3, <2>4 DEF Short
<1>3. lengths' = lengths \/ \E n \in 0 .. MaxLength : P!WritePacket(n)
  BY DEF P!Next, P!WriteSome, P!ReadHeader, P!ReadPayload, P!Discard, P!Return, P!Close, P!vars
<1> QED
  BY <1>1, <1>2, <1>3

\* The reader has read no more of a datagram than there can be, and returned no
\* more datagrams than were written.
THEOREM FrameTypeCorrect == P!Spec => []P!TypeOK
<1>1. P!Init => Short
  BY DEF P!Init, P!Fresh, Short
<1>2. FrameInv /\ Short => P!TypeOK
  <2> SUFFICES ASSUME FrameInv, Short
               PROVE  P!TypeOK
    OBVIOUS
  <2>1. frameReader \in FrameReaders /\ Len(received) =< Len(lengths)
    BY DEF FrameInv, FrameTypes
  <2>2. CASE frameReader.at = "header"
    BY <2>1, <2>2, PartsAssumption DEF Short, P!TypeOK, FrameReaders
  <2>3. CASE frameReader.at = "payload"
    <3>1. Begun # 0 /\ Begun \in Nat
      BY <2>1, <2>3 DEF Begun, FrameReaders
    <3>2. Packet \in 1 .. Len(lengths) /\ lengths[Packet] \in Nat
      BY <3>1, BegunFits
    <3>3. frameReader.seen =< lengths[Packet] /\ lengths[Packet] =< MaxLength
      BY <2>3, <3>2 DEF FrameInv, OneFrame, Short
    <3>4. frameReader.seen =< MaxLength
      BY <2>1, <3>2, <3>3, PartsAssumption DEF FrameReaders
    <3> QED
      BY <2>1, <2>3, <3>4 DEF P!TypeOK
  <2> QED
    BY <2>1, <2>2, <2>3 DEF FrameReaders
<1> QED
  BY <1>1, <1>2, FrameInitInv, FrameStepInv, ShortStays, PTL DEF P!Spec

-----------------------------------------------------------------------------
(* Selection: the lists.                                                    *)

NodeNames == {S!Warp} \cup {S!AgentEgress(n) : n \in Agent}

Once(s) == \A i, j \in 1 .. Len(s) : s[i] = s[j] => i = j

\* The elements of a finite set of numbers have the positions 1, 2, ... in it.
LEMMA Ranks ==
    ASSUME NEW A \in SUBSET Int, IsFiniteSet(A)
    PROVE  LET Place(n) == Cardinality({m \in A : m <= n}) IN
           /\ Cardinality(A) \in Nat
           /\ \A n \in A : Place(n) \in 1 .. Cardinality(A)
           /\ \A m, n \in A : Place(m) = Place(n) => m = n
           /\ \A i \in 1 .. Cardinality(A) : \E n \in A : Place(n) = i
<1> DEFINE k == Cardinality(A)
           Upto(n) == {m \in A : m <= n}
           place == [n \in A |-> Cardinality(Upto(n))]
<1>1. k \in Nat
  BY FS_CardinalityType
<1>2. ASSUME NEW n \in A
      PROVE  /\ IsFiniteSet(Upto(n)) /\ place[n] \in 1 .. k
             /\ place[n] = Cardinality(Upto(n))
  <2>1. Upto(n) \in SUBSET A /\ n \in Upto(n)
    OBVIOUS
  <2>2. IsFiniteSet(Upto(n)) /\ Cardinality(Upto(n)) \in Nat /\ Cardinality(Upto(n)) <= k
    BY <2>1, FS_Subset, FS_CardinalityType
  <2>3. Cardinality(Upto(n)) # 0
    BY <2>1, <2>2, FS_EmptySet
  <2> QED
    BY <1>1, <2>2, <2>3
<1>3. ASSUME NEW m \in A, NEW n \in A, m < n
      PROVE  place[m] # place[n]
  <2>1. Upto(m) \in SUBSET Upto(n) /\ n \in Upto(n) /\ n \notin Upto(m)
    <3>1. m \in Int /\ n \in Int /\ \A x \in A : x \in Int
      OBVIOUS
    <3>2. \A x \in A : x <= m => x <= n
      BY <1>3, <3>1
    <3>3. n <= n /\ ~ (n <= m)
      BY <1>3, <3>1
    <3> QED
      BY <3>2, <3>3
  <2>2. Cardinality(Upto(m)) # Cardinality(Upto(n))
    BY <1>2, <2>1, FS_Subset
  <2> QED
    BY <1>2, <2>2
<1>4. \A m, n \in A : place[m] = place[n] => m = n
  BY <1>3
<1>5. place \in Injection(A, 1 .. k)
  BY <1>2, <1>4 DEF Injection, IsInjective
<1>6. IsFiniteSet(1 .. k) /\ Cardinality(1 .. k) = k
  BY <1>1, FS_Interval
<1>7. place \in Surjection(A, 1 .. k)
  BY <1>5, <1>6, FS_Injection
<1>8. \A i \in 1 .. k : \E n \in A : place[n] = i
  BY <1>7 DEF Surjection
<1> QED
  BY <1>1, <1>2, <1>4, <1>8

\* A list without an element it has keeps all the others.
LEMMA WithoutOne ==
    ASSUME NEW X, NEW s \in Seq(X), NEW e
    PROVE  /\ S!Without(s, e) \in Seq(X)
           /\ \A i \in 1 .. Len(S!Without(s, e)) : \E j \in 1 .. Len(s) : S!Without(s, e)[i] = s[j]
           /\ (\E i \in 1 .. Len(s) : s[i] = e) =>
                 /\ Len(S!Without(s, e)) = Len(s) - 1
                 /\ \A j \in 1 .. Len(s) : s[j] # e =>
                       \E i \in 1 .. Len(s) - 1 : S!Without(s, e)[i] = s[j]
<1>1. Len(s) \in Nat /\ DOMAIN s = 1 .. Len(s) /\ \A i \in 1 .. Len(s) : s[i] \in X
  BY LenProperties, ElementOfSeq
<1>2. CASE e \notin S!ToSet(s)
  BY <1>1, <1>2 DEF S!ToSet, S!Without
<1>3. CASE e \in S!ToSet(s)
  <2>1. PICK p \in 1 .. Len(s) : s[p] = e /\ p = CHOOSE i \in DOMAIN s : s[i] = e
    BY <1>1, <1>3 DEF S!ToSet
  <2> DEFINE a == SubSeq(s, 1, p - 1)
             b == SubSeq(s, p + 1, Len(s))
  <2>2. S!Without(s, e) = a \o b
    BY <1>3, <2>1 DEF S!Without, S!RemoveAt
  <2>3. /\ a \in Seq(X) /\ Len(a) = p - 1
        /\ \A i \in 1 .. p - 1 : a[i] = s[i]
    <3>1. 1 \in Int /\ p - 1 \in Int /\ \A i \in 1 .. p - 1 : s[i] \in X
      BY <1>1, <2>1
    <3> QED
      BY <1>1, <2>1, <3>1, SubSeqProperties
  <2>4. /\ b \in Seq(X) /\ Len(b) = Len(s) - p
        /\ \A i \in 1 .. Len(s) - p : b[i] = s[p + i]
    <3>1. p + 1 \in Int /\ Len(s) \in Int /\ \A i \in p + 1 .. Len(s) : s[i] \in X
      BY <1>1, <2>1
    <3>2. /\ b \in Seq(X) /\ Len(b) = (IF p + 1 <= Len(s) THEN Len(s) - (p + 1) + 1 ELSE 0)
          /\ \A i \in 1 .. Len(s) - (p + 1) + 1 : b[i] = s[p + 1 + i - 1]
      BY <3>1, SubSeqProperties
    <3>3. Len(s) - (p + 1) + 1 = Len(s) - p /\ (IF p + 1 <= Len(s) THEN Len(s) - (p + 1) + 1 ELSE 0) = Len(s) - p
      BY <1>1, <2>1
    <3>4. \A i \in 1 .. Len(s) - p : p + 1 + i - 1 = p + i
      BY <1>1, <2>1
    <3> HIDE DEF b
    <3> QED
      BY <3>2, <3>3, <3>4
  <2> HIDE DEF a, b
  <2>5. /\ a \o b \in Seq(X) /\ Len(a \o b) = Len(s) - 1
        /\ \A i \in 1 .. Len(s) - 1 : (a \o b)[i] = IF i < p THEN s[i] ELSE s[i + 1]
    <3>1. /\ a \o b \in Seq(X) /\ Len(a \o b) = Len(a) + Len(b)
          /\ \A i \in 1 .. Len(a) + Len(b) : (a \o b)[i] = IF i <= Len(a) THEN a[i] ELSE b[i - Len(a)]
      BY <2>3, <2>4, ConcatProperties
    <3>2. Len(a) + Len(b) = Len(s) - 1
      BY <1>1, <2>1, <2>3, <2>4
    <3>3. ASSUME NEW i \in 1 .. Len(s) - 1
          PROVE  (a \o b)[i] = IF i < p THEN s[i] ELSE s[i + 1]
      <4>1. (a \o b)[i] = IF i <= Len(a) THEN a[i] ELSE b[i - Len(a)]
        BY <3>1, <3>2
      <4>2. CASE i < p
        BY <1>1, <2>1, <2>3, <4>1, <4>2
      <4>3. CASE ~ (i < p)
        <5>1. i - Len(a) \in 1 .. Len(s) - p /\ p + (i - Len(a)) = i + 1 /\ ~ (i <= Len(a))
          BY <1>1, <2>1, <2>3, <4>3
        <5> QED
          BY <2>4, <4>1, <4>3, <5>1
      <4> QED
        BY <4>2, <4>3
    <3> QED
      BY <3>1, <3>2, <3>3
  <2>6. ASSUME NEW j \in 1 .. Len(s), s[j] # e
        PROVE  \E i \in 1 .. Len(s) - 1 : (a \o b)[i] = s[j]
    <3>1. CASE j < p
      <4>1. j \in 1 .. Len(s) - 1
        BY <1>1, <2>1, <3>1
      <4> QED
        BY <2>5, <3>1, <4>1
    <3>2. CASE j > p
      <4>1. j - 1 \in 1 .. Len(s) - 1 /\ ~ (j - 1 < p) /\ (j - 1) + 1 = j
        BY <1>1, <2>1, <3>2
      <4> QED
        BY <2>5, <4>1
    <3>3. j < p \/ j > p
      BY <1>1, <2>1, <2>6
    <3> QED
      BY <3>1, <3>2, <3>3
  <2>7. \A i \in 1 .. Len(s) - 1 : i \in 1 .. Len(s) /\ i + 1 \in 1 .. Len(s)
    BY <1>1
  <2> QED
    BY <2>2, <2>5, <2>6, <2>7
<1> QED
  BY <1>2, <1>3

\* The nodes: the pool if it has an egress, and the agents that are online,
\* each of them once.
LEMMA SameCount ==
    ASSUME NEW set
    PROVE  S!Cardinality(set) = Cardinality(set)
BY DEF S!Cardinality, Cardinality

LEMMA NodeList ==
    ASSUME online \subseteq Agent
    PROVE  /\ S!Nodes \in Seq(NodeNames) /\ Once(S!Nodes)
           /\ \A n \in online : \E i \in 1 .. Len(S!Nodes) : S!Nodes[i] = S!AgentEgress(n)
           /\ S!Warp \in S!ToSet(S!Nodes) => S!Pool # {}
           /\ \A i \in 1 .. Len(S!Nodes) : S!Nodes[i] # S!Warp =>
                  \E n \in online : S!Nodes[i] = S!AgentEgress(n)
<1> DEFINE k == Cardinality(online)
           Place(n) == Cardinality({m \in online : m <= n})
           id(i) == CHOOSE n \in online : S!Cardinality({m \in online : m <= n}) = i
           front == IF S!Pool # {} THEN <<S!Warp>> ELSE <<>>
           agents == S!OnlineEgresses
<1>1. online \in SUBSET Int /\ IsFiniteSet(online)
  BY SelectionAssumption, FS_Subset
<1>2. /\ k \in Nat
      /\ \A n \in online : Place(n) \in 1 .. k
      /\ \A m, n \in online : Place(m) = Place(n) => m = n
      /\ \A i \in 1 .. k : \E n \in online : Place(n) = i
  BY <1>1, Ranks
<1>3. \A i \in 1 .. k : id(i) \in online /\ Place(id(i)) = i
  <2>1. \A n \in online : S!Cardinality({m \in online : m <= n}) = Place(n)
    BY SameCount
  <2> HIDE DEF Place
  <2>2. \A i \in 1 .. k : \E n \in online : S!Cardinality({m \in online : m <= n}) = i
    BY <1>2, <2>1
  <2>3. \A i \in 1 .. k : id(i) \in online /\ S!Cardinality({m \in online : m <= id(i)}) = i
    BY <2>2
  <2> HIDE DEF id
  <2> QED
    BY <2>1, <2>3
<1>4. agents = [i \in 1 .. k |-> S!AgentEgress(id(i))]
  BY SameCount DEF S!OnlineEgresses
<1> HIDE DEF Place, id
<1>5. \A n \in online : Place(n) \in 1 .. k /\ id(Place(n)) = n
  BY <1>2, <1>3
<1> HIDE DEF k, agents
<1>6. \A m, n : S!AgentEgress(m) = S!AgentEgress(n) => m = n
  BY DEF S!AgentEgress
<1>7. \A n : S!AgentEgress(n) # S!Warp
  BY DEF S!AgentEgress, S!Warp
<1>8. /\ agents \in Seq(NodeNames) /\ Len(agents) = k
      /\ \A i \in 1 .. k : agents[i] = S!AgentEgress(id(i))
  BY <1>2, <1>3, <1>4 DEF NodeNames
<1>9. /\ front \in Seq(NodeNames) /\ Len(front) = (IF S!Pool # {} THEN 1 ELSE 0)
      /\ \A i \in 1 .. Len(front) : front[i] = S!Warp
  <2>1. CASE S!Pool # {}
    BY <2>1 DEF NodeNames
  <2>2. CASE S!Pool = {}
    BY <2>2 DEF NodeNames
  <2> QED
    BY <2>1, <2>2
<1> HIDE DEF front
<1>10. /\ S!Nodes \in Seq(NodeNames) /\ Len(S!Nodes) = Len(front) + k
       /\ \A i \in 1 .. Len(front) + k : S!Nodes[i] = IF i <= Len(front) THEN front[i] ELSE agents[i - Len(front)]
  <2>1. S!Nodes = front \o agents
    BY DEF S!Nodes, front, agents
  <2> QED
    BY <1>8, <1>9, <2>1, ConcatProperties
<1>11. ASSUME NEW i \in 1 .. Len(S!Nodes), i > Len(front)
       PROVE  i - Len(front) \in 1 .. k /\ S!Nodes[i] = S!AgentEgress(id(i - Len(front)))
  <2>1. k \in Nat /\ Len(front) \in Nat /\ i \in 1 .. Len(front) + k
    BY <1>2, <1>9, <1>10
  <2>2. i - Len(front) \in 1 .. k
    BY <1>11, <2>1
  <2>3. S!Nodes[i] = agents[i - Len(front)]
    BY <1>10, <1>11, <2>1
  <2> QED
    BY <1>8, <2>2, <2>3
<1>12. ASSUME NEW i \in 1 .. Len(S!Nodes), ~ (i > Len(front))
       PROVE  i = 1 /\ Len(front) = 1 /\ S!Pool # {} /\ S!Nodes[i] = S!Warp
  BY <1>2, <1>9, <1>10, <1>12
<1>13. ASSUME NEW i \in 1 .. Len(S!Nodes), NEW j \in 1 .. Len(S!Nodes), S!Nodes[i] = S!Nodes[j]
       PROVE  i = j
  <2>1. CASE i > Len(front) /\ j > Len(front)
    <3>1. id(i - Len(front)) = id(j - Len(front))
      BY <1>6, <1>11, <1>13, <2>1
    <3>2. i - Len(front) = j - Len(front)
      BY <1>3, <1>11, <2>1, <3>1
    <3> QED
      BY <1>2, <1>9, <1>10, <3>2
  <2>2. CASE ~ (i > Len(front)) /\ ~ (j > Len(front))
    BY <1>12, <2>2
  <2>3. CASE (i > Len(front)) # (j > Len(front))
    BY <1>7, <1>11, <1>12, <1>13, <2>3
  <2> QED
    BY <2>1, <2>2, <2>3
<1>14. ASSUME NEW n \in online
       PROVE  \E i \in 1 .. Len(S!Nodes) : S!Nodes[i] = S!AgentEgress(n)
  <2>1. Place(n) + Len(front) \in 1 .. Len(S!Nodes) /\ Place(n) + Len(front) > Len(front)
        /\ (Place(n) + Len(front)) - Len(front) = Place(n)
    BY <1>2, <1>9, <1>10
  <2> QED
    BY <1>5, <1>11, <2>1
<1>15. \A i \in 1 .. Len(S!Nodes) : S!Nodes[i] # S!Warp => \E n \in online : S!Nodes[i] = S!AgentEgress(n)
  BY <1>3, <1>11, <1>12
<1>16. S!Warp \in S!ToSet(S!Nodes) => S!Pool # {}
  <2>1. DOMAIN S!Nodes = 1 .. Len(S!Nodes)
    BY <1>10, LenProperties
  <2> QED
    BY <1>7, <1>11, <1>12, <2>1 DEF S!ToSet
<1> QED
  BY <1>10, <1>13, <1>14, <1>15, <1>16 DEF Once

\* The tunnels of the pool, in any order.
LEMMA RankedLists ==
    ASSUME running \subseteq Tunnel, NEW tunnels \in S!Ranked
    PROVE  /\ tunnels \in Seq(S!Egress)
           /\ S!Pool # {} => tunnels # <<>>
<1>1. S!Pool \subseteq Tunnel /\ IsFiniteSet(S!Pool)
  <2>1. S!Pool \subseteq Tunnel
    BY DEF S!Pool
  <2> QED
    BY <2>1, SelectionAssumption, FS_Subset
<1> DEFINE k == Cardinality(S!Pool)
<1>2. k \in Nat /\ (k = 0 <=> S!Pool = {})
  BY <1>1, FS_CardinalityType, FS_EmptySet
<1>3. PICK s \in S!SetToSeqs(S!Pool) : tunnels = [i \in DOMAIN s |-> S!TunnelEgress(s[i])]
  BY DEF S!Ranked
<1>4. s \in [1 .. k -> S!Pool]
  BY <1>3, SameCount DEF S!SetToSeqs
<1> HIDE DEF k
<1>5. tunnels = [i \in 1 .. k |-> S!TunnelEgress(s[i])]
  BY <1>3, <1>4
<1>6. tunnels \in Seq(S!Egress) /\ Len(tunnels) = k
  BY <1>1, <1>2, <1>4, <1>5 DEF S!Egress
<1> QED
  BY <1>2, <1>6, EmptySeq

\* The chain of a slot begins with its own tunnel while that runs.
LEMMA SlotList ==
    ASSUME running \subseteq Tunnel, bound \in Tunnel, NEW tunnels \in S!Ranked
    PROVE  /\ S!SlotChain(tunnels) \in Seq(S!Egress)
           /\ bound \in running =>
                  S!SlotChain(tunnels) # <<>> /\ Head(S!SlotChain(tunnels)) = S!TunnelEgress(bound)
<1> DEFINE e == S!TunnelEgress(bound)
           others == S!Without(tunnels, e)
<1>1. others \in Seq(S!Egress)
  BY RankedLists, WithoutOne
<1>2. e \in S!Egress
  BY DEF S!Egress
<1>3. S!SlotChain(tunnels) = IF bound \in running THEN <<e>> \o others ELSE others
  BY DEF S!SlotChain
<1> HIDE DEF others, e
<1>4. <<e>> \o others \in Seq(S!Egress) /\ <<e>> \o others # <<>> /\ Head(<<e>> \o others) = e
  <2>1. <<e>> \in Seq(S!Egress) /\ Len(<<e>>) = 1 /\ <<e>>[1] = e
    BY <1>2
  <2>2. Len(others) \in Nat
    BY <1>1, LenProperties
  <2>3. /\ <<e>> \o others \in Seq(S!Egress) /\ Len(<<e>> \o others) = 1 + Len(others)
        /\ (<<e>> \o others)[1] = e
    BY <1>1, <2>1, <2>2, ConcatProperties
  <2> QED
    BY <2>2, <2>3, HeadTailProperties, EmptySeq
<1> QED
  BY <1>1, <1>3, <1>4 DEF e

\* The chain of the automatic choice has no more than MaxAttempts candidates,
\* and when there are no more nodes than that, every agent among them.
LEMMA RotateList ==
    ASSUME online \subseteq Agent, running \subseteq Tunnel,
           NEW tunnels \in S!Ranked, NEW node \in S!ToSet(S!Nodes)
    PROVE  /\ S!RotateChain(node, tunnels) \in Seq(S!Egress)
           /\ S!RotateChain(node, tunnels) # <<>>
           /\ Len(S!RotateChain(node, tunnels)) \in Nat /\ Len(S!RotateChain(node, tunnels)) <= 3
           /\ Len(S!Nodes) <= 3 =>
                 \A n \in online : \E i \in 1 .. Len(S!RotateChain(node, tunnels)) :
                     S!RotateChain(node, tunnels)[i] = S!AgentEgress(n)
<1> DEFINE own == IF node = S!Warp THEN tunnels ELSE <<node>>
           others == S!Without(S!Nodes, node)
           heads == [i \in DOMAIN others |->
                        IF others[i] = S!Warp THEN Head(tunnels) ELSE others[i]]
           chain == <<Head(own)>> \o heads \o Tail(own)
           k == Len(S!Nodes)
           cut == IF Len(chain) < 3 THEN Len(chain) ELSE 3
<1>1. S!RotateChain(node, tunnels) = SubSeq(chain, 1, cut)
  BY DEF S!RotateChain, S!MaxAttempts
<1>2. /\ S!Nodes \in Seq(NodeNames) /\ k \in Nat
      /\ \A n \in online : \E i \in 1 .. k : S!Nodes[i] = S!AgentEgress(n)
      /\ S!Warp \in S!ToSet(S!Nodes) => S!Pool # {}
      /\ \A i \in 1 .. k : S!Nodes[i] # S!Warp => \E n \in online : S!Nodes[i] = S!AgentEgress(n)
      /\ \A i \in 1 .. k : S!Nodes[i] \in S!ToSet(S!Nodes)
      /\ \E i \in 1 .. k : S!Nodes[i] = node
  BY NodeList, LenProperties DEF S!ToSet
<1>3. tunnels \in Seq(S!Egress) /\ (S!Pool # {} => tunnels # <<>>)
  BY RankedLists
<1>4. S!Pool # {} => Head(tunnels) \in S!Egress
  BY <1>3, HeadTailProperties
<1>5. \A n : S!AgentEgress(n) # S!Warp
  BY DEF S!AgentEgress, S!Warp
<1>6. \A n \in online : S!AgentEgress(n) \in S!Egress
  BY DEF S!Egress
<1>7. /\ others \in Seq(NodeNames) /\ Len(others) = k - 1 /\ DOMAIN others = 1 .. k - 1
      /\ \A i \in 1 .. k - 1 : \E j \in 1 .. k : others[i] = S!Nodes[j]
      /\ \A j \in 1 .. k : S!Nodes[j] # node => \E i \in 1 .. k - 1 : others[i] = S!Nodes[j]
  <2>1. \E i \in 1 .. Len(S!Nodes) : S!Nodes[i] = node
    BY <1>2
  <2>2. /\ others \in Seq(NodeNames) /\ Len(others) = Len(S!Nodes) - 1
        /\ \A i \in 1 .. Len(others) : \E j \in 1 .. Len(S!Nodes) : others[i] = S!Nodes[j]
        /\ \A j \in 1 .. Len(S!Nodes) : S!Nodes[j] # node =>
              \E i \in 1 .. Len(S!Nodes) - 1 : others[i] = S!Nodes[j]
    <3>1. S!Nodes \in Seq(NodeNames)
      BY <1>2
    <3> HIDE DEF others
    <3> QED
      BY <2>1, <3>1, WithoutOne DEF others
  <2> HIDE DEF others
  <2> QED
    BY <2>2, LenProperties
<1> HIDE DEF others, k
<1>8. /\ heads \in Seq(S!Egress) /\ Len(heads) = k - 1
      /\ \A i \in 1 .. k - 1 : others[i] # S!Warp => heads[i] = others[i]
  <2>1. ASSUME NEW i \in 1 .. k - 1
        PROVE  (IF others[i] = S!Warp THEN Head(tunnels) ELSE others[i]) \in S!Egress
    BY <1>2, <1>4, <1>6, <1>7
  <2>2. k - 1 \in Nat
    BY <1>2
  <2> QED
    BY <1>7, <2>1, <2>2
<1> HIDE DEF heads
<1>9. /\ own \in Seq(S!Egress) /\ own # <<>>
      /\ node # S!Warp => Head(own) = node
  <2>1. CASE node = S!Warp
    BY <1>2, <1>3, <2>1
  <2>2. CASE node # S!Warp
    <3>1. node \in S!Egress
      BY <1>2, <1>6, <2>2
    <3> QED
      BY <2>2, <3>1
  <2> QED
    BY <2>1, <2>2
<1> HIDE DEF own
<1>10. Head(own) \in S!Egress /\ Tail(own) \in Seq(S!Egress) /\ Len(Tail(own)) \in Nat
  BY <1>9, HeadTailProperties, LenProperties
<1>11. /\ <<Head(own)>> \o heads \in Seq(S!Egress) /\ Len(<<Head(own)>> \o heads) = k
       /\ (<<Head(own)>> \o heads)[1] = Head(own)
       /\ \A i \in 1 .. k - 1 : (<<Head(own)>> \o heads)[i + 1] = heads[i]
  <2> DEFINE one == <<Head(own)>>
  <2>1. one \in Seq(S!Egress) /\ Len(one) = 1 /\ one[1] = Head(own)
    BY <1>10
  <2> HIDE DEF one
  <2>2. /\ one \o heads \in Seq(S!Egress) /\ Len(one \o heads) = 1 + (k - 1)
        /\ \A i \in 1 .. 1 + (k - 1) : (one \o heads)[i] = IF i <= 1 THEN one[i] ELSE heads[i - 1]
    <3>1. /\ one \o heads \in Seq(S!Egress) /\ Len(one \o heads) = Len(one) + Len(heads)
          /\ \A i \in 1 .. Len(one) + Len(heads) :
                (one \o heads)[i] = IF i <= Len(one) THEN one[i] ELSE heads[i - Len(one)]
      BY <1>8, <2>1, ConcatProperties
    <3> QED
      BY <1>8, <2>1, <3>1
  <2>3. 1 + (k - 1) = k /\ 1 \in 1 .. k
    BY <1>2
  <2>4. \A i \in 1 .. k - 1 : i + 1 \in 1 .. k /\ ~ (i + 1 <= 1) /\ (i + 1) - 1 = i
    BY <1>2
  <2> QED
    BY <2>1, <2>2, <2>3, <2>4 DEF one
<1>12. /\ chain \in Seq(S!Egress) /\ Len(chain) = k + Len(Tail(own)) /\ k >= 1
       /\ \A i \in 1 .. k : chain[i] = (<<Head(own)>> \o heads)[i]
  <2> DEFINE first == <<Head(own)>> \o heads
             rest == Tail(own)
  <2>0. first \in Seq(S!Egress) /\ Len(first) = k /\ rest \in Seq(S!Egress)
    BY <1>10, <1>11
  <2> HIDE DEF first, rest
  <2>1. /\ first \o rest \in Seq(S!Egress) /\ Len(first \o rest) = k + Len(rest)
        /\ \A i \in 1 .. k + Len(rest) :
              (first \o rest)[i] = IF i <= k THEN first[i] ELSE rest[i - k]
    <3>1. /\ first \o rest \in Seq(S!Egress) /\ Len(first \o rest) = Len(first) + Len(rest)
          /\ \A i \in 1 .. Len(first) + Len(rest) :
                (first \o rest)[i] = IF i <= Len(first) THEN first[i] ELSE rest[i - Len(first)]
      BY <2>0, ConcatProperties
    <3> QED
      BY <2>0, <3>1
  <2>2. k >= 1 /\ \A i \in 1 .. k : i \in 1 .. k + Len(Tail(own)) /\ i <= k
    BY <1>2, <1>10
  <2> QED
    BY <2>1, <2>2 DEF first, rest
<1> HIDE DEF chain
<1>13. /\ cut \in 1 .. Len(chain) /\ cut <= 3 /\ (k <= 3 => k <= cut)
  BY <1>2, <1>10, <1>12
<1> HIDE DEF cut
<1>14. /\ SubSeq(chain, 1, cut) \in Seq(S!Egress) /\ Len(SubSeq(chain, 1, cut)) = cut
       /\ \A i \in 1 .. cut : SubSeq(chain, 1, cut)[i] = chain[i]
  <2>1. cut \in Int /\ 1 <= cut /\ \A i \in 1 .. cut : chain[i] \in S!Egress
    <3>1. Len(chain) \in Nat /\ \A i \in 1 .. Len(chain) : chain[i] \in S!Egress
      BY <1>12, ElementOfSeq, LenProperties
    <3> QED
      BY <1>13, <3>1
  <2>2. /\ SubSeq(chain, 1, cut) \in Seq(S!Egress)
        /\ Len(SubSeq(chain, 1, cut)) = IF 1 <= cut THEN cut - 1 + 1 ELSE 0
        /\ \A i \in 1 .. cut - 1 + 1 : SubSeq(chain, 1, cut)[i] = chain[1 + i - 1]
    BY <2>1, SubSeqProperties
  <2>3. cut - 1 + 1 = cut /\ \A i \in 1 .. cut : 1 + i - 1 = i
    BY <2>1
  <2> QED
    BY <2>1, <2>2, <2>3
<1>15. ASSUME NEW n \in online
       PROVE  \E i \in 1 .. k : chain[i] = S!AgentEgress(n)
  <2>1. PICK j \in 1 .. k : S!Nodes[j] = S!AgentEgress(n)
    BY <1>2
  <2>2. CASE S!Nodes[j] = node
    <3>1. 1 \in 1 .. k
      BY <1>2
    <3>2. chain[1] = S!Nodes[j]
      BY <1>5, <1>9, <1>11, <1>12, <2>1, <2>2, <3>1
    <3> QED
      BY <2>1, <3>1, <3>2
  <2>3. CASE S!Nodes[j] # node
    <3>1. PICK i \in 1 .. k - 1 : others[i] = S!Nodes[j]
      BY <1>7, <2>3
    <3>2. heads[i] = S!AgentEgress(n)
      BY <1>5, <1>8, <2>1, <3>1
    <3>3. i + 1 \in 1 .. k
      BY <1>2
    <3> QED
      BY <1>11, <1>12, <3>2, <3>3
  <2> QED
    BY <2>2, <2>3
<1>16. k <= 3 => \A i \in 1 .. k : i \in 1 .. cut
  BY <1>2, <1>12, <1>13
<1>17. SubSeq(chain, 1, cut) # <<>>
  BY <1>13, <1>14, <1>12, LenProperties, EmptySeq
<1>18. cut \in Nat
  BY <1>12, <1>13, LenProperties
<1> QED
  BY <1>1, <1>13, <1>14, <1>15, <1>16, <1>17, <1>18 DEF k

LEMMA Division ==
    ASSUME NEW c \in Nat, NEW k \in Nat \ {0}
    PROVE  /\ c % k \in 0 .. k - 1
           /\ c \div k \in Nat /\ c = k * (c \div k) + (c % k)
OBVIOUS
LEMMA Remainder ==
    ASSUME NEW c \in Nat, NEW k \in Nat \ {0}, NEW q \in Nat, NEW r \in 0 .. k - 1, c = k * q + r
    PROVE c % k = r
OBVIOUS
\* The cursor goes round.
LEMMA NextTurn ==
    ASSUME NEW c \in Nat, NEW k \in Nat \ {0}
    PROVE  /\ c % k \in 0 .. k - 1
           /\ (c + 1) % k = IF (c % k) + 1 = k THEN 0 ELSE (c % k) + 1
<1> DEFINE q == c \div k
           r == c % k
<1>1. q \in Nat /\ r \in 0 .. k - 1 /\ c = k * q + r
  BY Division
<1> HIDE DEF q, r
<1>2. CASE r + 1 = k
  <2>1. c + 1 = k * (q + 1) + 0
    BY <1>1, <1>2
  <2>2. (c + 1) % k = 0
    BY <1>1, <2>1, Remainder
  <2> QED
    BY <1>2, <1>1, <2>2 DEF r
<1>3. CASE r + 1 # k
  <2>1. r + 1 \in 0 .. k - 1 /\ c + 1 = k * q + (r + 1)
    BY <1>1, <1>3
  <2>2. (c + 1) % k = r + 1
    BY <1>1, <2>1, Remainder
  <2> QED
    BY <1>3, <1>1, <2>2 DEF r
<1> QED
  BY <1>2, <1>3

-----------------------------------------------------------------------------
(* Selection: the turns.                                                    *)

\* The places from first up to at, around the end of the list.
Ahead(first, at, j) ==
    IF first <= at THEN first <= j /\ j < at ELSE first <= j \/ j < at

\* Every node was given a number of clients, and those from first up to the
\* cursor one more.
Laps(first, low) ==
    \A i \in 1 .. Len(round.nodes) :
        round.given[round.nodes[i]] =
            low + (IF Ahead(first, cursor % Len(round.nodes), i - 1) THEN 1 ELSE 0)

Even ==
    /\ cursor \in Nat
    /\ round.nodes \in Seq(NodeNames) /\ Once(round.nodes)
    /\ round.given \in [S!ToSet(round.nodes) -> Nat]
    /\ round.nodes # <<>> =>
          \E first \in 0 .. Len(round.nodes) - 1, low \in Nat : Laps(first, low)

LEMMA EvenSpread == Even => S!SpreadsEvenly
<1> SUFFICES ASSUME Even, NEW m \in DOMAIN round.given, NEW n \in DOMAIN round.given
             PROVE  round.given[m] <= round.given[n] + 1
  BY DEF S!SpreadsEvenly
<1>1. m \in S!ToSet(round.nodes) /\ n \in S!ToSet(round.nodes)
  BY DEF Even
<1>2. DOMAIN round.nodes = 1 .. Len(round.nodes)
  BY LenProperties DEF Even
<1>3. PICK i, j \in 1 .. Len(round.nodes) : m = round.nodes[i] /\ n = round.nodes[j]
  BY <1>1, <1>2 DEF S!ToSet
<1>4. round.nodes # <<>>
  BY <1>3, EmptySeq DEF Even
<1>5. PICK first \in 0 .. Len(round.nodes) - 1, low \in Nat : Laps(first, low)
  BY <1>4 DEF Even
<1>6. round.given[m] \in {low, low + 1} /\ round.given[n] \in {low, low + 1}
  BY <1>3, <1>5 DEF Laps
<1> QED
  BY <1>5, <1>6

\* A list of nodes begins its round anywhere.
LEMMA FreshLaps ==
    ASSUME NEW nodes \in Seq(NodeNames), NEW given, nodes # <<>>, cursor \in Nat,
           given = [n \in S!ToSet(nodes) |-> 0],
           NEW i \in 1 .. Len(nodes)
    PROVE  given[nodes[i]] =
               0 + (IF Ahead(cursor % Len(nodes), cursor % Len(nodes), i - 1) THEN 1 ELSE 0)
<1>1. Len(nodes) \in Nat \ {0} /\ DOMAIN nodes = 1 .. Len(nodes)
  BY EmptySeq, LenProperties
<1>2. cursor % Len(nodes) \in 0 .. Len(nodes) - 1
  BY <1>1, NextTurn
<1>3. ~ Ahead(cursor % Len(nodes), cursor % Len(nodes), i - 1)
  BY <1>1, <1>2 DEF Ahead
<1>4. nodes[i] \in S!ToSet(nodes)
  BY <1>1 DEF S!ToSet
<1> QED
  BY <1>3, <1>4

\* A node takes the cursor's turn.
LEMMA GivenStep ==
    ASSUME Even, online \subseteq Agent, NEW c \in Client, S!Nodes # <<>>,
           S!Assign(c), S!Given(c)
    PROVE  Even'
<1> DEFINE nodes == S!Nodes
           k == Len(nodes)
           at == cursor % k
           given == IF round.nodes = nodes THEN round.given ELSE [n \in S!ToSet(nodes) |-> 0]
<1>1. CASE S!Held(c)
  <2>1. round' = round /\ cursor' = cursor
    BY <1>1 DEF S!Assign, S!Given
  <2> QED
    BY <2>1 DEF Even, Laps
<1>2. CASE ~ S!Held(c)
  <2>1. /\ nodes \in Seq(NodeNames) /\ Once(nodes)
        /\ k \in Nat \ {0} /\ DOMAIN nodes = 1 .. k /\ cursor \in Nat
    BY NodeList, EmptySeq, LenProperties DEF Even
  <2>2. /\ cursor' = cursor + 1
        /\ round'.nodes = nodes
        /\ round'.given = [given EXCEPT ![nodes[at + 1]] = @ + 1]
    BY <1>2 DEF S!Assign, S!Given, S!Pick
  <2> HIDE DEF nodes
  <2>3. PICK first \in 0 .. k - 1, low \in Nat :
           \A i \in 1 .. k : given[nodes[i]] = low + (IF Ahead(first, at, i - 1) THEN 1 ELSE 0)
    <3>1. CASE round.nodes = nodes
      <4>1. nodes # <<>>
        BY <2>1, EmptySeq
      <4> QED
        BY <3>1, <4>1 DEF Even, Laps
    <3>2. CASE round.nodes # nodes
      <4>1. nodes # <<>> /\ at \in 0 .. k - 1
        BY <2>1, EmptySeq, NextTurn
      <4>2. given = [n \in S!ToSet(nodes) |-> 0]
        BY <3>2
      <4> HIDE DEF given
      <4>3. \A i \in 1 .. k : given[nodes[i]] = 0 + (IF Ahead(at, at, i - 1) THEN 1 ELSE 0)
        BY <2>1, <4>1, <4>2, FreshLaps
      <4> HIDE DEF at, k
      <4> QED
        BY <4>1, <4>3
    <3> QED
      BY <3>1, <3>2
  <2>4. given \in [S!ToSet(nodes) -> Nat]
    BY DEF Even
  <2>5. /\ at \in 0 .. k - 1
        /\ cursor' % k = IF at + 1 = k THEN 0 ELSE at + 1
    BY <2>1, <2>2, NextTurn
  <2> HIDE DEF given, at, k
  <2>6. at + 1 \in 1 .. k
    BY <2>1, <2>5
  <2>7. \A i \in 1 .. k : nodes[i] \in S!ToSet(nodes)
    BY <2>1 DEF S!ToSet
  <2>8. round'.given \in [S!ToSet(nodes) -> Nat]
    BY <2>2, <2>4, <2>6, <2>7
  <2>9. \A i \in 1 .. k : round'.given[nodes[i]] =
                              IF i - 1 = at THEN given[nodes[i]] + 1 ELSE given[nodes[i]]
    <3> SUFFICES ASSUME NEW i \in 1 .. k
                 PROVE  round'.given[nodes[i]] =
                              IF i - 1 = at THEN given[nodes[i]] + 1 ELSE given[nodes[i]]
      OBVIOUS
    <3>1. nodes[i] = nodes[at + 1] <=> i = at + 1
      BY <2>1, <2>6 DEF Once, k
    <3>2. i = at + 1 <=> i - 1 = at
      BY <2>1, <2>5
    <3> QED
      BY <2>2, <2>4, <2>7, <3>1, <3>2
  <2> DEFINE next == cursor' % k
  <2>10. next = IF at + 1 = k THEN 0 ELSE at + 1
    BY <2>5
  <2> HIDE DEF next
  <2>11. /\ next = first => \A j \in 0 .. k - 1 :
               /\ ~ Ahead(first, next, j)
               /\ IF j = at THEN ~ Ahead(first, at, j) ELSE Ahead(first, at, j)
         /\ next # first => \A j \in 0 .. k - 1 :
               IF j = at THEN ~ Ahead(first, at, j) /\ Ahead(first, next, j)
               ELSE (IF Ahead(first, next, j) THEN 1 ELSE 0) = (IF Ahead(first, at, j) THEN 1 ELSE 0)
    <3>1. k \in Nat \ {0}
      BY <2>1 DEF k
    <3> QED
      BY <2>5, <2>10, <3>1 DEF Ahead
  <2>12. \E f \in 0 .. k - 1, l \in Nat :
            \A i \in 1 .. k : round'.given[nodes[i]] = l + (IF Ahead(f, next, i - 1) THEN 1 ELSE 0)
    <3>0. \A i \in 1 .. k : i - 1 \in 0 .. k - 1
      BY <2>1 DEF k
    <3>1. CASE next = first
      <4>1. \A i \in 1 .. k : round'.given[nodes[i]] = low + 1 /\ ~ Ahead(first, next, i - 1)
        <5> SUFFICES ASSUME NEW i \in 1 .. k
                     PROVE  round'.given[nodes[i]] = low + 1 /\ ~ Ahead(first, next, i - 1)
          OBVIOUS
        <5>1. /\ ~ Ahead(first, next, i - 1)
              /\ IF i - 1 = at THEN ~ Ahead(first, at, i - 1) ELSE Ahead(first, at, i - 1)
          BY <2>11, <3>0, <3>1
        <5> QED
          BY <2>3, <2>9, <5>1
      <4>2. \A i \in 1 .. k : round'.given[nodes[i]] = (low + 1) + (IF Ahead(first, next, i - 1) THEN 1 ELSE 0)
        BY <4>1
      <4>3. low + 1 \in Nat
        OBVIOUS
      <4> QED
        BY <4>2, <4>3
    <3>2. CASE next # first
      <4>1. \A i \in 1 .. k : round'.given[nodes[i]] = low + (IF Ahead(first, next, i - 1) THEN 1 ELSE 0)
        <5> SUFFICES ASSUME NEW i \in 1 .. k
                     PROVE  round'.given[nodes[i]] = low + (IF Ahead(first, next, i - 1) THEN 1 ELSE 0)
          OBVIOUS
        <5>1. IF i - 1 = at THEN ~ Ahead(first, at, i - 1) /\ Ahead(first, next, i - 1)
              ELSE (IF Ahead(first, next, i - 1) THEN 1 ELSE 0) = (IF Ahead(first, at, i - 1) THEN 1 ELSE 0)
          BY <2>11, <3>0, <3>2
        <5> QED
          BY <2>3, <2>9, <5>1
      <4> QED
        BY <4>1
    <3> QED
      BY <3>1, <3>2
  <2> QED
    <3>1. round'.nodes = nodes
      BY <2>2
    <3>2. Len(round'.nodes) = k
      BY <3>1 DEF k
    <3>3. ASSUME NEW f, NEW l,
                 \A i \in 1 .. k : round'.given[nodes[i]] = l + (IF Ahead(f, next, i - 1) THEN 1 ELSE 0)
          PROVE  Laps(f, l)'
      BY <3>1, <3>2, <3>3 DEF Laps, next
    <3>4. (round.nodes # <<>> => \E f \in 0 .. Len(round.nodes) - 1, l \in Nat : Laps(f, l))'
      BY <2>12, <3>2, <3>3
    <3>5. (cursor \in Nat /\ round.nodes \in Seq(NodeNames) /\ Once(round.nodes)
           /\ round.given \in [S!ToSet(round.nodes) -> Nat])'
      BY <2>1, <2>2, <2>8, <3>1
    <3> QED
      BY <3>4, <3>5 DEF Even
<1> QED
  BY <1>1, <1>2

-----------------------------------------------------------------------------
(* Selection: the dial.                                                     *)

Dials ==
    [at : {"none", "dialling", "served", "failed"}, way : {"none", "auto", "stable", "slot", "one"},
     net : {"tcp", "udp"}, chain : Seq(S!Egress), nodes : Nat,
     attempts : Nat, spent : Nat, egress : S!Egress \cup {S!Nobody}, quick : SUBSET S!Egress]

WorldTypes ==
    /\ online \subseteq Agent /\ running \subseteq Tunnel /\ lossy \subseteq Tunnel
    /\ bound \in Tunnel
    /\ answers \in [S!Egress -> {S!Quick, S!Slow, S!Never, S!Denied}]

StickyTypes == \A c \in Client : sticky[c].node \in {S!Warp, S!Nobody} \cup {S!AgentEgress(n) : n \in Agent}

\* Who was quick all the time is so now.
Quicks == \A e \in dial.quick : answers[e] = S!Quick

\* The tunnel of the slot is the next that is tried, with all the time there is.
Direct ==
    (/\ dial.at = "dialling" /\ dial.way = "slot"
     /\ bound \in running /\ S!TunnelEgress(bound) \in dial.quick)
    => /\ dial.chain # <<>> /\ Head(dial.chain) = S!TunnelEgress(bound)
       /\ dial.attempts = 0

\* An agent that will answer.
Able(n) ==
    /\ n \in online /\ S!AgentEgress(n) \in dial.quick
    /\ dial.net = "udp" => S!Datagrams(S!AgentEgress(n))

\* It is in the chain, and the attempts last until it is reached.
Coming ==
    (dial.at = "dialling" /\ dial.way = "auto" /\ dial.nodes <= 3)
    => \A n \in Agent : Able(n) =>
          \E i \in 1 .. Len(dial.chain) :
              dial.chain[i] = S!AgentEgress(n) /\ i + dial.attempts <= 3

\* An attempt takes no more than its time.
Spends == dial.spent <= 5 * dial.attempts

DialInv == WorldTypes /\ dial \in Dials /\ Quicks /\ Direct /\ Coming /\ Spends

\* No connection being made.
LEMMA BlankDial ==
    /\ S!NoDial \in Dials /\ S!NoDial.at = "none" /\ S!NoDial.egress = S!Nobody
    /\ S!NoDial.quick = {} /\ S!NoDial.attempts = 0 /\ S!NoDial.spent = 0
<1>1. <<>> \in Seq(S!Egress) /\ {} \in SUBSET S!Egress
  OBVIOUS
<1> QED
  BY <1>1 DEF Dials, S!NoDial

\* A dial that has failed has no egress.
LEMMA FailedDial == [S!NoDial EXCEPT !.at = "failed"] = [S!NoDial EXCEPT !.at = "failed", !.egress = S!Nobody]
BY BlankDial DEF Dials

\* A dial that is over promises nothing any more.
LEMMA NoDialFits ==
    ASSUME NEW at \in {"none", "served", "failed"}, NEW e \in S!Egress \cup {S!Nobody},
           WorldTypes', dial' = [S!NoDial EXCEPT !.at = at, !.egress = e]
    PROVE  DialInv' /\ dial'.at = at /\ dial'.egress = e
<1> DEFINE ended == [S!NoDial EXCEPT !.at = at, !.egress = e]
<1>1. /\ ended \in Dials /\ ended.at = at /\ ended.egress = e /\ ended.quick = {}
      /\ ended.attempts = 0 /\ ended.spent = 0
  BY BlankDial DEF Dials
<1>2. dial' = ended
  OBVIOUS
<1> HIDE DEF ended
<1>3. /\ dial' \in Dials /\ dial'.at = at /\ dial'.egress = e /\ dial'.quick = {}
      /\ dial'.attempts = 0 /\ dial'.spent = 0
  BY <1>1, <1>2
<1>4. at # "dialling"
  OBVIOUS
<1>5. Quicks' /\ Direct' /\ Coming' /\ Spends'
  BY <1>3, <1>4 DEF Quicks, Direct, Coming, Spends
<1> QED
  BY <1>3, <1>5 DEF DialInv

\* A dial begins with the chain its way has.
LEMMA StartInv ==
    ASSUME DialInv, NEW way \in {"auto", "stable", "slot", "one"}, NEW chain \in Seq(S!Egress),
           S!Start(way, chain),
           way = "slot" /\ bound \in running =>
               chain # <<>> /\ Head(chain) = S!TunnelEgress(bound),
           way = "auto" /\ Len(S!Nodes) <= 3 =>
               \A n \in online : \E i \in 1 .. Len(chain) : chain[i] = S!AgentEgress(n) /\ i <= 3
    PROVE  DialInv'
<1>1. PICK net \in {"tcp", "udp"} :
          dial' = [S!NoDial EXCEPT !.at = IF chain = <<>> THEN "failed" ELSE "dialling",
                                   !.way = way, !.net = net,
                                   !.chain = chain, !.nodes = Len(S!Nodes),
                                   !.quick = {e \in S!Egress : answers[e] = S!Quick}]
  BY DEF S!Start
<1> DEFINE now1 == IF chain = <<>> THEN "failed" ELSE "dialling"
           all == {e \in S!Egress : answers[e] = S!Quick}
           k == Len(S!Nodes)
<1>2. dial' = [at |-> now1, way |-> way, net |-> net, chain |-> chain,
               nodes |-> k, attempts |-> 0, spent |-> 0, egress |-> S!Nobody, quick |-> all]
  BY <1>1 DEF S!NoDial
<1>3. /\ online' = online /\ running' = running /\ lossy' = lossy /\ bound' = bound
      /\ answers' = answers
  BY DEF S!Start, S!world
<1>4. k \in Nat
  BY NodeList, LenProperties DEF DialInv, WorldTypes
<1>5. all \in SUBSET S!Egress /\ now1 \in {"failed", "dialling"} /\ \A e \in all : answers[e] = S!Quick
  OBVIOUS
<1> HIDE DEF all, now1, k
<1>6. /\ dial'.way = way /\ dial'.net = net /\ dial'.chain = chain
      /\ dial'.nodes = k /\ dial'.attempts = 0 /\ dial'.spent = 0 /\ dial'.quick = all
  BY <1>2
<1>7. dial' \in Dials
  BY <1>2, <1>4, <1>5 DEF Dials
<1>8. WorldTypes'
  BY <1>3 DEF DialInv, WorldTypes
<1>9. Quicks' /\ Spends'
  BY <1>3, <1>5, <1>6 DEF Quicks, Spends
<1>10. Direct'
  BY <1>3, <1>6 DEF Direct
<1>11. Coming'
  <2> SUFFICES ASSUME dial'.way = "auto", dial'.nodes <= 3, NEW n \in Agent, Able(n)'
               PROVE  \E i \in 1 .. Len(dial'.chain) :
                          dial'.chain[i] = S!AgentEgress(n) /\ i + dial'.attempts <= 3
    BY DEF Coming
  <2>1. n \in online
    BY <1>3 DEF Able
  <2>2. PICK i \in 1 .. Len(chain) : chain[i] = S!AgentEgress(n) /\ i <= 3
    BY <1>6, <2>1 DEF k
  <2>3. i + 0 <= 3
    BY <2>2
  <2> QED
    BY <1>6, <2>2, <2>3
<1> QED
  BY <1>7, <1>8, <1>9, <1>10, <1>11 DEF DialInv

\* What breaks meanwhile is no longer among those that were quick.
LEMMA ChangeInv ==
    ASSUME DialInv, NEW e \in S!Egress, S!Change(e), WorldTypes',
           running' \subseteq running,
           \A x \in S!Egress : x # e => answers'[x] = answers[x],
           \A n \in online' : n \in online \/ S!AgentEgress(n) = e
    PROVE  DialInv'
<1>1. dial' = [dial EXCEPT !.quick = dial.quick \ {e}] /\ bound' = bound
  BY DEF S!Change
<1>2. dial \in Dials
  BY DEF DialInv
<1>3. /\ dial'.at = dial.at /\ dial'.way = dial.way /\ dial'.net = dial.net
      /\ dial'.chain = dial.chain /\ dial'.nodes = dial.nodes
      /\ dial'.attempts = dial.attempts /\ dial'.spent = dial.spent
      /\ dial'.quick = dial.quick \ {e}
  BY <1>1, <1>2 DEF Dials
<1>4. dial' \in Dials
  BY <1>1, <1>2 DEF Dials
<1>5. Quicks'
  BY <1>2, <1>3 DEF DialInv, Quicks, Dials
<1>6. Direct'
  BY <1>1, <1>3 DEF DialInv, Direct
<1>7. ASSUME NEW n \in Agent, Able(n)'
      PROVE  Able(n)
  BY <1>3, <1>7 DEF Able, S!Datagrams
<1>8. Coming'
  BY <1>3, <1>7 DEF DialInv, Coming
<1>9. Spends'
  BY <1>3 DEF DialInv, Spends
<1> QED
  BY <1>4, <1>5, <1>6, <1>8, <1>9 DEF DialInv

\* The head of the chain has been passed over or tried, and was none that is
\* promised.
LEMMA NextInChain ==
    ASSUME DialInv, S!Going, NEW tries \in {0, 1}, NEW time \in Nat,
           time <= 5 * tries, S!world' = S!world,
           dial' = [dial EXCEPT !.chain = Tail(@), !.attempts = @ + tries, !.spent = @ + time],
           ~ (/\ dial.way = "slot" /\ bound \in running /\ S!TunnelEgress(bound) \in dial.quick
              /\ Head(dial.chain) = S!TunnelEgress(bound)),
           dial.way = "auto" =>
               \A n \in Agent : Able(n) => Head(dial.chain) # S!AgentEgress(n)
    PROVE  DialInv'
<1>1. dial \in Dials /\ dial.chain # <<>> /\ dial.chain \in Seq(S!Egress) /\ dial.at = "dialling"
      /\ dial.attempts \in Nat /\ dial.spent \in Nat
  BY DEF DialInv, S!Going, Dials
<1>2. Tail(dial.chain) \in Seq(S!Egress) /\ Len(Tail(dial.chain)) = Len(dial.chain) - 1
      /\ Len(dial.chain) \in Nat /\ Head(dial.chain) = dial.chain[1]
      /\ \A i \in 1 .. Len(dial.chain) - 1 : Tail(dial.chain)[i] = dial.chain[i + 1]
  BY <1>1, HeadTailProperties, LenProperties
<1>3. /\ dial'.at = dial.at /\ dial'.way = dial.way /\ dial'.net = dial.net
      /\ dial'.chain = Tail(dial.chain)
      /\ dial'.nodes = dial.nodes /\ dial'.attempts = dial.attempts + tries
      /\ dial'.spent = dial.spent + time /\ dial'.quick = dial.quick
  BY <1>1 DEF Dials
<1>4. /\ online' = online /\ running' = running /\ lossy' = lossy /\ bound' = bound
      /\ answers' = answers
  BY DEF S!world
<1>5. dial' \in Dials
  <2>1. dial.attempts + tries \in Nat /\ dial.spent + time \in Nat
    BY <1>1
  <2> QED
    BY <1>1, <1>2, <2>1 DEF Dials
<1>6. WorldTypes' /\ Quicks'
  BY <1>3, <1>4 DEF DialInv, WorldTypes, Quicks
<1>7. Direct'
  BY <1>1, <1>3, <1>4 DEF DialInv, Direct
<1>8. Spends'
  <2>1. dial.spent <= 5 * dial.attempts
    BY DEF DialInv, Spends
  <2>2. dial.spent + time <= 5 * (dial.attempts + tries)
    BY <1>1, <2>1
  <2> QED
    BY <1>3, <2>2 DEF Spends
<1>9. Coming'
  <2> SUFFICES ASSUME dial'.way = "auto", dial'.nodes <= 3,
                      NEW n \in Agent, Able(n)'
               PROVE  \E i \in 1 .. Len(dial'.chain) :
                          dial'.chain[i] = S!AgentEgress(n) /\ i + dial'.attempts <= 3
    BY DEF Coming
  <2>1. Able(n)
    BY <1>3, <1>4 DEF Able, S!Datagrams
  <2>2. PICK i \in 1 .. Len(dial.chain) :
            dial.chain[i] = S!AgentEgress(n) /\ i + dial.attempts <= 3
    BY <1>1, <1>3, <2>1 DEF DialInv, Coming
  <2>3. i # 1
    BY <1>2, <1>3, <2>1, <2>2
  <2>4. i - 1 \in 1 .. Len(dial.chain) - 1 /\ (i - 1) + 1 = i
        /\ (i - 1) + (dial.attempts + tries) <= 3
    BY <1>1, <1>2, <2>2, <2>3
  <2>5. Tail(dial.chain)[i - 1] = S!AgentEgress(n)
    BY <1>2, <2>2, <2>4
  <2> QED
    BY <1>2, <1>3, <2>4, <2>5
<1> QED
  BY <1>5, <1>6, <1>7, <1>8, <1>9 DEF DialInv

SelectionInv == DialInv /\ StickyTypes /\ Even

LEMMA SelectionInitInv == S!Init => SelectionInv
<1> SUFFICES ASSUME S!Init
             PROVE  SelectionInv
  OBVIOUS
<1>1. WorldTypes
  BY DEF S!Init, WorldTypes
<1>2. dial = S!NoDial
  BY DEF S!Init
<1>3. /\ dial \in Dials /\ dial.at = "none" /\ dial.quick = {}
      /\ dial.attempts = 0 /\ dial.spent = 0
  BY <1>2, BlankDial
<1>4. DialInv
  BY <1>1, <1>3 DEF DialInv, Quicks, Direct, Coming, Spends
<1>5. StickyTypes
  BY DEF S!Init, StickyTypes
<1>6. Even
  <2>1. round.nodes = <<>> /\ round.given = <<>> /\ cursor = 0
    BY DEF S!Init
  <2>2. round.nodes \in Seq(NodeNames) /\ Len(round.nodes) = 0 /\ DOMAIN round.nodes = {}
    BY <2>1
  <2>3. Once(round.nodes) /\ S!ToSet(round.nodes) = {}
    BY <2>2 DEF Once, S!ToSet
  <2>4. round.given \in [{} -> Nat]
    BY <2>1
  <2> QED
    BY <2>1, <2>2, <2>3, <2>4 DEF Even
<1> QED
  BY <1>4, <1>5, <1>6 DEF SelectionInv

\* A client gets a node that is there.
LEMMA PickIsNode ==
    ASSUME SelectionInv, NEW c \in Client, S!Nodes # <<>>
    PROVE  S!Pick(c) \in S!ToSet(S!Nodes)
<1>1. /\ S!Nodes \in Seq(NodeNames) /\ Len(S!Nodes) \in Nat \ {0}
      /\ DOMAIN S!Nodes = 1 .. Len(S!Nodes) /\ cursor \in Nat
  BY NodeList, EmptySeq, LenProperties DEF SelectionInv, DialInv, WorldTypes, Even
<1>2. (cursor % Len(S!Nodes)) + 1 \in 1 .. Len(S!Nodes)
  <2>1. cursor % Len(S!Nodes) \in 0 .. Len(S!Nodes) - 1
    BY <1>1, NextTurn
  <2> DEFINE k == Len(S!Nodes)
             at == cursor % k
  <2>2. at \in 0 .. k - 1 /\ k \in Nat \ {0}
    BY <1>1, <2>1
  <2> HIDE DEF at, k
  <2>3. at + 1 \in 1 .. k
    BY <2>2
  <2> QED
    BY <2>3 DEF at, k
<1>3. CASE S!Held(c)
  BY <1>3 DEF S!Pick, S!Held
<1>4. CASE ~ S!Held(c)
  BY <1>1, <1>2, <1>4 DEF S!Pick, S!ToSet
<1> QED
  BY <1>3, <1>4

LEMMA AutoStep ==
    ASSUME SelectionInv, NEW c \in Client, S!ResolveAuto(c)
    PROVE  SelectionInv'
<1>1. PICK tunnels \in S!Ranked :
          IF S!Nodes = <<>>
          THEN S!Start("auto", <<>>) /\ UNCHANGED <<cursor, sticky, round>>
          ELSE /\ S!Start("auto", S!RotateChain(S!Pick(c), tunnels))
               /\ S!Assign(c) /\ S!Given(c)
  BY DEF S!ResolveAuto
<1>2. DialInv /\ online \subseteq Agent /\ running \subseteq Tunnel
  BY DEF SelectionInv, DialInv, WorldTypes
<1>3. CASE S!Nodes = <<>>
  <2>1. S!Start("auto", <<>>) /\ cursor' = cursor /\ sticky' = sticky /\ round' = round
    BY <1>1, <1>3
  <2>2. \A n \in online : FALSE
    <3>1. Len(S!Nodes) = 0
      BY <1>3
    <3>2. \A i \in 1 .. Len(S!Nodes) : FALSE
      BY <3>1
    <3> QED
      BY <1>2, <3>2, NodeList
  <2>3. DialInv'
    <3> DEFINE chain == <<>>
    <3>1. chain \in Seq(S!Egress)
      OBVIOUS
    <3> HIDE DEF chain
    <3>2. S!Start("auto", chain)
      BY <2>1 DEF chain
    <3>3. Len(S!Nodes) <= 3 =>
              \A n \in online : \E i \in 1 .. Len(chain) : chain[i] = S!AgentEgress(n) /\ i <= 3
      BY <2>2
    <3> QED
      BY <1>2, <3>1, <3>2, <3>3, StartInv
  <2> QED
    BY <2>1, <2>3 DEF SelectionInv, StickyTypes, Even, Laps
<1>4. CASE S!Nodes # <<>>
  <2> DEFINE chain == S!RotateChain(S!Pick(c), tunnels)
  <2>1. S!Start("auto", chain) /\ S!Assign(c) /\ S!Given(c)
    BY <1>1, <1>4
  <2>2. S!Pick(c) \in S!ToSet(S!Nodes)
    BY <1>4, PickIsNode
  <2>3. /\ chain \in Seq(S!Egress) /\ Len(chain) \in Nat /\ Len(chain) <= 3
        /\ Len(S!Nodes) <= 3 =>
              \A n \in online : \E i \in 1 .. Len(chain) : chain[i] = S!AgentEgress(n)
    BY <1>2, <2>2, RotateList
  <2> HIDE DEF chain
  <2>4. Len(S!Nodes) <= 3 =>
            \A n \in online : \E i \in 1 .. Len(chain) : chain[i] = S!AgentEgress(n) /\ i <= 3
    <3>1. \A i \in 1 .. Len(chain) : i <= 3
      BY <2>3
    <3> QED
      BY <2>3, <3>1
  <2>5. DialInv'
    BY <1>2, <2>1, <2>3, <2>4, StartInv
  <2>6. Even'
    BY <1>2, <1>4, <2>1, GivenStep DEF SelectionInv
  <2>7. StickyTypes'
    <3>1. S!Pick(c) \in NodeNames
      <4>1. S!Nodes \in Seq(NodeNames)
        BY <1>2, NodeList
      <4> QED
        BY <2>2, <4>1, ElementOfSeq, LenProperties DEF S!ToSet
    <3>2. sticky' = sticky \/ \A x \in Client : \/ sticky'[x] = sticky[x]
                                               \/ sticky'[x].node \in {S!Pick(c), S!Nobody}
      BY <2>1 DEF S!Assign
    <3> QED
      BY <3>1, <3>2 DEF SelectionInv, StickyTypes, NodeNames
  <2> QED
    BY <2>5, <2>6, <2>7 DEF SelectionInv
<1> QED
  BY <1>3, <1>4

\* The other ways leave the turns alone.
LEMMA SameTurns ==
    ASSUME SelectionInv, UNCHANGED <<cursor, sticky, round>>, DialInv'
    PROVE  SelectionInv'
BY DEF SelectionInv, StickyTypes, Even, Laps

LEMMA AttemptStep ==
    ASSUME DialInv, S!Attempt
    PROVE  DialInv'
<1> DEFINE e == Head(dial.chain)
<1>1. /\ dial \in Dials /\ dial.at = "dialling" /\ dial.chain # <<>>
      /\ dial.chain \in Seq(S!Egress) /\ dial.attempts \in Nat /\ dial.spent \in Nat
      /\ dial.attempts < 3 /\ dial.spent < 12
      /\ S!Going /\ (dial.net = "udp" => S!Datagrams(e))
      /\ S!world' = S!world
  BY DEF DialInv, Dials, S!Attempt, S!Going, S!MaxAttempts, S!TotalTTL, S!world
<1>2. e \in S!Egress
  BY <1>1, HeadTailProperties
<1>3. WorldTypes'
  BY <1>1 DEF DialInv, WorldTypes, S!world
<1>4. CASE S!Served(e)
  BY <1>2, <1>3, <1>4, NoDialFits DEF S!Served
<1>5. CASE S!DeniedBy(e)
  BY <1>2, <1>3, <1>5, NoDialFits DEF S!DeniedBy
<1>6. CASE /\ S!Gone(e) \/ answers[e] > S!Allowed
           /\ \E time \in {0, S!Allowed} :
                 dial' = [dial EXCEPT !.chain = Tail(@), !.attempts = @ + 1, !.spent = @ + time]
  <2>1. S!Allowed \in Nat /\ 1 <= S!Allowed /\ S!Allowed <= 5
    BY <1>1 DEF S!Allowed, S!Least, S!AttemptTTL, S!TotalTTL
  <2>2. PICK time \in {0, S!Allowed} :
            dial' = [dial EXCEPT !.chain = Tail(@), !.attempts = @ + 1, !.spent = @ + time]
    BY <1>6
  <2>3. time \in Nat /\ time <= 5 * 1
    BY <2>1, <2>2
  <2>4. e \in dial.quick => S!Gone(e)
    <3>1. e \in dial.quick => answers[e] = 1
      BY DEF DialInv, Quicks, S!Quick
    <3> QED
      BY <1>6, <2>1, <3>1
  <2>5. ~ (/\ dial.way = "slot" /\ bound \in running /\ S!TunnelEgress(bound) \in dial.quick
           /\ e = S!TunnelEgress(bound))
    BY <2>4 DEF S!Gone, S!TunnelEgress
  <2>6. \A n \in Agent : Able(n) => e # S!AgentEgress(n)
    BY <2>4 DEF Able, S!Gone, S!AgentEgress
  <2> HIDE DEF e
  <2> QED
    BY <1>1, <2>2, <2>3, <2>5, <2>6, NextInChain DEF e
<1> QED
  BY <1>4, <1>5, <1>6 DEF S!Attempt

LEMMA SelectionStepInv == SelectionInv /\ [S!Next]_(S!vars) => SelectionInv'
<1> SUFFICES ASSUME SelectionInv, [S!Next]_(S!vars)
             PROVE  SelectionInv'
  OBVIOUS
<1>0. DialInv /\ WorldTypes
  BY DEF SelectionInv, DialInv
<1>1. ASSUME NEW c \in Client, S!ResolveAuto(c)
      PROVE  SelectionInv'
  BY <1>1, AutoStep
<1>2. CASE S!ResolveStable
  <2>1. PICK tunnels \in S!Ranked : S!Start("stable", tunnels)
    BY <1>2 DEF S!ResolveStable
  <2>2. DialInv'
    BY <1>0, <2>1, RankedLists, StartInv DEF WorldTypes
  <2> QED
    BY <1>2, <2>2, SameTurns DEF S!ResolveStable
<1>3. CASE S!ResolveSlot
  <2>1. PICK tunnels \in S!Ranked : S!Start("slot", S!SlotChain(tunnels))
    BY <1>3 DEF S!ResolveSlot
  <2>2. /\ S!SlotChain(tunnels) \in Seq(S!Egress)
        /\ bound \in running =>
               S!SlotChain(tunnels) # <<>> /\ Head(S!SlotChain(tunnels)) = S!TunnelEgress(bound)
    BY <1>0, SlotList DEF WorldTypes
  <2>3. DialInv'
    BY <1>0, <2>1, <2>2, StartInv
  <2> QED
    BY <1>3, <2>3, SameTurns DEF S!ResolveSlot
<1>4. CASE S!ResolveOne
  <2>1. PICK e \in S!Egress : S!Start("one", IF S!Gone(e) THEN <<>> ELSE <<e>>)
    BY <1>4 DEF S!ResolveOne
  <2>2. (IF S!Gone(e) THEN <<>> ELSE <<e>>) \in Seq(S!Egress)
    OBVIOUS
  <2>3. DialInv'
    BY <1>0, <2>1, <2>2, StartInv
  <2> QED
    BY <1>4, <2>3, SameTurns DEF S!ResolveOne
<1>5. CASE S!GiveUp
  <2>1. dial' = [S!NoDial EXCEPT !.at = "failed", !.egress = S!Nobody]
    BY <1>5, FailedDial DEF S!GiveUp, S!Failed
  <2>2. WorldTypes'
    BY <1>0, <1>5 DEF S!GiveUp, WorldTypes, S!world
  <2> QED
    BY <1>5, <2>1, <2>2, NoDialFits, SameTurns DEF S!GiveUp
<1>6. CASE S!Skip
  <2>1. /\ S!Going /\ S!world' = S!world /\ dial.net = "udp" /\ ~ S!Datagrams(Head(dial.chain))
        /\ dial' = [dial EXCEPT !.chain = Tail(@)]
    BY <1>6 DEF S!Skip, S!world
  <2>2. dial.attempts \in Nat /\ dial.spent \in Nat /\ dial \in Dials
    BY <1>0 DEF DialInv, Dials
  <2>3. dial' = [dial EXCEPT !.chain = Tail(@), !.attempts = @ + 0, !.spent = @ + 0]
    <3>1. \A a, t : a = dial.attempts /\ t = dial.spent =>
              [dial EXCEPT !.chain = Tail(@)] = [dial EXCEPT !.chain = Tail(@), !.attempts = a, !.spent = t]
      BY <2>2 DEF Dials
    <3>2. dial.attempts + 0 = dial.attempts /\ dial.spent + 0 = dial.spent
      BY <2>2
    <3> QED
      BY <2>1, <3>1, <3>2
  <2>4. Head(dial.chain) # S!TunnelEgress(bound)
    BY <2>1 DEF S!Datagrams, S!TunnelEgress
  <2>5. \A n \in Agent : Able(n) => Head(dial.chain) # S!AgentEgress(n)
    BY <2>1 DEF Able
  <2>6. 0 <= 5 * 0
    OBVIOUS
  <2>7. DialInv'
    BY <1>0, <2>1, <2>3, <2>4, <2>5, <2>6, NextInChain
  <2> QED
    BY <1>6, <2>7, SameTurns DEF S!Skip
<1>7. CASE S!Attempt
  BY <1>0, <1>7, AttemptStep, SameTurns DEF S!Attempt
<1>8. ASSUME NEW n \in Agent, S!AgentComesOrGoes(n)
      PROVE  SelectionInv'
  <2>1. S!Change(S!AgentEgress(n)) /\ S!AgentEgress(n) \in S!Egress
    BY <1>8 DEF S!AgentComesOrGoes, S!Egress
  <2>2. /\ WorldTypes' /\ running' = running /\ answers' = answers
        /\ \A m \in online' : m \in online \/ m = n
    BY <1>0, <1>8 DEF S!AgentComesOrGoes, WorldTypes, S!Change
  <2>3. DialInv'
    BY <1>0, <2>1, <2>2, ChangeInv
  <2> QED
    BY <2>1, <2>3, SameTurns DEF S!Change
<1>9. ASSUME NEW t \in Tunnel, S!TunnelStops(t) \/ S!Metadata(t)
      PROVE  SelectionInv'
  <2>1. S!Change(S!TunnelEgress(t)) /\ S!TunnelEgress(t) \in S!Egress
    BY <1>9 DEF S!TunnelStops, S!Metadata, S!Egress
  <2>2. /\ WorldTypes' /\ running' \subseteq running /\ answers' = answers /\ online' = online
    BY <1>0, <1>9 DEF S!TunnelStops, S!Metadata, WorldTypes, S!Change
  <2>3. DialInv'
    BY <1>0, <2>1, <2>2, ChangeInv
  <2> QED
    BY <2>1, <2>3, SameTurns DEF S!Change
<1>10. ASSUME NEW e \in S!Egress, S!Breaks(e)
       PROVE  SelectionInv'
  <2>1. S!Change(e)
    BY <1>10 DEF S!Breaks
  <2>2. /\ running' = running /\ online' = online /\ lossy' = lossy /\ bound' = bound
        /\ \E how \in {S!Never, S!Denied} : answers' = [answers EXCEPT ![e] = how]
    BY <1>10 DEF S!Breaks, S!Change
  <2>3. WorldTypes' /\ \A x \in S!Egress : x # e => answers'[x] = answers[x]
    BY <1>0, <2>2 DEF WorldTypes
  <2>4. DialInv'
    BY <1>0, <2>1, <2>2, <2>3, ChangeInv
  <2> QED
    BY <2>1, <2>4, SameTurns DEF S!Change
<1>11. CASE S!WindowPasses \/ UNCHANGED S!vars
  <2>1. /\ online' = online /\ running' = running /\ lossy' = lossy /\ bound' = bound
        /\ answers' = answers /\ dial' = dial /\ UNCHANGED <<cursor, sticky, round>>
    BY <1>11 DEF S!WindowPasses, S!vars, S!world
  <2>2. DialInv'
    BY <2>1, <1>0 DEF DialInv, WorldTypes, Quicks, Direct, Coming, Spends, Able, S!Datagrams
  <2> QED
    BY <2>1, <2>2, SameTurns
<1> QED
  BY <1>1, <1>2, <1>3, <1>4, <1>5, <1>6, <1>7, <1>8, <1>9, <1>10, <1>11 DEF S!Next

LEMMA SelectionInvariance == S!Spec => []SelectionInv
<1>1. SelectionInv /\ [S!Next]_(S!vars) => SelectionInv'
  BY SelectionStepInv
<1> QED
  BY <1>1, SelectionInitInv, PTL DEF S!Spec

\* The selection's variables have their types: the model of Manager.resolve and
\* of the dial that follows it.
THEOREM SelectionTypeCorrect == S!Spec => []S!TypeOK
<1>1. SelectionInv => S!TypeOK
  BY DEF SelectionInv, DialInv, WorldTypes, StickyTypes, Even, Dials, S!TypeOK
<1> QED
  BY <1>1, SelectionInvariance, PTL

\* New clients are spread evenly over the nodes as long as these stay the same.
THEOREM AlwaysSpreadsEvenly == S!Spec => []SpreadsEvenly
<1>1. SelectionInv => S!SpreadsEvenly
  BY EvenSpread DEF SelectionInv
<1> QED
  BY <1>1, SelectionInvariance, PTL DEF SpreadsEvenly

\* Only these steps end a dial.
LEMMA DialEnds ==
    ASSUME SelectionInv, [S!Next]_(S!vars), dial.at = "dialling", dial'.at \in {"served", "failed"}
    PROVE  \/ S!GiveUp /\ dial'.at = "failed"
           \/ S!Attempt /\ S!Served(Head(dial.chain)) /\ dial'.at = "served"
              /\ dial'.egress = Head(dial.chain)
           \/ S!Attempt /\ S!DeniedBy(Head(dial.chain)) /\ dial'.at = "failed"
              /\ dial'.egress = Head(dial.chain)
<1>1. dial \in Dials
  BY DEF SelectionInv, DialInv
<1>2. ~ S!CanStart
  BY DEF S!CanStart
<1>3. \A e : ~ S!Change(e)
  BY <1>1 DEF S!Change, Dials
<1>4. ~ S!Skip
  BY <1>1 DEF S!Skip, Dials
<1>5. dial' # dial
  OBVIOUS
<1>6. S!GiveUp \/ S!Attempt
  BY <1>2, <1>3, <1>4, <1>5 DEF S!Next, S!vars, S!ResolveAuto, S!ResolveStable, S!ResolveSlot,
     S!ResolveOne, S!AgentComesOrGoes, S!TunnelStops, S!Metadata, S!Breaks, S!WindowPasses
<1>7. S!Failed => dial'.at = "failed"
  BY BlankDial DEF S!Failed, Dials
<1>8. CASE S!GiveUp
  BY <1>7, <1>8 DEF S!GiveUp
<1>9. CASE S!Attempt
  <2>1. \A t : dial' # [dial EXCEPT !.chain = Tail(@), !.attempts = @ + 1, !.spent = @ + t]
    BY <1>1 DEF Dials
  <2> DEFINE e == Head(dial.chain)
  <2> HIDE DEF e
  <2>2. \/ S!Served(e) \/ S!DeniedBy(e)
        \/ \E t \in {0, S!Allowed} :
              dial' = [dial EXCEPT !.chain = Tail(@), !.attempts = @ + 1, !.spent = @ + t]
    BY <1>9 DEF S!Attempt, e
  <2>3. S!Served(e) \/ S!DeniedBy(e)
    BY <2>1, <2>2
  <2>4. \/ S!Served(e) /\ dial'.at = "served" /\ dial'.egress = e
        \/ S!DeniedBy(e) /\ dial'.at = "failed" /\ dial'.egress = e
    <3>1. S!Served(e) => dial'.at = "served" /\ dial'.egress = e
      BY BlankDial DEF S!Served, Dials
    <3>2. S!DeniedBy(e) => dial'.at = "failed" /\ dial'.egress = e
      BY BlankDial DEF S!DeniedBy, Dials
    <3> QED
      BY <2>3, <3>1, <3>2
  <2> QED
    BY <1>9, <2>4 DEF e
<1> QED
  BY <1>6, <1>8, <1>9

\* One agent that answers quickly is enough for the automatic choice, whatever
\* the other egresses do to the attempts and the time of the dial, unless a
\* tunnel's own permanent error ends it first.
THEOREM AlwaysServedIfReachable == S!Spec => ServedIfReachable
<1>1. ASSUME SelectionInv, [S!Next]_(S!vars),
             dial.at = "dialling", dial'.at = "failed", dial.way = "auto", dial'.egress = S!Nobody,
             dial.nodes <= S!MaxAttempts, NEW n \in online
      PROVE  \/ S!AgentEgress(n) \notin dial.quick
             \/ dial.net = "udp" /\ ~ S!Datagrams(S!AgentEgress(n))
  <2> SUFFICES ASSUME Able(n)
               PROVE  FALSE
    BY DEF Able
  <2>1. S!GiveUp
    <3>1. dial'.at # "served" /\ dial'.at \in {"served", "failed"}
      BY <1>1
    <3>2. S!Attempt => Head(dial.chain) # S!Nobody
      <4>1. dial.chain \in Seq(S!Egress)
        BY <1>1 DEF SelectionInv, DialInv, Dials
      <4>2. \A x \in S!Egress : x # S!Nobody
        BY DEF S!Egress, S!AgentEgress, S!TunnelEgress, S!Nobody
      <4>3. S!Attempt => Head(dial.chain) \in S!Egress
        BY <4>1, HeadTailProperties DEF S!Attempt, S!Going
      <4> QED
        BY <4>2, <4>3
    <3> QED
      BY <1>1, <3>1, <3>2, DialEnds
  <2>2. /\ dial \in Dials /\ dial.attempts \in Nat /\ dial.spent \in Nat
        /\ dial.spent <= 5 * dial.attempts /\ n \in Agent
        /\ dial.chain \in Seq(S!Egress)
    BY <1>1 DEF SelectionInv, DialInv, Dials, Spends, WorldTypes
  <2>3. PICK i \in 1 .. Len(dial.chain) : i + dial.attempts <= 3
    BY <1>1, <2>2 DEF SelectionInv, DialInv, Coming, S!MaxAttempts
  <2>4. dial.chain # <<>>
    BY <2>3
  <2>5. dial.attempts < 3 /\ dial.spent < 12
    <3>1. i \in Nat /\ 1 <= i
      BY <2>2, <2>3, LenProperties
    <3> QED
      BY <2>2, <2>3, <3>1
  <2> QED
    BY <2>1, <2>2, <2>4, <2>5 DEF S!GiveUp, S!MaxAttempts, S!TotalTTL
<1>2. SelectionInv /\ [S!Next]_(S!vars) =>
          [(/\ dial.at = "dialling" /\ dial'.at = "failed"
            /\ dial.way = "auto" /\ dial'.egress = S!Nobody
            /\ dial.nodes <= S!MaxAttempts)
           => \A n \in online : \/ S!AgentEgress(n) \notin dial.quick
                                \/ dial.net = "udp" /\ ~ S!Datagrams(S!AgentEgress(n))]_(S!vars)
  BY <1>1
<1> QED
  BY <1>2, SelectionInvariance, PTL DEF S!Spec, ServedIfReachable, S!ServedIfReachable

\* The credential of a slot leaves through the slot's own account as long as
\* that account's tunnel answers.
THEOREM AlwaysSlotKeepsAddress == S!Spec => SlotKeepsAddress
<1>1. ASSUME SelectionInv, [S!Next]_(S!vars),
             dial.at = "dialling", dial'.at = "served",
             dial.way = "slot", bound \in running, S!TunnelEgress(bound) \in dial.quick
      PROVE  dial'.egress = S!TunnelEgress(bound)
  <2>1. dial'.egress = Head(dial.chain)
    <3>1. dial'.at # "failed"
      BY <1>1
    <3> QED
      BY <1>1, <3>1, DialEnds
  <2>2. Head(dial.chain) = S!TunnelEgress(bound)
    BY <1>1 DEF SelectionInv, DialInv, Direct
  <2> QED
    BY <2>1, <2>2
<1>2. SelectionInv /\ [S!Next]_(S!vars) =>
          [(/\ dial.at = "dialling" /\ dial'.at = "served"
            /\ dial.way = "slot" /\ bound \in running /\ S!TunnelEgress(bound) \in dial.quick)
           => dial'.egress = S!TunnelEgress(bound)]_(S!vars)
  BY <1>1
<1> QED
  BY <1>2, SelectionInvariance, PTL DEF S!Spec, SlotKeepsAddress, S!SlotKeepsAddress

-----------------------------------------------------------------------------
(* The composition.                                                         *)

LEMMA MCBatch == MCSpec => Spec
<1>1. MCInit => Init
  BY DEF MCInit
<1>2. [MCNext]_allVars => [Next]_vars
  BY DEF MCNext, BatchStep, UsageStep, UdpStep, SelectionStep, TrafficStep, LogStep, FrameStep, allVars
<1> QED
  BY <1>1, <1>2, PTL DEF MCSpec, Spec

LEMMA MCUsage == MCSpec => UsageSpec
<1>1. MCInit => UsageInit
  BY DEF MCInit
<1>2. [MCNext]_allVars => [UsageNext]_usageVars
  BY DEF MCNext, BatchStep, UsageStep, UdpStep, SelectionStep, TrafficStep, LogStep, FrameStep, allVars
<1> QED
  BY <1>1, <1>2, PTL DEF MCSpec, UsageSpec

LEMMA MCUdp == MCSpec => T!Init /\ [][T!Next]_(T!vars)
<1>1. MCInit => T!Init
  BY DEF MCInit
<1>2. [MCNext]_allVars => [T!Next]_(T!vars)
  BY DEF MCNext, BatchStep, UsageStep, UdpStep, SelectionStep, TrafficStep, LogStep, FrameStep,
         allVars, udpVars, T!vars
<1> QED
  BY <1>1, <1>2, PTL DEF MCSpec

LEMMA MCLog == MCSpec => L!Init /\ [][L!Next]_(L!vars)
<1>1. MCInit => L!Init
  BY DEF MCInit
<1>2. [MCNext]_allVars => [L!Next]_(L!vars)
  BY DEF MCNext, BatchStep, UsageStep, UdpStep, SelectionStep, TrafficStep, LogStep, FrameStep,
         allVars, logVars, L!vars, L!store
<1> QED
  BY <1>1, <1>2, PTL DEF MCSpec

LEMMA MCFrames == MCSpec => P!Spec
<1>1. MCInit => P!Init
  BY DEF MCInit
<1>2. [MCNext]_allVars => [P!Next]_(P!vars)
  BY DEF MCNext, BatchStep, UsageStep, UdpStep, SelectionStep, TrafficStep, LogStep, FrameStep,
         allVars, frameVars, P!vars
<1> QED
  BY <1>1, <1>2, PTL DEF MCSpec, P!Spec

LEMMA MCSelection == MCSpec => S!Spec
<1>1. MCInit => S!Init
  BY DEF MCInit
<1>2. [MCNext]_allVars => [S!Next]_(S!vars)
  BY DEF MCNext, BatchStep, UsageStep, UdpStep, SelectionStep, TrafficStep, LogStep, FrameStep,
         allVars, dialVars, S!vars, S!world
<1> QED
  BY <1>1, <1>2, PTL DEF MCSpec, S!Spec

\* Side by side, too, every variable of every component has its type.
THEOREM PartsTypeCorrect == MCSpec => []Typed
<1>1. TypeOK /\ UsageTypeOK /\ T!TypeOK /\ S!TypeOK /\ F!TypeOK /\ L!TypeOK /\ P!TypeOK => Typed
  BY DEF Typed
<1> QED
  BY <1>1, BatchTypeCorrect, UsageTypeCorrect, UdpTyped, SelectionTypeCorrect, TrafficTypeCorrect,
     LogTyped, FrameTypeCorrect, MCBatch, MCUsage, MCUdp, MCSelection, MCTraffic, MCLog, MCFrames, PTL

\* Side by side the components keep what each of them promises alone: they share
\* no variable, and a step of one is a stutter of all others.
THEOREM PartsKeepTheirWord ==
    MCSpec =>
        /\ [](StopFlushes /\ ListenerUsageKept /\ ReportedInFull /\ WithinLimit /\ SpreadsEvenly
              /\ ShowsTheFile /\ DatagramsWhole)
        /\ ImplementsPipe /\ ImplementsLedger
        /\ CreditedOnce /\ ServedIfReachable /\ SlotKeepsAddress
<1>1. T!Init /\ [][T!Next]_(T!vars) => [](ReportedInFull /\ WithinLimit)
  BY BooksBalance, UdpInvariance, LimitHolds, PTL DEF ReportedInFull, WithinLimit
<1>2. L!Init /\ [][L!Next]_(L!vars) => []ShowsTheFile
  <2>1. LogInv => ShowsTheFile
    BY DEF LogInv, PageShows, Kept, Sparse, ShowsTheFile, L!ShowsTheFile
  <2> QED
    BY <2>1, LogInitInv, LogStepInv, PTL
<1>3. P!Spec => []DatagramsWhole
  BY AlwaysDatagramsWhole
<1>4. F!Spec => CreditedOnce
  BY AlwaysCreditedOnce
<1>5. S!Spec => []SpreadsEvenly /\ ServedIfReachable /\ SlotKeepsAddress
  BY AlwaysSpreadsEvenly, AlwaysServedIfReachable, AlwaysSlotKeepsAddress
<1>6. Spec => ImplementsPipe
  BY BatchRefinement
<1>7. UsageSpec => [](StopFlushes /\ ListenerUsageKept) /\ ImplementsLedger
  BY StopAlwaysFlushes, ListenerUsageAlwaysKept, UsageRefinement, PTL
<1> QED
  BY <1>1, <1>2, <1>3, <1>4, <1>5, <1>6, <1>7,
     MCBatch, MCUsage, MCUdp, MCLog, MCFrames, MCTraffic, MCSelection, PTL
=============================================================================
