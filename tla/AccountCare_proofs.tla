------------------------- MODULE AccountCare_proofs -------------------------
(***************************************************************************)
(* Theorems of AccountCare, for any slots, accounts and addresses, any     *)
(* thresholds, and any number of events and of tests that the panel asks   *)
(* for.                                                                    *)
(***************************************************************************)
EXTENDS AccountCare, SequenceTheorems, TLAPS

-----------------------------------------------------------------------------
(* Plans.                                                                   *)

PhaseName == {"rebind", "probe", "register", "test", "keep", "judge", "prune", "single"}

\* What comes after what: verdicts follow a test, and only a deduplication
\* begins by pruning.
Orderly(p) ==
    /\ p \in Seq(PhaseName)
    /\ \A i \in 1 .. Len(p) - 1 : /\ p[i + 1] \notin {"prune", "single"}
                                  /\ p[i + 1] = "judge" => p[i] = "test"
                                  /\ p[i + 1] = "keep" => p[i] \in {"test", "judge"}

\* A plan that actor c may have.
PlanOf(c, p) ==
    /\ Orderly(p)
    /\ \A i \in 1 .. Len(p) : /\ p[i] = "probe" => c = "job"
                              /\ p[i] = "single" => c = "one"

PlansOK ==
    /\ plan \in [Actor -> Seq(PhaseName)]
    /\ ready \in [Actor -> BOOLEAN]
    /\ \A c \in Actor : PlanOf(c, plan[c]) /\ (plan[c] = <<>> => ~ ready[c])

LEMMA Joined ==
    ASSUME NEW s \in Seq(PhaseName), NEW t \in Seq(PhaseName), NEW u \in Seq(PhaseName),
           Len(u) = Len(s) + Len(t),
           \A i \in 1 .. Len(s) : u[i] = s[i],
           \A i \in 1 .. Len(t) : u[Len(s) + i] = t[i]
    PROVE  s \o t = u
<1>1. /\ s \o t \in Seq(PhaseName)
      /\ Len(s \o t) = Len(s) + Len(t)
      /\ \A i \in 1 .. Len(s) + Len(t) : (s \o t)[i] = IF i <= Len(s) THEN s[i] ELSE t[i - Len(s)]
      /\ Len(s) \in Nat /\ Len(t) \in Nat
  BY ConcatProperties, LenProperties
<1>2. ASSUME NEW i \in 1 .. Len(s) + Len(t)
      PROVE  (s \o t)[i] = u[i]
  <2>1. CASE i <= Len(s)
    BY <1>1, <2>1
  <2>2. CASE ~ (i <= Len(s))
    <3>1. i - Len(s) \in 1 .. Len(t) /\ Len(s) + (i - Len(s)) = i
      BY <1>1, <2>2
    <3> QED
      BY <1>1, <2>2, <3>1
  <2> QED
    BY <2>1, <2>2
<1> QED
  BY <1>1, <1>2, SeqEqual

LEMMA PlansWritten ==
    /\ Testing = <<"test", "judge", "keep", "rebind", "register", "test", "keep", "rebind">>
    /\ Dedup = <<"prune", "test", "judge", "keep", "rebind", "register", "test", "keep", "rebind">>
    /\ Single = <<"single", "rebind", "register", "test", "keep", "rebind">>
<1> DEFINE testing == <<"test", "judge", "keep", "rebind", "register", "test", "keep", "rebind">>
           dedup == <<"prune", "test", "judge", "keep", "rebind", "register", "test", "keep", "rebind">>
           single == <<"single", "rebind", "register", "test", "keep", "rebind">>
<1>1. /\ <<"test", "judge", "keep">> \in Seq(PhaseName) /\ Healing \in Seq(PhaseName)
      /\ <<"prune">> \in Seq(PhaseName) /\ <<"single">> \in Seq(PhaseName)
      /\ testing \in Seq(PhaseName) /\ dedup \in Seq(PhaseName) /\ single \in Seq(PhaseName)
  BY DEF Healing, PhaseName
<1>2. Testing = testing
  <2> DEFINE s == <<"test", "judge", "keep">>
             t == Healing
  <2>1. Len(s) = 3 /\ Len(t) = 5 /\ Len(testing) = 8
    BY DEF Healing
  <2>2. \A i \in 1 .. Len(s) : testing[i] = s[i]
    BY <2>1
  <2>3. \A i \in 1 .. Len(t) : testing[Len(s) + i] = t[i]
    BY <2>1 DEF Healing
  <2>4. s \o t = testing
    <3>1. s \in Seq(PhaseName) /\ t \in Seq(PhaseName) /\ testing \in Seq(PhaseName)
      BY <1>1
    <3>2. Len(testing) = Len(s) + Len(t)
      BY <2>1
    <3> HIDE DEF s, t, testing
    <3> QED
      BY <3>1, <3>2, <2>2, <2>3, Joined
  <2> QED
    BY <2>4 DEF Testing
<1>3. Dedup = dedup
  <2> DEFINE s == <<"prune">>
             t == testing
  <2>1. Len(s) = 1 /\ Len(t) = 8 /\ Len(dedup) = 9
    OBVIOUS
  <2>2. \A i \in 1 .. Len(s) : dedup[i] = s[i]
    BY <2>1
  <2>3. \A i \in 1 .. Len(t) : dedup[Len(s) + i] = t[i]
    BY <2>1
  <2>4. s \o t = dedup
    <3>1. s \in Seq(PhaseName) /\ t \in Seq(PhaseName) /\ dedup \in Seq(PhaseName)
      BY <1>1
    <3>2. Len(dedup) = Len(s) + Len(t)
      BY <2>1
    <3> HIDE DEF s, t, dedup
    <3> QED
      BY <3>1, <3>2, <2>2, <2>3, Joined
  <2> QED
    BY <2>4, <1>2 DEF Dedup
<1>4. Single = single
  <2> DEFINE s == <<"single">>
             t == Healing
  <2>1. Len(s) = 1 /\ Len(t) = 5 /\ Len(single) = 6
    BY DEF Healing
  <2>2. \A i \in 1 .. Len(s) : single[i] = s[i]
    BY <2>1
  <2>3. \A i \in 1 .. Len(t) : single[Len(s) + i] = t[i]
    BY <2>1 DEF Healing
  <2>4. s \o t = single
    <3>1. s \in Seq(PhaseName) /\ t \in Seq(PhaseName) /\ single \in Seq(PhaseName)
      BY <1>1
    <3>2. Len(single) = Len(s) + Len(t)
      BY <2>1
    <3> HIDE DEF s, t, single
    <3> QED
      BY <3>1, <3>2, <2>2, <2>3, Joined
  <2> QED
    BY <2>4 DEF Single
<1> QED
  BY <1>2, <1>3, <1>4

LEMMA StartPlans ==
    /\ PlanOf("job", Probing) /\ PlanOf("job", Testing) /\ PlanOf("job", Dedup)
    /\ PlanOf("one", Single)
    /\ Head(Probing) = "rebind" /\ Head(Testing) = "test" /\ Head(Dedup) = "prune"
    /\ Head(Single) = "single"
    /\ Probing # <<>> /\ Testing # <<>> /\ Dedup # <<>> /\ Single # <<>>
<1>1. PlanOf("job", Probing) /\ Head(Probing) = "rebind" /\ Probing # <<>>
  BY DEF PlanOf, Orderly, PhaseName, Probing
<1>2. PlanOf("job", Testing) /\ Head(Testing) = "test" /\ Testing # <<>>
  BY PlansWritten DEF PlanOf, Orderly, PhaseName
<1>3. PlanOf("job", Dedup) /\ Head(Dedup) = "prune" /\ Dedup # <<>>
  BY PlansWritten DEF PlanOf, Orderly, PhaseName
<1>4. PlanOf("one", Single) /\ Head(Single) = "single" /\ Single # <<>>
  BY PlansWritten DEF PlanOf, Orderly, PhaseName
<1> QED
  BY <1>1, <1>2, <1>3, <1>4

\* What is left of a plan when its first phase is over.
LEMMA TailPlan ==
    ASSUME NEW c, NEW p, PlanOf(c, p), p # <<>>
    PROVE  /\ Head(p) \in PhaseName
           /\ Head(p) = "probe" => c = "job"
           /\ Head(p) = "single" => c = "one"
           /\ PlanOf(c, Tail(p))
           /\ Tail(p) # <<>> =>
                 /\ Head(Tail(p)) \notin {"prune", "single"}
                 /\ Head(Tail(p)) = "judge" => Head(p) = "test"
                 /\ Head(Tail(p)) = "keep" => Head(p) \in {"test", "judge"}
<1> DEFINE t == Tail(p)
<1>1. /\ p \in Seq(PhaseName) /\ Len(p) \in Nat /\ Len(p) >= 1
      /\ Head(p) = p[1] /\ Head(p) \in PhaseName
      /\ t \in Seq(PhaseName) /\ Len(t) = Len(p) - 1
      /\ \A i \in 1 .. Len(p) - 1 : t[i] = p[i + 1]
  BY EmptySeq, HeadTailProperties, LenProperties DEF PlanOf, Orderly
<1>2. Orderly(t)
  <2>1. ASSUME NEW i \in 1 .. Len(t) - 1
        PROVE  /\ i + 1 \in 1 .. Len(p) - 1
               /\ t[i] = p[i + 1] /\ t[i + 1] = p[(i + 1) + 1]
    BY <1>1
  <2> QED
    BY <1>1, <2>1 DEF PlanOf, Orderly
<1>3. PlanOf(c, t)
  BY <1>1, <1>2 DEF PlanOf
<1>4. ASSUME t # <<>>
      PROVE  1 \in 1 .. Len(p) - 1 /\ Head(t) = p[1 + 1]
  BY <1>1, <1>4, EmptySeq, HeadTailProperties, LenProperties
<1>5. 1 \in 1 .. Len(p)
  BY <1>1
<1> QED
  BY <1>1, <1>3, <1>4, <1>5 DEF PlanOf, Orderly

-----------------------------------------------------------------------------
(* Types.                                                                   *)

Reading == [k : {"none", "ok", "error"}, ip : IP \cup {NoIP}, good : BOOLEAN]
Rows == [Slot -> SlotRow]

TablesOK ==
    /\ accounts \in [Account -> AccountRow]
    /\ slots \in Rows
    /\ running \subseteq Account
    /\ isKeeper \subseteq Account
    /\ errors \in [Account -> 0 .. ErrorsToFail]
    /\ world \in [Account -> Seen]

LocalsOK ==
    /\ todo \in [Actor -> SUBSET Slot]
    /\ batch \in [Actor -> SUBSET Account]
    /\ results \in [Actor -> [Account -> Reading]]
    /\ bound \in [Actor -> SUBSET Account]
    /\ snap \in [Actor -> Rows \cup {<<>>}]
    /\ missing \in [Actor -> Nat]

HistoryOK ==
    /\ before \in [Actor -> Rows \cup {<<>>}]
    /\ events \in 0 .. MaxEvents
    /\ tests \in 0 .. MaxTests

\* What the probe has read: the slots it still has to visit had accounts.
ProbeReads ==
    \A c \in Actor : Acts(c, "probe") =>
        snap[c] \in Rows /\ \A s \in todo[c] : snap[c][s].account \in Account

\* Slots that are visited are in use.
VisitsInUse == \A c \in Actor : \A s \in todo[c] : slots[s].status = "active"

TypeOK == PlansOK /\ TablesOK /\ LocalsOK /\ HistoryOK /\ ProbeReads /\ VisitsInUse

-----------------------------------------------------------------------------
(* The helpers.                                                             *)

LEMMA RowTypes ==
    /\ AbsentAccount \in AccountRow /\ NewAccount \in AccountRow
    /\ EmptySlot \in SlotRow
    /\ NoResult \in Reading /\ NoResults \in [Account -> Reading]
BY StoreAssumption DEF AbsentAccount, NewAccount, EmptySlot, NoResult, NoResults, AccountRow, SlotRow, Reading

\* The statements keep the row's type and its status; of those that keep its
\* account, only one changes the address it is pinned to, and none but the
\* marks of a failure can make it fail.
LEMMA Statements ==
    ASSUME NEW row \in SlotRow, NEW ip \in IP \cup {NoIP}
    PROVE  /\ \A a \in Account : /\ AssignProxySlotAccount(row, a, ip) \in SlotRow
                                 /\ AssignProxySlotAccount(row, a, ip).status = row.status
                                 /\ AssignProxySlotAccount(row, a, ip).account = a
           /\ UnassignProxySlot(row) \in SlotRow
           /\ UnassignProxySlot(row).status = row.status
           /\ UnassignProxySlot(row).account = NoAccount
           /\ SetProxySlotPinnedIP(row, ip) \in SlotRow
           /\ SetProxySlotPinnedIP(row, ip).status = row.status
           /\ SetProxySlotPinnedIP(row, ip).account = row.account
           /\ \A r \in {ClearProxySlotError(row), MarkProxySlotError(row),
                        MarkProxySlotIPDrift(row), MarkProxySlotProbeFailure(row)} :
                 r \in SlotRow /\ r.status = row.status /\ r.account = row.account /\ r.pin = row.pin
           /\ ~ Failing(ClearProxySlotError(row))
           /\ Failing(MarkProxySlotError(row)) = Failing(row)
<1>1. /\ row.status \in {"active", "disabled"} /\ row.account \in Account \cup {NoAccount}
      /\ row.pin \in IP \cup {NoIP} /\ row.probe \in 0 .. RebindAfter /\ row.drift \in 0 .. DriftAfter
      /\ row.err \in BOOLEAN
  BY DEF SlotRow
<1>2. /\ RebindAfter \in Nat \ {0} /\ DriftAfter \in Nat \ {0}
      /\ 0 \in 0 .. RebindAfter /\ 0 \in 0 .. DriftAfter
      /\ row.probe < RebindAfter => row.probe + 1 \in 0 .. RebindAfter
      /\ row.drift < DriftAfter => row.drift + 1 \in 0 .. DriftAfter
  BY <1>1, StoreAssumption
<1>3. \A a \in Account : /\ AssignProxySlotAccount(row, a, ip) \in SlotRow
                         /\ AssignProxySlotAccount(row, a, ip).status = row.status
                         /\ AssignProxySlotAccount(row, a, ip).account = a
  BY <1>1, <1>2 DEF AssignProxySlotAccount, SlotRow
<1>4. /\ UnassignProxySlot(row) \in SlotRow
      /\ UnassignProxySlot(row).status = row.status
      /\ UnassignProxySlot(row).account = NoAccount
  BY <1>1, <1>2 DEF UnassignProxySlot, SlotRow
<1>5. /\ SetProxySlotPinnedIP(row, ip) \in SlotRow
      /\ SetProxySlotPinnedIP(row, ip).status = row.status
      /\ SetProxySlotPinnedIP(row, ip).account = row.account
  BY <1>1, <1>2 DEF SetProxySlotPinnedIP, SlotRow
<1>6. /\ ClearProxySlotError(row) \in SlotRow
      /\ ClearProxySlotError(row).status = row.status
      /\ ClearProxySlotError(row).account = row.account
      /\ ClearProxySlotError(row).pin = row.pin
      /\ ClearProxySlotError(row).probe = 0 /\ ClearProxySlotError(row).drift = 0
  BY <1>1, <1>2 DEF ClearProxySlotError, SlotRow
<1>7. ~ Failing(ClearProxySlotError(row))
  BY <1>2, <1>6 DEF Failing
<1>8. /\ MarkProxySlotError(row) \in SlotRow
      /\ MarkProxySlotError(row).status = row.status
      /\ MarkProxySlotError(row).account = row.account
      /\ MarkProxySlotError(row).pin = row.pin
      /\ Failing(MarkProxySlotError(row)) = Failing(row)
  BY <1>1, <1>2 DEF MarkProxySlotError, SlotRow, Failing
<1>9. /\ MarkProxySlotIPDrift(row) \in SlotRow
      /\ MarkProxySlotIPDrift(row).status = row.status
      /\ MarkProxySlotIPDrift(row).account = row.account
      /\ MarkProxySlotIPDrift(row).pin = row.pin
  BY <1>1, <1>2 DEF MarkProxySlotIPDrift, SlotRow
<1>10. /\ MarkProxySlotProbeFailure(row) \in SlotRow
      /\ MarkProxySlotProbeFailure(row).status = row.status
      /\ MarkProxySlotProbeFailure(row).account = row.account
      /\ MarkProxySlotProbeFailure(row).pin = row.pin
  BY <1>1, <1>2 DEF MarkProxySlotProbeFailure, SlotRow
<1> QED
  BY <1>3, <1>4, <1>5, <1>6, <1>8, <1>9, <1>10, <1>7

LEMMA MeasuredType ==
    ASSUME TablesOK, NEW a \in Account, NEW tunnels
    PROVE  /\ measured(a, tunnels) \in Reading
           /\ measured(a, tunnels).k = "ok" => /\ world[a].up /\ a \in tunnels
                                               /\ measured(a, tunnels).ip = world[a].ip
                                               /\ world[a].ip \in IP
           /\ world[a].up /\ a \in tunnels => measured(a, tunnels).k = "ok"
<1>1. world[a].up \in BOOLEAN /\ world[a].ip \in IP /\ world[a].good \in BOOLEAN
  BY DEF TablesOK, Seen
<1> QED
  BY <1>1 DEF measured, Reading

\* What the verdict of a probe may do to a slot.
LEMMA ProbedRow ==
    ASSUME NEW s \in Slot, slots[s] \in SlotRow, NEW row \in SlotRow, NEW seen \in Reading
    PROVE  /\ probed(s, row, seen) \in SlotRow
           /\ probed(s, row, seen).status = slots[s].status
           /\ probed(s, row, seen).account = slots[s].account
<1> DEFINE pinned == SetProxySlotPinnedIP(slots[s], seen.ip)
<1>1. seen.ip \in IP \cup {NoIP}
  BY DEF Reading
<1>2. pinned \in SlotRow /\ pinned.status = slots[s].status /\ pinned.account = slots[s].account
  BY <1>1, Statements
<1>3. \A r \in SlotRow : /\ ClearProxySlotError(r) \in SlotRow
                         /\ ClearProxySlotError(r).status = r.status
                         /\ ClearProxySlotError(r).account = r.account
  BY <1>1, Statements
<1>4. \A r \in {ClearProxySlotError(slots[s]), MarkProxySlotIPDrift(slots[s]), MarkProxySlotProbeFailure(slots[s]),
                slots[s], pinned, ClearProxySlotError(pinned)} :
         r \in SlotRow /\ r.status = slots[s].status /\ r.account = slots[s].account
  BY <1>1, <1>2, <1>3, Statements
<1>5. probed(s, row, seen) \in {ClearProxySlotError(slots[s]), MarkProxySlotIPDrift(slots[s]),
                               MarkProxySlotProbeFailure(slots[s]), slots[s], pinned, ClearProxySlotError(pinned)}
  BY DEF probed
<1> QED
  BY <1>4, <1>5

\* What a pass may do to a slot.
LEMMA ReboundRow ==
    ASSUME TablesOK, NEW s \in Slot, NEW row \in rebound(s)
    PROVE  /\ row \in SlotRow /\ row.status = slots[s].status
           /\ row.account \in {slots[s].account, NoAccount} \cup candidates(s)
<1>1. slots[s] \in SlotRow /\ \A a \in Account : accounts[a].ip \in IP \cup {NoIP}
  BY DEF TablesOK, Rows, AccountRow
<1>2. candidates(s) \subseteq Account
  BY DEF candidates, TablesOK
<1>3. CASE keeps(s)
  <2>1. row \in {slots[s], ClearProxySlotError(slots[s])}
    BY <1>3 DEF rebound
  <2> QED
    BY <1>1, <2>1, Statements
<1>4. CASE ~ keeps(s) /\ candidates(s) # {}
  <2>1. PICK a \in candidates(s) : row = AssignProxySlotAccount(slots[s], a, accounts[a].ip)
    BY <1>4 DEF rebound
  <2> QED
    BY <1>1, <1>2, <2>1, Statements
<1>5. CASE ~ keeps(s) /\ candidates(s) = {}
  <2>1. row \in {UnassignProxySlot(slots[s]), MarkProxySlotError(slots[s])}
    BY <1>5 DEF rebound
  <2> QED
    BY <1>1, <2>1, Statements
<1> QED
  BY <1>3, <1>4, <1>5

-----------------------------------------------------------------------------
(* What every phase has in common.                                          *)

Frame(c) ==
    /\ plan[c] # <<>>
    /\ Reads(c) \/ Over(c) \/ Stops(c) \/ UNCHANGED <<plan, ready>>
    /\ Moves(c) \/ Noticed
    /\ UNCHANGED <<world, tests>>
    /\ events' = events \/ (events < MaxEvents /\ events' = events + 1)

LEMMA PhaseFrame ==
    ASSUME NEW c \in Actor, Phase(c)
    PROVE  Frame(c)
<1> USE DEF Frame, Begins, Acts
<1>1. CASE Measure(c) \/ SaveResults(c) \/ TestAccount(c) \/ Verdict(c)
  BY <1>1 DEF Measure, SaveResults, TestAccount, Verdict
<1>2. CASE ListStoredBad(c) \/ PruneStored(c) \/ ListBound(c) \/ Judge(c) \/ ReadTested(c) \/ Keep(c)
  BY <1>2 DEF ListStoredBad, PruneStored, ListBound, Judge, ReadTested, Keep, ReadBound
<1>3. CASE ReadSlots(c) \/ Probed(c) \/ BeginPass(c) \/ EndPass(c) \/ Register(c)
  BY <1>3 DEF ReadSlots, Probed, BeginPass, EndPass, Register
<1>4. ASSUME NEW s \in Slot, Probe(c, s) \/ Rebind(c, s)
      PROVE  Frame(c)
  BY <1>4 DEF Probe, Rebind
<1> QED
  BY <1>1, <1>2, <1>3, <1>4 DEF Phase

\* The other steps: an actor starts, or the world or the panel interferes.
Starts(c) ==
    /\ \E p : Start(c, p) /\ PlanOf(c, p) /\ p # <<>> /\ Head(p) \in {"rebind", "test", "prune", "single"}
    /\ events' = events
    /\ tests' = tests \/ (tests < MaxTests /\ tests' = tests + 1)

LEMMA StepCases ==
    ASSUME [Next]_vars
    PROVE  \/ \E c \in Actor : Starts(c) \/ Phase(c)
           \/ \E a \in Account : WorldMoves(a) \/ PanelDeletes(a)
           \/ UNCHANGED vars
<1>1. CASE StartProbe \/ \E p \in {Testing, Dedup} : Start("job", p) /\ UNCHANGED <<events, tests>>
  BY <1>1, StartPlans DEF StartProbe, Starts, Actor
<1>2. CASE PanelTests
  BY <1>2, StartPlans DEF PanelTests, Starts, Actor
<1> QED
  BY <1>1, <1>2 DEF Next

-----------------------------------------------------------------------------
(* Types are kept.                                                          *)

LEMMA StepPlans == PlansOK /\ [Next]_vars => PlansOK'
<1> SUFFICES ASSUME PlansOK, [Next]_vars
             PROVE  PlansOK'
  OBVIOUS
<1>1. CASE UNCHANGED <<plan, ready>>
  BY <1>1 DEF PlansOK
<1>2. ASSUME NEW c \in Actor, NEW q, q \in {Tail(plan[c]), <<>>}, plan[c] # <<>>,
             plan' = [plan EXCEPT ![c] = q], ready' = [ready EXCEPT ![c] = FALSE]
      PROVE  PlansOK'
  <2>1. PlanOf(c, q)
    <3>1. PlanOf(c, <<>>)
      <4>1. <<>> \in Seq(PhaseName) /\ Len(<<>>) = 0
        BY EmptySeq
      <4> QED
        BY <4>1 DEF PlanOf, Orderly
    <3>2. PlanOf(c, Tail(plan[c]))
      BY <1>2, TailPlan DEF PlansOK
    <3> QED
      BY <1>2, <3>1, <3>2
  <2>2. q \in Seq(PhaseName)
    BY <2>1 DEF PlanOf, Orderly
  <2> QED
    BY <1>2, <2>1, <2>2 DEF PlansOK
<1>3. ASSUME NEW c \in Actor, Phase(c)
      PROVE  PlansOK'
  <2>1. Frame(c)
    BY <1>3, PhaseFrame
  <2>2. CASE Reads(c)
    BY <2>1, <2>2 DEF Frame, Reads, PlansOK
  <2>3. CASE Over(c)
    BY <1>2, <2>1, <2>3 DEF Frame, Over
  <2>4. CASE Stops(c)
    BY <1>2, <2>1, <2>4 DEF Frame, Stops
  <2> QED
    BY <1>1, <2>1, <2>2, <2>3, <2>4 DEF Frame
<1>4. ASSUME NEW c \in Actor, Starts(c)
      PROVE  PlansOK'
  <2>1. PICK p : Start(c, p) /\ PlanOf(c, p) /\ p # <<>>
    BY <1>4 DEF Starts
  <2>2. p \in Seq(PhaseName)
    BY <2>1 DEF PlanOf, Orderly
  <2> QED
    BY <2>1, <2>2 DEF Start, PlansOK
<1>5. ASSUME NEW a \in Account, WorldMoves(a) \/ PanelDeletes(a)
      PROVE  PlansOK'
  BY <1>1, <1>5 DEF WorldMoves, PanelDeletes
<1> QED
  BY <1>1, <1>3, <1>4, <1>5, StepCases DEF vars

LEMMA StepHistory == TablesOK /\ HistoryOK /\ [Next]_vars => HistoryOK'
<1> SUFFICES ASSUME TablesOK, HistoryOK, [Next]_vars
             PROVE  HistoryOK'
  OBVIOUS
<1>1. ASSUME NEW c \in Actor, Moves(c)
      PROVE  before' \in [Actor -> Rows \cup {<<>>}]
  BY <1>1 DEF Moves, HistoryOK
<1>2. ASSUME Noticed
      PROVE  before' \in [Actor -> Rows \cup {<<>>}]
  BY <1>2 DEF Noticed
<1>3. ASSUME NEW c \in Actor, NEW p, Start(c, p)
      PROVE  before' \in [Actor -> Rows \cup {<<>>}]
  BY <1>3 DEF Start, TablesOK
<1>4. ASSUME events < MaxEvents
      PROVE  events + 1 \in 0 .. MaxEvents
  BY <1>4, CareAssumption DEF HistoryOK
<1>5. ASSUME tests < MaxTests
      PROVE  tests + 1 \in 0 .. MaxTests
  BY <1>5, CareAssumption DEF HistoryOK
<1>6. ASSUME NEW c \in Actor, Phase(c)
      PROVE  HistoryOK'
  BY <1>1, <1>2, <1>4, <1>6, PhaseFrame DEF Frame, HistoryOK
<1>7. ASSUME NEW c \in Actor, Starts(c)
      PROVE  HistoryOK'
  BY <1>3, <1>5, <1>7 DEF Starts, HistoryOK
<1>8. ASSUME NEW a \in Account, WorldMoves(a) \/ PanelDeletes(a)
      PROVE  HistoryOK'
  BY <1>2, <1>4, <1>8 DEF WorldMoves, PanelDeletes, HistoryOK
<1> QED
  BY <1>6, <1>7, <1>8, StepCases DEF vars, HistoryOK

LEMMA DeletedType ==
    ASSUME TablesOK, NEW gone, Deleted(gone)
    PROVE  /\ accounts' \in [Account -> AccountRow]
           /\ slots' \in Rows
           /\ \A s \in Slot : /\ slots'[s].status = slots[s].status
                              /\ slots[s].account \notin gone => slots'[s] = slots[s]
                              /\ slots[s].account \in gone => slots'[s].account = NoAccount
           /\ isKeeper' \subseteq Account
           /\ errors' \in [Account -> 0 .. ErrorsToFail]
<1>1. accounts' \in [Account -> AccountRow]
  BY RowTypes DEF TablesOK, Deleted
<1>2. ASSUME NEW s \in Slot
      PROVE  /\ slots'[s] = IF slots[s].account \in gone THEN UnassignProxySlot(slots[s]) ELSE slots[s]
             /\ slots[s] \in SlotRow /\ UnassignProxySlot(slots[s]) \in SlotRow
             /\ UnassignProxySlot(slots[s]).status = slots[s].status
             /\ UnassignProxySlot(slots[s]).account = NoAccount
  BY StoreAssumption, Statements DEF TablesOK, Deleted, Rows
<1>3. slots' \in Rows
  <2>1. slots' = [s \in Slot |-> IF slots[s].account \in gone THEN UnassignProxySlot(slots[s]) ELSE slots[s]]
    BY DEF Deleted
  <2> QED
    BY <1>2, <2>1 DEF Rows
<1>4. isKeeper' \subseteq Account /\ errors' \in [Account -> 0 .. ErrorsToFail]
  BY CareAssumption DEF TablesOK, Deleted
<1> QED
  BY <1>1, <1>2, <1>3, <1>4

LEMMA SavedType ==
    ASSUME TablesOK, NEW here, NEW res \in [Account -> Reading], Saved(here, res)
    PROVE  /\ accounts' \in [Account -> AccountRow]
           /\ errors' \in [Account -> 0 .. ErrorsToFail]
<1>1. ASSUME NEW a \in Account
      PROVE  /\ errors[a] \in 0 .. ErrorsToFail /\ 0 \in 0 .. ErrorsToFail
             /\ errors[a] < ErrorsToFail => errors[a] + 1 \in 0 .. ErrorsToFail
  BY CareAssumption DEF TablesOK
<1>2. errors' \in [Account -> 0 .. ErrorsToFail]
  BY <1>1 DEF Saved
<1>3. ASSUME NEW a \in Account
      PROVE  /\ accounts[a] \in AccountRow
             /\ [accounts[a] EXCEPT !.ip = res[a].ip, !.good = res[a].good] \in AccountRow
             /\ [accounts[a] EXCEPT !.status = "error"] \in AccountRow
  BY DEF TablesOK, AccountRow, Reading
<1>4. accounts' \in [Account -> AccountRow]
  BY <1>3 DEF Saved
<1> QED
  BY <1>2, <1>4

\* How a phase may change the rows of the slots.
SlotsKept == slots' \in Rows /\ \A s \in Slot : slots'[s].status = slots[s].status

\* TablesOK, and no status of a slot changes.
LEMMA PhaseTables ==
    ASSUME TypeOK, NEW c \in Actor, Phase(c)
    PROVE  TablesOK' /\ SlotsKept
<1> USE DEF TypeOK
<1> Active \subseteq Account /\ There \subseteq Account
  BY DEF Active, There
<1>1. CASE UNCHANGED <<accounts, slots, isKeeper, errors, world>> /\ running' \subseteq Account
  BY <1>1 DEF TablesOK, SlotsKept
<1>2. UNCHANGED world
  BY PhaseFrame DEF Frame
<1>3. CASE Measure(c)
  BY <1>1, <1>3 DEF Measure
<1>4. CASE SaveResults(c)
  BY <1>2, <1>4, SavedType DEF SaveResults, LocalsOK, TablesOK, SlotsKept
<1>5. CASE TestAccount(c)
  BY <1>1, <1>5 DEF TestAccount
<1>6. CASE Verdict(c)
  <2>1. PICK a \in batch[c] : Deleted({a}) \/ (Saved({a} \cap There, results[c]) /\ UNCHANGED <<slots, isKeeper>>)
    BY <1>6 DEF Verdict
  <2>2. results[c] \in [Account -> Reading] /\ UNCHANGED running
    BY <1>6 DEF Verdict, LocalsOK
  <2>3. CASE Deleted({a})
    BY <1>2, <2>2, <2>3, DeletedType DEF TablesOK, SlotsKept
  <2>4. CASE Saved({a} \cap There, results[c]) /\ UNCHANGED <<slots, isKeeper>>
    BY <1>2, <2>2, <2>4, SavedType DEF TablesOK, SlotsKept
  <2> QED
    BY <2>1, <2>3, <2>4
<1>7. CASE ListStoredBad(c) \/ ListBound(c) \/ ReadTested(c) \/ ReadSlots(c) \/ BeginPass(c)
  BY <1>1, <1>7 DEF ListStoredBad, ListBound, ReadTested, ReadSlots, BeginPass, tables, TablesOK
<1>8. CASE PruneStored(c) \/ Judge(c)
  <2>1. PICK gone \in SUBSET Account : Deleted(gone) /\ UNCHANGED running
    <3>1. batch[c] \ bound[c] \subseteq Account /\ judged(c) \subseteq Account
      BY DEF judged, LocalsOK
    <3> QED
      BY <1>8, <3>1 DEF PruneStored, Judge
  <2> QED
    BY <1>2, <2>1, DeletedType DEF TablesOK, SlotsKept
<1>9. CASE Keep(c)
  <2>1. PICK keeperOf, gone :
           /\ accounts' = [a \in Account |-> IF a \in gone THEN AbsentAccount ELSE accounts[a]]
           /\ slots' = [s \in Slot |-> IF slots[s].account \in gone THEN UnassignProxySlot(slots[s]) ELSE slots[s]]
           /\ errors' = [a \in Account |-> IF a \in gone THEN 0 ELSE errors[a]]
           /\ isKeeper' = SetIPKeepers(keeperOf) \ gone
    BY <1>9 DEF Keep
  <2>2. SetIPKeepers(keeperOf) \subseteq Account
    BY DEF SetIPKeepers
  <2>3. accounts' \in [Account -> AccountRow] /\ errors' \in [Account -> 0 .. ErrorsToFail]
    BY <2>1, RowTypes, CareAssumption DEF TablesOK
  <2>4. ASSUME NEW s \in Slot
        PROVE  /\ slots[s] \in SlotRow /\ UnassignProxySlot(slots[s]) \in SlotRow
               /\ UnassignProxySlot(slots[s]).status = slots[s].status
    BY StoreAssumption, Statements DEF TablesOK, Rows
  <2>5. SlotsKept
    BY <2>1, <2>4 DEF SlotsKept, Rows
  <2>6. isKeeper' \subseteq Account
    BY <2>1, <2>2
  <2> QED
    BY <1>2, <1>9, <2>3, <2>5, <2>6 DEF Keep, TablesOK, SlotsKept
<1>10. CASE Probed(c) \/ EndPass(c)
  BY <1>1, <1>10 DEF Probed, EndPass, TablesOK
<1>11. CASE Register(c)
  <2>1. accounts' \in [Account -> AccountRow]
    BY <1>11, RowTypes DEF Register, TablesOK
  <2>2. running' \subseteq Account /\ UNCHANGED <<slots, isKeeper, errors>>
    BY <1>11 DEF Register, TablesOK
  <2> QED
    BY <1>2, <2>1, <2>2 DEF TablesOK, SlotsKept
<1>12. ASSUME NEW s \in Slot, Probe(c, s)
       PROVE  TablesOK' /\ SlotsKept
  <2> DEFINE row == snap[c][s]
             seen == measured(row.account, running)
  <2>1. row \in SlotRow /\ row.account \in Account
    BY <1>12 DEF Probe, ProbeReads, Rows
  <2>2. seen \in Reading /\ (seen.k = "ok" => seen.ip \in IP) /\ slots[s] \in SlotRow
    BY <2>1, MeasuredType DEF TablesOK, Rows
  <2>3. /\ slots' = [slots EXCEPT ![s] = probed(s, row, seen)]
        /\ running' \subseteq running
        /\ accounts' = accounts \/ (seen.k = "ok" /\ accounts' = [accounts EXCEPT ![row.account].ip = seen.ip])
        /\ UNCHANGED <<isKeeper, errors>>
    BY <1>12 DEF Probe
  <2>4. SlotsKept
    <3>1. probed(s, row, seen) \in SlotRow /\ probed(s, row, seen).status = slots[s].status
      BY <2>1, <2>2, ProbedRow
    <3> QED
      BY <2>3, <3>1 DEF SlotsKept, TablesOK, Rows
  <2>5. accounts' \in [Account -> AccountRow]
    BY <2>1, <2>2, <2>3 DEF TablesOK, AccountRow
  <2> QED
    BY <1>2, <2>3, <2>4, <2>5 DEF TablesOK, SlotsKept
<1>13. ASSUME NEW s \in Slot, Rebind(c, s)
       PROVE  TablesOK' /\ SlotsKept
  <2>1. PICK row \in rebound(s) : slots' = [slots EXCEPT ![s] = row]
    BY <1>13 DEF Rebind
  <2>2. row \in SlotRow /\ row.status = slots[s].status
    BY <2>1, ReboundRow
  <2>3. SlotsKept
    BY <2>1, <2>2 DEF SlotsKept, TablesOK, Rows
  <2> QED
    BY <1>2, <1>13, <2>3 DEF Rebind, TablesOK, SlotsKept
<1> QED
  BY <1>3, <1>4, <1>5, <1>6, <1>7, <1>8, <1>9, <1>10, <1>11, <1>12, <1>13 DEF Phase

LEMMA OutsideTables ==
    ASSUME TypeOK, NEW a \in Account, WorldMoves(a) \/ PanelDeletes(a)
    PROVE  TablesOK' /\ SlotsKept
<1> USE DEF TypeOK
<1>1. CASE WorldMoves(a)
  <2>1. world' \in [Account -> Seen]
    <3>1. world[a].up \in BOOLEAN /\ world[a].ip \in IP /\ world[a].good \in BOOLEAN
      BY DEF TablesOK, Seen
    <3>2. \E seen \in Seen : world' = [world EXCEPT ![a] = seen]
      <4>1. CASE world' = [world EXCEPT ![a].up = ~@]
        <5>1. [world[a] EXCEPT !.up = ~@] \in Seen
          BY <3>1 DEF TablesOK, Seen
        <5> QED
          BY <4>1, <5>1
      <4>2. CASE world' = [world EXCEPT ![a].good = ~@]
        <5>1. [world[a] EXCEPT !.good = ~@] \in Seen
          BY <3>1 DEF TablesOK, Seen
        <5> QED
          BY <4>2, <5>1
      <4>3. ASSUME NEW ip \in IP, world' = [world EXCEPT ![a].ip = ip]
            PROVE  \E seen \in Seen : world' = [world EXCEPT ![a] = seen]
        <5>1. [world[a] EXCEPT !.ip = ip] \in Seen
          BY <3>1 DEF TablesOK, Seen
        <5> QED
          BY <4>3, <5>1
      <4> QED
        BY <1>1, <4>1, <4>2, <4>3 DEF WorldMoves
    <3> QED
      BY <3>2 DEF TablesOK
  <2> QED
    BY <1>1, <2>1 DEF WorldMoves, tables, TablesOK, SlotsKept
<1>2. CASE PanelDeletes(a)
  BY <1>2, DeletedType DEF PanelDeletes, TablesOK, SlotsKept
<1> QED
  BY <1>1, <1>2

LEMMA PhaseLocals ==
    ASSUME TypeOK, NEW c \in Actor, Phase(c)
    PROVE  LocalsOK'
<1> USE DEF TypeOK, LocalsOK
<1> Active \subseteq Account /\ There \subseteq Account
  BY DEF Active, There
<1>1. ASSUME NEW tunnels
      PROVE  \A a \in Account : measured(a, tunnels) \in Reading
  BY MeasuredType
<1>2. ASSUME ReadBound(c)
      PROVE  bound' \in [Actor -> SUBSET Account]
  <2>1. {slots[s].account : s \in {t \in Slot : slots[t].status = "active"}} \ {NoAccount} \subseteq Account
    BY DEF TablesOK, Rows, SlotRow
  <2> QED
    BY <1>2, <2>1 DEF ReadBound
<1>3. CASE Measure(c)
  <2>1. [a \in Account |-> IF a \in Active THEN measured(a, Active) ELSE NoResult] \in [Account -> Reading]
    BY <1>1, RowTypes
  <2> QED
    BY <1>3, <2>1 DEF Measure
<1>4. CASE SaveResults(c)
  BY <1>4 DEF SaveResults, locals
<1>5. CASE TestAccount(c)
  <2>1. PICK a \in There : /\ batch' = [batch EXCEPT ![c] = {a}]
                           /\ results' = [results EXCEPT ![c][a] = measured(a, Active)]
    BY <1>5 DEF TestAccount
  <2>2. measured(a, Active) \in Reading
    BY <1>1
  <2>3. results' \in [Actor -> [Account -> Reading]]
    BY <2>1, <2>2
  <2> QED
    BY <1>5, <2>1, <2>3 DEF TestAccount
<1>6. CASE Verdict(c)
  BY <1>6, RowTypes DEF Verdict
<1>7. CASE ListStoredBad(c)
  <2>1. batch' \in [Actor -> SUBSET Account]
    BY <1>7 DEF ListStoredBad
  <2> QED
    BY <1>2, <1>7, <2>1 DEF ListStoredBad
<1>8. CASE PruneStored(c)
  BY <1>8 DEF PruneStored
<1>9. CASE Judge(c)
  BY <1>9 DEF Judge
<1>10. CASE Keep(c)
  BY <1>10, RowTypes DEF Keep
<1>11. CASE ListBound(c)
  BY <1>2, <1>11 DEF ListBound
<1>12. CASE ReadTested(c)
  BY <1>2, <1>12 DEF ReadTested
<1>13. CASE ReadSlots(c)
  BY <1>13 DEF ReadSlots, TablesOK
<1>14. CASE BeginPass(c)
  BY <1>14 DEF BeginPass, TablesOK
<1>15. CASE Probed(c)
  BY <1>15 DEF Probed
<1>16. CASE EndPass(c)
  BY <1>16 DEF EndPass
<1>17. CASE Register(c)
  BY <1>17 DEF Register
<1>18. ASSUME NEW s \in Slot, Probe(c, s)
       PROVE  LocalsOK'
  <2>1. snap[c][s].account \in Account
    BY <1>18 DEF Probe, ProbeReads
  <2> QED
    BY <1>18, <2>1 DEF Probe
<1>19. ASSUME NEW s \in Slot, Rebind(c, s)
       PROVE  LocalsOK'
  BY <1>19 DEF Rebind
<1> QED
  BY <1>3, <1>4, <1>5, <1>6, <1>7, <1>8, <1>11, <1>13, <1>15, <1>18, <1>19, <1>9, <1>10, <1>12,
     <1>14, <1>16, <1>17 DEF Phase

\* The lists of slots to visit grow only when a phase reads the slots.
LEMMA PhaseVisits ==
    ASSUME TypeOK, NEW c \in Actor, Phase(c)
    PROVE  VisitsInUse'
<1>1. SlotsKept
  BY PhaseTables
<1>2. ASSUME \A d \in Actor : todo'[d] \subseteq todo[d]
      PROVE  VisitsInUse'
  <2>1. \A d \in Actor : todo[d] \subseteq Slot
    BY DEF TypeOK, LocalsOK
  <2> QED
    BY <1>1, <1>2, <2>1 DEF SlotsKept, VisitsInUse, TypeOK
<1>3. CASE ReadSlots(c) \/ BeginPass(c)
  <2>1. /\ \A s \in todo'[c] : s \in Slot /\ slots[s].status = "active"
        /\ \A d \in Actor \ {c} : todo'[d] = todo[d] /\ todo[d] \subseteq Slot
    BY <1>3 DEF ReadSlots, BeginPass, TypeOK, LocalsOK
  <2> QED
    BY <1>1, <2>1 DEF SlotsKept, VisitsInUse, TypeOK
<1>4. ASSUME NEW s \in Slot, Probe(c, s) \/ Rebind(c, s)
      PROVE  VisitsInUse'
  BY <1>2, <1>4 DEF Probe, Rebind, TypeOK, LocalsOK
<1>5. CASE UNCHANGED todo
  BY <1>2, <1>5
<1> QED
  BY <1>3, <1>4, <1>5
     DEF Phase, Measure, SaveResults, TestAccount, Verdict, ListStoredBad, PruneStored, ListBound, Judge,
         ReadTested, Keep, Probed, EndPass, Register, locals

LEMMA PhaseReads ==
    ASSUME TypeOK, NEW c \in Actor, Phase(c)
    PROVE  ProbeReads'
<1> USE DEF TypeOK
<1>1. PlansOK' /\ LocalsOK'
  BY StepPlans, PhaseLocals DEF Next
<1>2. ASSUME NEW d \in Actor \ {c}
      PROVE  /\ plan'[d] = plan[d] /\ ready'[d] = ready[d]
             /\ todo'[d] = todo[d] /\ snap'[d] = snap[d]
  <2>1. plan'[d] = plan[d] /\ ready'[d] = ready[d]
    BY PhaseFrame DEF Frame, Reads, Over, Stops, PlansOK
  <2>2. todo'[d] = todo[d] /\ snap'[d] = snap[d]
    BY DEF Phase, Measure, SaveResults, TestAccount, Verdict, ListStoredBad, PruneStored, ListBound, Judge,
           ReadTested, Keep, ReadSlots, Probed, BeginPass, EndPass, Register, Probe, Rebind, locals, LocalsOK
  <2> QED
    BY <2>1, <2>2
<1>3. ASSUME Acts(c, "probe")'
      PROVE  snap'[c] \in Rows /\ \A s \in todo'[c] : snap'[c][s].account \in Account
  <2>1. CASE ReadSlots(c)
    BY <2>1 DEF ReadSlots, TablesOK, LocalsOK, Active
  <2>2. ASSUME NEW s \in Slot, Probe(c, s)
        PROVE  snap'[c] \in Rows /\ \A t \in todo'[c] : snap'[c][t].account \in Account
    BY <2>2 DEF Probe, ProbeReads, LocalsOK
  <2>3. CASE ~ ready'[c]
    BY <1>3, <2>3 DEF Acts
  <2>4. CASE \E phase \in PhaseName \ {"probe"} : Head(plan[c]) = phase /\ plan'[c] = plan[c]
    BY <1>3, <2>4 DEF Acts
  <2> QED
    BY <2>1, <2>2, <2>3, <2>4
       DEF Phase, Measure, SaveResults, TestAccount, Verdict, ListStoredBad, PruneStored, ListBound, Judge,
           ReadTested, Keep, Probed, BeginPass, EndPass, Register, Rebind, Acts, Begins, Reads, Over, Stops,
           PlansOK, PhaseName
<1> QED
  BY <1>2, <1>3 DEF ProbeReads, Acts

LEMMA InitType == Init => TypeOK
<1> SUFFICES ASSUME Init
             PROVE  TypeOK
  OBVIOUS
<1>1. PICK active \in SUBSET Account : /\ Pool(active)
                                       /\ slots \in [Slot -> {EmptySlot} \cup {BoundSlot(a) : a \in active}]
  BY DEF Init
<1> USE <1>1 DEF Pool
<1>2. PlansOK
  <2>1. PlanOf("job", <<>>) /\ PlanOf("one", <<>>) /\ <<>> \in Seq(PhaseName)
    <3>1. <<>> \in Seq(PhaseName) /\ Len(<<>>) = 0
      BY EmptySeq
    <3> QED
      BY <3>1 DEF PlanOf, Orderly
  <2> QED
    BY <2>1 DEF PlansOK, Actor
<1>3. TablesOK
  <2>1. ASSUME NEW a \in Account
        PROVE  /\ world[a] \in Seen /\ world[a].ip \in IP
               /\ \A st \in {"active", "disabled"} : [status |-> st, ip |-> world[a].ip, good |-> TRUE] \in AccountRow
               /\ BoundSlot(a) \in SlotRow
    <3>1. world[a] \in Seen /\ world[a].ip \in IP
      BY DEF Seen
    <3> QED
      BY <3>1, RowTypes DEF AccountRow, BoundSlot, SlotRow
  <2>2. accounts \in [Account -> AccountRow] /\ world \in [Account -> Seen]
    BY <2>1
  <2>3. slots \in Rows
    <3>1. {EmptySlot} \cup {BoundSlot(a) : a \in active} \subseteq SlotRow
      BY <2>1, RowTypes
    <3>2. \A s \in Slot : slots[s] \in SlotRow
      BY <1>1, <3>1
    <3> QED
      BY <1>1, <3>2 DEF Rows
  <2> QED
    BY <2>2, <2>3, CareAssumption DEF TablesOK
<1>4. LocalsOK
  BY RowTypes DEF LocalsOK
<1>5. HistoryOK
  BY CareAssumption DEF HistoryOK, Init
<1>6. ProbeReads /\ VisitsInUse
  BY DEF ProbeReads, VisitsInUse, Acts
<1> QED
  BY <1>2, <1>3, <1>4, <1>5, <1>6 DEF TypeOK

LEMMA StepType == TypeOK /\ [Next]_vars => TypeOK'
<1> SUFFICES ASSUME TypeOK, [Next]_vars
             PROVE  TypeOK'
  OBVIOUS
<1>1. PlansOK' /\ HistoryOK'
  BY StepPlans, StepHistory DEF TypeOK
<1>2. ASSUME NEW c \in Actor, Phase(c)
      PROVE  TypeOK'
  BY <1>1, <1>2, PhaseTables, PhaseLocals, PhaseReads, PhaseVisits DEF TypeOK
<1>3. ASSUME UNCHANGED locals, SlotsKept, TablesOK',
             \A c \in Actor : Acts(c, "probe")' => Acts(c, "probe")
      PROVE  TypeOK'
  BY <1>1, <1>3 DEF TypeOK, locals, LocalsOK, SlotsKept, ProbeReads, VisitsInUse
<1>4. ASSUME NEW c \in Actor, Starts(c)
      PROVE  TypeOK'
  <2>1. PICK p : Start(c, p)
    BY <1>4 DEF Starts
  <2>2. \A d \in Actor : Acts(d, "probe")' => Acts(d, "probe")
    BY <2>1 DEF Start, Acts, TypeOK, PlansOK
  <2> QED
    BY <1>3, <2>1, <2>2 DEF Start, tables, TypeOK, TablesOK, SlotsKept
<1>5. ASSUME NEW a \in Account, WorldMoves(a) \/ PanelDeletes(a)
      PROVE  TypeOK'
  BY <1>3, <1>5, OutsideTables DEF WorldMoves, PanelDeletes, Acts
<1>6. CASE UNCHANGED vars
  BY <1>3, <1>6 DEF vars, tables, TypeOK, TablesOK, SlotsKept, Acts
<1> QED
  BY <1>2, <1>4, <1>5, <1>6, StepCases

\* The accounts, the slots, and what the actors hold of them keep their types;
\* an actor's plan always is the rest of one of the four.
THEOREM TypeCorrect == Spec => []TypeOK
BY InitType, StepType, PTL DEF Spec

-----------------------------------------------------------------------------
(* Bindings.                                                                *)

\* Only slots in use are bound, and to accounts that exist.
BoundToExisting ==
    \A s \in Slot : slots[s].account # NoAccount => slots[s].account \in There /\ slots[s].status = "active"

\* The tunnel of a bound account runs as long as the account is active, unless
\* the probe has stopped it and will start it again.
BoundRuns ==
    \A s \in Slot : slots[s].account \in Active =>
        slots[s].account \in running \/ (Acts("job", "probe") /\ slots[s].account \in batch["job"])

Bindings == BoundToExisting /\ BoundRuns

LEMMA InitBindings == Init => Bindings
<1> SUFFICES ASSUME Init, NEW s \in Slot, slots[s].account # NoAccount
             PROVE  /\ slots[s].account \in There /\ slots[s].status = "active"
                    /\ slots[s].account \in running
  BY StoreAssumption DEF Bindings, BoundToExisting, BoundRuns, Active
<1>1. PICK active \in SUBSET Account : /\ Pool(active)
                                       /\ slots \in [Slot -> {EmptySlot} \cup {BoundSlot(a) : a \in active}]
  BY DEF Init
<1>2. PICK a \in active : slots[s] = BoundSlot(a)
  BY <1>1 DEF EmptySlot
<1>3. slots[s].account = a /\ slots[s].status = "active"
  BY <1>2 DEF BoundSlot, EmptySlot
<1> QED
  BY <1>1, <1>3 DEF Pool, There

\* The accounts and the slots after a deletion.
Freed(gone) ==
    /\ accounts' = [a \in Account |-> IF a \in gone THEN AbsentAccount ELSE accounts[a]]
    /\ slots' = [s \in Slot |-> IF slots[s].account \in gone THEN UnassignProxySlot(slots[s]) ELSE slots[s]]

LEMMA FreedBindings ==
    ASSUME TablesOK, NEW gone, Freed(gone)
    PROVE  /\ \A s \in Slot : /\ slots'[s].status = slots[s].status
                              /\ slots[s].account \notin gone => slots'[s] = slots[s]
                              /\ slots[s].account \in gone => slots'[s].account = NoAccount
           /\ Active' = Active \ gone /\ There' = There \ gone
           /\ \A a \in Account \ gone : accounts'[a] = accounts[a]
           /\ \A a \in Account \cap gone : accounts'[a].status = "absent"
           /\ BoundToExisting => BoundToExisting'
<1>1. ASSUME NEW s \in Slot
      PROVE  /\ slots'[s].status = slots[s].status
             /\ slots[s].account \notin gone => slots'[s] = slots[s]
             /\ slots[s].account \in gone => slots'[s].account = NoAccount
  <2>1. /\ slots[s] \in SlotRow
        /\ UnassignProxySlot(slots[s]).status = slots[s].status
        /\ UnassignProxySlot(slots[s]).account = NoAccount
    BY StoreAssumption, Statements DEF TablesOK, Rows
  <2> QED
    BY <2>1 DEF Freed
<1>2. /\ \A a \in Account \ gone : accounts'[a] = accounts[a]
      /\ \A a \in Account \cap gone : accounts'[a].status = "absent"
  BY DEF Freed, AbsentAccount
<1>3. Active' = Active \ gone /\ There' = There \ gone
  BY <1>2 DEF Active, There
<1> QED
  BY <1>1, <1>2, <1>3 DEF BoundToExisting

\* A test that is saved activates nobody and deletes nobody.
LEMMA SavedStatus ==
    ASSUME TablesOK, NEW here \in SUBSET There, NEW res \in [Account -> Reading], Saved(here, res)
    PROVE  /\ There' = There /\ Active' \subseteq Active
           /\ \A a \in Account : /\ accounts'[a].status \in {accounts[a].status, "error"}
                                 /\ res[a].k = "ok" => accounts'[a].status = accounts[a].status
                                 /\ a \in here /\ res[a].k = "ok" => accounts'[a].ip = res[a].ip
<1>1. ASSUME NEW a \in Account
      PROVE  /\ accounts'[a].status \in {accounts[a].status, "error"}
             /\ accounts[a].status = "absent" => accounts'[a].status = "absent"
             /\ res[a].k = "ok" => accounts'[a].status = accounts[a].status
             /\ a \in here /\ res[a].k = "ok" => accounts'[a].ip = res[a].ip
  BY DEF Saved, There, TablesOK, AccountRow
<1> QED
  BY <1>1 DEF There, Active

\* A probe writes addresses only.
LEMMA ProbeStatus ==
    ASSUME TablesOK, NEW c, NEW s, Probe(c, s)
    PROVE  \A a \in Account : accounts'[a].status = accounts[a].status
<1>1. accounts' = accounts \/ \E a \in Account : \E ip : accounts' = [accounts EXCEPT ![a].ip = ip]
  BY DEF Probe, There
<1>2. ASSUME NEW a \in Account, NEW b \in Account, NEW ip, accounts' = [accounts EXCEPT ![a].ip = ip]
      PROVE  accounts'[b].status = accounts[b].status
  BY <1>2 DEF TablesOK, AccountRow
<1> QED
  BY <1>1, <1>2

\* Only the probe itself ends the probe.
LEMMA ProbePending ==
    ASSUME TypeOK, NEW c \in Actor, Phase(c), Acts("job", "probe")
    PROVE  \/ c = "job" /\ (Probed(c) \/ \E s \in Slot : Probe(c, s))
           \/ Acts("job", "probe")' /\ batch'["job"] = batch["job"]
<1>1. CASE c = "job"
  BY <1>1 DEF Phase, Measure, SaveResults, TestAccount, Verdict, ListStoredBad, PruneStored, ListBound, Judge,
              ReadTested, Keep, ReadSlots, BeginPass, EndPass, Register, Rebind, Acts, Begins
<1>2. CASE c # "job"
  <2>1. plan'["job"] = plan["job"] /\ ready'["job"] = ready["job"]
    BY <1>2, PhaseFrame DEF Frame, Reads, Over, Stops, TypeOK, PlansOK, Actor
  <2>2. batch'["job"] = batch["job"]
    BY <1>2 DEF Phase, Measure, SaveResults, TestAccount, Verdict, ListStoredBad, PruneStored, ListBound, Judge,
                ReadTested, Keep, ReadSlots, Probed, BeginPass, EndPass, Register, Probe, Rebind, locals,
                TypeOK, LocalsOK, Actor
  <2> QED
    BY <2>1, <2>2 DEF Acts
<1> QED
  BY <1>1, <1>2

LEMMA OnlyJobProbes ==
    ASSUME PlansOK, NEW c \in Actor, plan[c] # <<>>, Head(plan[c]) = "probe"
    PROVE  c = "job"
BY TailPlan DEF PlansOK

\* Bindings after a phase.
LEMMA PhaseBindings ==
    ASSUME TypeOK, TablesOK', Bindings, NEW c \in Actor, Phase(c)
    PROVE  Bindings'
<1> DEFINE SameBound == \A s \in Slot : slots'[s].account = slots[s].account /\ slots'[s].status = slots[s].status
           StillRuns == \A s \in Slot : slots'[s].account \in Active' =>
                            \/ slots'[s].account \in running'
                            \/ /\ slots'[s].account = slots[s].account
                               /\ slots[s].account \in Active
                               /\ slots[s].account \in running => slots[s].account \in running'
<1> USE DEF TypeOK
<1> Active \subseteq There /\ Active \subseteq Account /\ NoAccount \notin Active /\ There \subseteq Account
  BY StoreAssumption DEF Active, There
<1>1. ASSUME BoundToExisting', StillRuns, ~ (Probed(c) \/ \E s \in Slot : Probe(c, s))
      PROVE  Bindings'
  BY <1>1, ProbePending DEF Bindings, BoundRuns
<1>2. ASSUME SameBound, There \subseteq There'
      PROVE  BoundToExisting'
  BY <1>2 DEF Bindings, BoundToExisting
<1>3. ASSUME UNCHANGED <<accounts, slots>>, running' \in {running, Active}
      PROVE  /\ BoundToExisting' /\ StillRuns
             /\ Active' = Active
  BY <1>3 DEF Bindings, BoundToExisting, There, Active
<1>4. ASSUME NEW gone, Freed(gone), UNCHANGED running
      PROVE  BoundToExisting' /\ StillRuns
  <2>1. BoundToExisting'
    BY <1>4, FreedBindings DEF Bindings
  <2>2. StillRuns
    BY <1>4, FreedBindings DEF Bindings
  <2> QED
    BY <2>1, <2>2
<1>5. ASSUME UNCHANGED <<slots, running>>, There' = There, Active' \subseteq Active
      PROVE  BoundToExisting' /\ StillRuns
  BY <1>5 DEF Bindings, BoundToExisting
<1>6. CASE Measure(c) \/ TestAccount(c) \/ EndPass(c)
  <2>1. UNCHANGED <<accounts, slots>> /\ running' \in {running, Active} /\ ~ Acts(c, "probe")
    BY <1>6 DEF Measure, TestAccount, EndPass, Begins, Acts
  <2> QED
    BY <1>1, <1>3, <2>1 DEF Probed, Probe
<1>7. CASE ListStoredBad(c) \/ ListBound(c) \/ ReadTested(c) \/ ReadSlots(c) \/ BeginPass(c)
  <2>1. UNCHANGED <<accounts, slots, running>> /\ ~ Acts(c, "probe")
    BY <1>7 DEF ListStoredBad, ListBound, ReadTested, ReadSlots, BeginPass, tables, Begins, Acts
  <2> QED
    BY <1>1, <1>3, <2>1 DEF Probed, Probe
<1>8. CASE SaveResults(c)
  <2>1. There' = There /\ Active' \subseteq Active
    BY <1>8, SavedStatus DEF SaveResults, LocalsOK
  <2> QED
    BY <1>1, <1>5, <1>8, <2>1 DEF SaveResults, Probed, Probe, Acts
<1>9. CASE Verdict(c)
  <2>1. /\ UNCHANGED running /\ ~ Acts(c, "probe")
        /\ \E a : \/ Freed({a})
                  \/ Saved({a} \cap There, results[c]) /\ UNCHANGED slots
    BY <1>9 DEF Verdict, Acts, Deleted, Freed
  <2>2. ASSUME NEW a, Saved({a} \cap There, results[c]), UNCHANGED slots
        PROVE  BoundToExisting' /\ StillRuns
    <3>1. {a} \cap There \in SUBSET There /\ results[c] \in [Account -> Reading]
      BY DEF LocalsOK
    <3>2. There' = There /\ Active' \subseteq Active
      BY <2>2, <3>1, SavedStatus
    <3> QED
      BY <1>5, <2>1, <2>2, <3>2
  <2>3. BoundToExisting' /\ StillRuns
    BY <1>4, <2>1, <2>2
  <2> QED
    BY <1>1, <2>1, <2>3 DEF Probed, Probe
<1>10. CASE PruneStored(c) \/ Judge(c) \/ Keep(c)
  <2>1. /\ UNCHANGED running /\ ~ Acts(c, "probe")
        /\ \E gone : Freed(gone)
    BY <1>10 DEF PruneStored, Judge, Keep, Acts, Deleted, Freed
  <2> QED
    BY <1>1, <1>4, <2>1 DEF Probed, Probe
<1>11. CASE Probed(c)
  <2>1. c = "job" /\ UNCHANGED <<accounts, slots>>
        /\ running' = IF batch[c] # {} THEN Active ELSE running
    BY <1>11, OnlyJobProbes DEF Probed, Acts
  <2>2. \A s \in Slot : slots'[s].account \in Active' => slots'[s].account \in running'
    BY <2>1 DEF Bindings, BoundRuns, Active
  <2> QED
    BY <1>3, <2>1, <2>2 DEF Bindings, BoundRuns
<1>12. ASSUME NEW s \in Slot, Probe(c, s)
       PROVE  Bindings'
  <2> DEFINE row == snap[c][s]
  <2>1. /\ c = "job" /\ Acts(c, "probe")' /\ Acts(c, "probe")
        /\ \/ running' = running /\ batch' = batch
           \/ running' = running \ {row.account} /\ batch' = [batch EXCEPT ![c] = @ \cup {row.account}]
        /\ slots' = [slots EXCEPT ![s] = probed(s, row, measured(row.account, running))]
        /\ \A a \in Account : accounts'[a].status = accounts[a].status
    <3>1. c = "job" /\ Acts(c, "probe")' /\ Acts(c, "probe")
      BY <1>12, OnlyJobProbes DEF Probe, Acts
    <3>2. \A a \in Account : accounts'[a].status = accounts[a].status
      BY <1>12, ProbeStatus
    <3>3. batch = [batch EXCEPT ![c] = @]
      BY DEF LocalsOK
    <3>4. \/ running' = running /\ batch' = batch
          \/ running' = running \ {row.account} /\ batch' = [batch EXCEPT ![c] = @ \cup {row.account}]
      BY <1>12, <3>3 DEF Probe
    <3>5. slots' = [slots EXCEPT ![s] = probed(s, row, measured(row.account, running))]
      BY <1>12 DEF Probe
    <3> QED
      BY <3>1, <3>2, <3>4, <3>5
  <2>2. SameBound
    <3>1. slots[s] \in SlotRow /\ row \in SlotRow /\ measured(row.account, running) \in Reading
      BY <1>12, MeasuredType DEF Probe, ProbeReads, TablesOK, Rows
    <3> QED
      BY <2>1, <3>1, ProbedRow DEF TablesOK, Rows
  <2>3. There' = There /\ Active' = Active
    BY <2>1 DEF There, Active
  <2> QED
    BY <1>2, <2>1, <2>2, <2>3 DEF Bindings, BoundRuns, LocalsOK
<1>13. ASSUME NEW s \in Slot, Rebind(c, s)
       PROVE  Bindings'
  <2>1. PICK row \in rebound(s) : slots' = [slots EXCEPT ![s] = row]
    BY <1>13 DEF Rebind
  <2>2. /\ row.status = slots[s].status /\ slots[s].status = "active"
        /\ row.account \in {slots[s].account, NoAccount} \cup candidates(s)
    BY <1>13, <2>1, ReboundRow DEF Rebind, VisitsInUse
  <2>3. candidates(s) \subseteq running \cap Active
    BY DEF candidates, accountUsable, TablesOK, Active
  <2>4. UNCHANGED <<accounts, running>> /\ ~ Acts(c, "probe")
    BY <1>13 DEF Rebind, Acts
  <2>5. There' = There /\ Active' = Active
    BY <2>4 DEF There, Active
  <2>6. BoundToExisting' /\ StillRuns
    BY <2>1, <2>2, <2>3, <2>4, <2>5 DEF Bindings, BoundToExisting, TablesOK, Rows
  <2> QED
    BY <1>1, <2>4, <2>6 DEF Probed, Probe
<1>14. CASE Register(c)
  <2>1. UNCHANGED slots /\ ~ Acts(c, "probe")
    BY <1>14 DEF Register, Begins, Acts
  <2>2. CASE UNCHANGED accounts /\ running' \in {running, Active}
    BY <1>1, <1>3, <2>1, <2>2 DEF Probed, Probe
  <2>3. ASSUME NEW new \in Account \ There, accounts' = [accounts EXCEPT ![new] = NewAccount], UNCHANGED running
        PROVE  BoundToExisting' /\ StillRuns
    <3>1. There' = There \cup {new} /\ Active' = Active \cup {new}
      BY <2>3 DEF There, Active, NewAccount, TablesOK
    <3>2. \A s \in Slot : slots[s].account # new
      BY <2>3, StoreAssumption DEF Bindings, BoundToExisting
    <3> QED
      BY <1>2, <2>1, <2>3, <3>1, <3>2 DEF Bindings, BoundToExisting
  <2> QED
    BY <1>1, <1>14, <2>1, <2>2, <2>3 DEF Register, Probed, Probe
<1> QED
  BY <1>6, <1>7, <1>8, <1>9, <1>10, <1>11, <1>12, <1>13, <1>14 DEF Phase

LEMMA StepBindings == TypeOK /\ TypeOK' /\ Bindings /\ [Next]_vars => Bindings'
<1> SUFFICES ASSUME TypeOK, TypeOK', Bindings, [Next]_vars
             PROVE  Bindings'
  OBVIOUS
<1> USE DEF TypeOK
<1>1. ASSUME NEW c \in Actor, Phase(c)
      PROVE  Bindings'
  BY <1>1, PhaseBindings
<1>2. ASSUME NEW c \in Actor, Starts(c)
      PROVE  Bindings'
  <2>1. UNCHANGED <<accounts, slots, running, batch>>
    BY <1>2 DEF Starts, Start, tables, locals
  <2>2. Acts("job", "probe") => Acts("job", "probe")'
    BY <1>2 DEF Starts, Start, Acts, PlansOK, Actor
  <2> QED
    BY <2>1, <2>2 DEF Bindings, BoundToExisting, BoundRuns, There, Active
<1>3. ASSUME NEW a \in Account, WorldMoves(a)
      PROVE  Bindings'
  BY <1>3 DEF WorldMoves, tables, locals, Bindings, BoundToExisting, BoundRuns, There, Active, Acts
<1>4. ASSUME NEW a \in Account, PanelDeletes(a)
      PROVE  Bindings'
  <2>1. Freed({a}) /\ UNCHANGED <<running, plan, ready, batch>>
    BY <1>4 DEF PanelDeletes, Deleted, Freed, locals
  <2>2. /\ BoundToExisting' /\ Active' = Active \ {a}
        /\ \A s \in Slot : slots'[s].account \in {slots[s].account, NoAccount}
    BY <2>1, FreedBindings DEF Bindings
  <2>3. NoAccount \notin Active'
    BY StoreAssumption DEF Active
  <2> QED
    BY <2>1, <2>2, <2>3 DEF Bindings, BoundRuns, Acts
<1>5. CASE UNCHANGED vars
  BY <1>5 DEF vars, tables, locals, Bindings, BoundToExisting, BoundRuns, There, Active, Acts
<1> QED
  BY <1>1, <1>2, <1>3, <1>4, <1>5, StepCases

-----------------------------------------------------------------------------
(* What an actor that is not disturbed may rely on.                         *)

At(c, phases) == plan[c] # <<>> /\ Head(plan[c]) \in phases

\* After a test, the rows of the tested accounts have the address the test has
\* found; and what is about to be deduplicated was tested, is there, and is
\* known to be bound where it is.
Remembers(c) ==
    Calm(c) =>
        /\ At(c, {"judge", "keep"}) =>
              \A a \in batch[c] \cap There : results[c][a].k = "ok" => accounts[a].ip = results[c][a].ip
        /\ Acts(c, "keep") =>
              /\ \A a \in batch[c] : a \in There /\ results[c][a].k = "ok"
              /\ \A a \in bound[c] : \E s \in Slot : slots[s].account = a

\* A slot works: its address is what the account has, and no other slot's.
Works(c, s) ==
    LET a == before[c][s].account IN
    /\ a # NoAccount /\ ~ Failing(before[c][s])
    /\ world[a].up /\ world[a].ip = before[c][s].pin
    /\ \A t \in Slot \ {s} : before[c][t].account # a /\ before[c][t].pin # before[c][s].pin

\* The slot has its account, which is active and runs.
InPlace(c, s) ==
    LET a == before[c][s].account IN
    /\ a \in Active \cap running
    /\ slots[s].account = a /\ slots[s].pin = before[c][s].pin
    /\ slots[s].status = "active" /\ ~ Failing(slots[s])

\* Every slot is in place, and whatever the actor has read says so.
Kept(c) ==
    \A s \in Slot :
        LET a == before[c][s].account IN
        /\ InPlace(c, s)
        /\ ready[c] /\ At(c, {"prune", "judge", "keep"}) => a \in bound[c]
        /\ Acts(c, "test") => results[c][a].k = "ok"
        /\ Acts(c, "probe") => snap[c][s].account = a /\ snap[c][s].pin = before[c][s].pin

\* The account of some slot was not active when the actor began, and nobody
\* will delete it, so that it does not become active again.
Lost(c) ==
    \E s \in Slot :
        LET a == before[c][s].account IN
        /\ a \in There \ Active
        /\ At(c, {"prune"}) => IF ready[c] THEN a \in bound[c] ELSE slots[s].account = a /\ slots[s].status = "active"
        /\ At(c, {"judge", "keep"}) \/ Acts(c, "test") => a \notin batch[c]

Spared(c) == Calm(c) /\ (\A s \in Slot : Works(c, s)) => Kept(c) \/ Lost(c)

\* Who is undisturbed has moved himself, or starts while the others rest.
LEMMA CalmStep ==
    ASSUME TypeOK, [Next]_vars, NEW c \in Actor, Calm(c)'
    PROVE  \/ UNCHANGED vars
           \/ Phase(c) /\ Calm(c) /\ before'[c] = before[c] /\ UNCHANGED <<world, events>>
           \/ /\ Starts(c) /\ before'[c] = slots /\ ~ ready'[c] /\ plan[c] = <<>>
              /\ plan'[c] # <<>> /\ Head(plan'[c]) \in {"rebind", "test", "prune", "single"}
              /\ \A d \in Actor : ~ Acts(d, "probe")
              /\ UNCHANGED <<tables, world, locals>>
<1> USE DEF TypeOK, Calm
<1>1. ASSUME NEW d \in Actor, d # c, Moves(d)
      PROVE  FALSE
  BY <1>1 DEF Moves
<1>2. ASSUME Noticed
      PROVE  FALSE
  BY <1>2 DEF Noticed
<1>3. ASSUME NEW d \in Actor, Phase(d)
      PROVE  d = c /\ Phase(c) /\ before'[c] = before[c] /\ UNCHANGED <<world, events>>
  <2>1. Frame(d) /\ Moves(d)
    BY <1>2, <1>3, PhaseFrame DEF Frame
  <2>2. d = c
    BY <1>1, <2>1
  <2>3. UNCHANGED events
    BY <1>2, <1>3 DEF Phase, Measure, SaveResults, TestAccount, Verdict, ListStoredBad, PruneStored, ListBound,
                      Judge, ReadTested, Keep, ReadSlots, Probed, BeginPass, EndPass, Register, Probe, Rebind,
                      ReadBound
  <2> QED
    BY <1>3, <2>1, <2>2, <2>3 DEF Moves, Frame
<1>4. ASSUME NEW d \in Actor, Starts(d)
      PROVE  /\ d = c /\ before'[c] = slots /\ ~ ready'[c] /\ plan[c] = <<>>
             /\ plan'[c] # <<>> /\ Head(plan'[c]) \in {"rebind", "test", "prune", "single"}
             /\ \A e \in Actor : ~ Acts(e, "probe")
             /\ UNCHANGED <<tables, world, locals>>
  <2>1. PICK p : Start(d, p) /\ p # <<>> /\ Head(p) \in {"rebind", "test", "prune", "single"}
    BY <1>4 DEF Starts
  <2>2. d = c /\ before'[c] = slots /\ plan[c] = <<>> /\ \A e \in Actor \ {c} : plan[e] = <<>>
    BY <2>1 DEF Start
  <2>3. plan'[c] = p /\ ~ ready'[c]
    BY <2>1, <2>2 DEF Start, PlansOK
  <2> QED
    BY <2>1, <2>2, <2>3 DEF Start, Acts
<1>5. ASSUME NEW a \in Account, WorldMoves(a) \/ PanelDeletes(a)
      PROVE  FALSE
  BY <1>2, <1>5 DEF WorldMoves, PanelDeletes
<1> QED
  BY <1>3, <1>4, <1>5, StepCases

\* What a phase that is over leaves to do.
LEMMA NextPhase ==
    ASSUME TypeOK, NEW c \in Actor, plan[c] # <<>>, Over(c)
    PROVE  /\ plan'[c] = Tail(plan[c]) /\ ~ ready'[c]
           /\ ~ At(c, {"prune", "single"})'
           /\ At(c, {"judge"})' => At(c, {"test"})
           /\ At(c, {"keep"})' => At(c, {"test", "judge"})
<1>1. plan'[c] = Tail(plan[c]) /\ ~ ready'[c]
  BY DEF Over, TypeOK, PlansOK
<1>2. PlanOf(c, plan[c])
  BY DEF TypeOK, PlansOK
<1> QED
  BY <1>1, <1>2, TailPlan DEF At

LEMMA ReadBoundCalmly ==
    ASSUME TypeOK, NEW c \in Actor, ReadBound(c), before'[c] # <<>>
    PROVE  bound'[c] = {slots[s].account : s \in {t \in Slot : slots[t].status = "active"}} \ {NoAccount}
BY DEF ReadBound, Noticed, TypeOK, LocalsOK

-----------------------------------------------------------------------------
(* One keeper for each address.                                             *)

LEMMA PhaseRemembers ==
    ASSUME TypeOK, NEW c \in Actor, Phase(c), Calm(c), before'[c] = before[c], Remembers(c)
    PROVE  Remembers(c)'
<1> USE DEF TypeOK, At, Acts, Begins
<1>0. PlanOf(c, plan[c]) /\ plan[c] # <<>>
  BY PhaseFrame DEF Frame, PlansOK
<1>1. ASSUME ~ At(c, {"judge", "keep"})'
      PROVE  Remembers(c)'
  BY <1>1 DEF Remembers
<1>2. ASSUME Over(c) \/ Stops(c), ~ At(c, {"test", "judge"})
      PROVE  Remembers(c)'
  BY <1>0, <1>1, <1>2, NextPhase DEF Stops, PlansOK
<1>3. ASSUME ~ At(c, {"test", "judge", "keep"})
      PROVE  Remembers(c)'
  <2>1. CASE Over(c) \/ Stops(c)
    BY <1>2, <1>3, <2>1
  <2>2. CASE Reads(c) \/ UNCHANGED <<plan, ready>>
    BY <1>1, <1>3, <2>2 DEF Reads
  <2> QED
    BY <2>1, <2>2, PhaseFrame DEF Frame
<1>4. CASE Measure(c)
  BY <1>1, <1>4 DEF Measure, Reads
<1>5. CASE SaveResults(c)
  <2>1. /\ Saved(batch[c] \cap There, results[c]) /\ UNCHANGED locals /\ ~ ready'[c]
    BY <1>0, <1>5, NextPhase DEF SaveResults
  <2>2. \A a \in batch'[c] \cap There' : results'[c][a].k = "ok" => accounts'[a].ip = results'[c][a].ip
    <3>1. batch[c] \cap There \in SUBSET There /\ results[c] \in [Account -> Reading]
      BY DEF LocalsOK
    <3>2. /\ There' = There
          /\ \A a \in Account : a \in batch[c] \cap There /\ results[c][a].k = "ok" => accounts'[a].ip = results[c][a].ip
      BY <2>1, <3>1, SavedStatus
    <3>3. There \subseteq Account /\ batch' = batch /\ results' = results
      BY <2>1 DEF There, locals
    <3> QED
      BY <3>2, <3>3
  <2> QED
    BY <2>1, <2>2 DEF Remembers
<1>6. CASE ListBound(c)
  BY <1>6 DEF ListBound, Reads, tables, Remembers, Calm, There
<1>7. CASE Judge(c)
  <2>1. Freed(judged(c)) /\ UNCHANGED <<batch, results>> /\ ~ ready'[c]
    BY <1>0, <1>7, NextPhase DEF Judge, Deleted, Freed
  <2>2. There' = There \ judged(c) /\ \A a \in Account \ judged(c) : accounts'[a] = accounts[a]
    BY <2>1, FreedBindings
  <2>3. \A a \in batch[c] \cap There : results[c][a].k = "ok" => accounts[a].ip = results[c][a].ip
    BY <1>7 DEF Judge, Remembers
  <2>4. \A a \in batch'[c] \cap There' : results'[c][a].k = "ok" => accounts'[a].ip = results'[c][a].ip
    BY <2>1, <2>2, <2>3 DEF There
  <2> QED
    BY <2>1, <2>4 DEF Remembers
<1>8. CASE ReadTested(c)
  <2>1. /\ batch'[c] = {a \in batch[c] \cap There : results[c][a].k = "ok"}
        /\ UNCHANGED <<accounts, slots, results, plan>>
    BY <1>8 DEF ReadTested, tables, Reads, LocalsOK
  <2>2. \A a \in batch[c] \cap There : results[c][a].k = "ok" => accounts[a].ip = results[c][a].ip
    BY <1>8 DEF ReadTested, Remembers
  <2>3. \A a \in bound'[c] : \E s \in Slot : slots[s].account = a
    BY <1>8, ReadBoundCalmly DEF ReadTested, Calm
  <2> QED
    BY <2>1, <2>2, <2>3 DEF Remembers, There
<1>9. CASE Keep(c)
  BY <1>2, <1>9 DEF Keep
<1> QED
  BY <1>3, <1>4, <1>5, <1>6, <1>7, <1>8, <1>9
     DEF Phase, TestAccount, Verdict, ListStoredBad, PruneStored, ReadSlots, Probed, BeginPass, EndPass,
         Register, Probe, Rebind

\* What an actor remembers of a test, and of its bindings, stays true as long
\* as nothing disturbs it.
LEMMA StepRemembers ==
    ASSUME TypeOK, [Next]_vars, \A c \in Actor : Remembers(c)
    PROVE  \A c \in Actor : Remembers(c)'
<1> SUFFICES ASSUME NEW c \in Actor, Calm(c)'
             PROVE  Remembers(c)'
  BY DEF Remembers
<1>1. CASE UNCHANGED vars
  BY <1>1 DEF vars, tables, locals, Remembers, Calm, At, Acts, There
<1>2. CASE Phase(c) /\ Calm(c) /\ before'[c] = before[c]
  BY <1>2, PhaseRemembers
<1>3. CASE ~ ready'[c] /\ plan'[c] # <<>> /\ Head(plan'[c]) \in {"rebind", "test", "prune", "single"}
  BY <1>3 DEF Remembers, At, Acts
<1> QED
  BY <1>1, <1>2, <1>3, CalmStep

LEMMA InitRemembers == Init => \A c \in Actor : Remembers(c)
BY DEF Init, Pool, Remembers, Calm

\* OneKeeper: the end of a deduplication that nothing disturbed.
LEMMA KeepsOne ==
    ASSUME TypeOK, NEW c \in Actor, Keep(c), Calm(c), Remembers(c), NEW ip \in Found(c)
    PROVE  /\ \E k \in isKeeper' : {a \in isKeeper' : accounts'[a].ip = ip} = {k}
           /\ \A a \in group(c, ip) \ isKeeper' :
                 accounts'[a].status = "absent" \/ \E s \in Slot : slots'[s].account = a
<1> USE DEF TypeOK
<1>1. PICK keeperOf \in [Found(c) -> batch[c]] :
         /\ \A i \in Found(c) : keeperOf[i] \in best(c, i)
         /\ LET gone == batch[c] \ (bound[c] \cup {keeperOf[i] : i \in Found(c)}) IN
            /\ Freed(gone)
            /\ isKeeper' = SetIPKeepers(keeperOf) \ gone
  BY DEF Keep, Freed
<1> DEFINE gone == batch[c] \ (bound[c] \cup {keeperOf[i] : i \in Found(c)})
<1>2. /\ \A a \in Account \ gone : accounts'[a] = accounts[a]
      /\ \A a \in Account \cap gone : accounts'[a].status = "absent"
      /\ \A s \in Slot : slots[s].account \notin gone => slots'[s] = slots[s]
  BY <1>1, FreedBindings
<1>3. \A i \in Found(c) : keeperOf[i] \in batch[c] /\ results[c][keeperOf[i]].ip = i /\ keeperOf[i] \notin gone
  BY <1>1 DEF best, group
<1>4. /\ \A a \in batch[c] : a \in There /\ a \in Account /\ accounts[a].ip = results[c][a].ip
      /\ \A a \in bound[c] : \E s \in Slot : slots[s].account = a
  BY DEF Keep, Remembers, Acts, At, There
<1>5. SetIPKeepers(keeperOf) = {a \in There : IF accounts[a].ip \in Found(c) THEN keeperOf[accounts[a].ip] = a
                                              ELSE a \in isKeeper}
  BY <1>1 DEF SetIPKeepers
<1> DEFINE k == keeperOf[ip]
<1>6. k \in isKeeper' /\ accounts'[k].ip = ip
  BY <1>1, <1>2, <1>3, <1>4, <1>5
<1>7. ASSUME NEW a \in isKeeper', accounts'[a].ip = ip
      PROVE  a = k
  <2>1. a \in There /\ a \in Account /\ a \notin gone /\ accounts'[a] = accounts[a]
    BY <1>1, <1>2, <1>5, <1>7 DEF There
  <2> QED
    BY <1>1, <1>5, <1>7, <2>1
<1>8. ASSUME NEW a \in group(c, ip) \ isKeeper'
      PROVE  accounts'[a].status = "absent" \/ \E s \in Slot : slots'[s].account = a
  <2>1. a \in batch[c] /\ a \in Account /\ results[c][a].ip = ip /\ accounts[a].ip = ip
    BY <1>4, <1>8 DEF group
  <2>2. a # k
    BY <1>6, <1>8
  <2>3. CASE a \in gone
    BY <1>2, <2>1, <2>3
  <2>4. CASE a \notin gone
    <3>1. \A i \in Found(c) : a # keeperOf[i]
      BY <1>3, <2>1, <2>2
    <3>2. a \in bound[c]
      BY <2>1, <2>4, <3>1
    <3> QED
      BY <1>2, <1>4, <2>4, <3>2
  <2> QED
    BY <2>3, <2>4
<1> QED
  BY <1>6, <1>7, <1>8

-----------------------------------------------------------------------------
(* A job spares bindings that work.                                         *)

\* A phase ends, reads what it needs, or goes on.
Ends(c) == Over(c) \/ Stops(c)

LEMMA InPlaceStays ==
    ASSUME TypeOK, NEW c \in Actor, before'[c] = before[c],
           NEW s \in Slot, InPlace(c, s), slots'[s] \in {slots[s], ClearProxySlotError(slots[s])},
           before[c][s].account \in Active' \cap running'
    PROVE  InPlace(c, s)'
<1>1. /\ slots'[s].account = slots[s].account /\ slots'[s].pin = slots[s].pin
      /\ slots'[s].status = slots[s].status /\ (~ Failing(slots[s]) => ~ Failing(slots'[s]))
  BY Statements DEF TypeOK, TablesOK, Rows
<1> QED
  BY <1>1 DEF InPlace

\* The end of a phase, or the reading of one, when the rows stay.
LEMMA AllInPlace ==
    ASSUME TypeOK, NEW c \in Actor, before'[c] = before[c], Kept(c), UNCHANGED slots,
           \A s \in Slot : before[c][s].account \in Active' \cap running'
    PROVE  \A s \in Slot : InPlace(c, s)'
BY InPlaceStays DEF Kept

LEMMA EndKeeps ==
    ASSUME TypeOK, NEW c \in Actor, plan[c] # <<>>, Ends(c), \A s \in Slot : InPlace(c, s)'
    PROVE  Kept(c)'
BY DEF Ends, Over, Stops, Kept, Acts, TypeOK, PlansOK

\* No phase of a test takes an account that works from a slot.
LEMMA TestKeeps ==
    ASSUME TypeOK, NEW c \in Actor, before'[c] = before[c], \A s \in Slot : Works(c, s), Kept(c),
           Measure(c) \/ SaveResults(c) \/ EndPass(c) \/ Register(c)
    PROVE  Kept(c)'
<1> USE DEF TypeOK
<1>1. \A s \in Slot : before[c][s].account \in Active \cap running
  BY DEF Kept, InPlace
<1>2. Active \subseteq There /\ There \subseteq Account
  BY DEF Active, There
<1>3. CASE Measure(c)
  <2>1. UNCHANGED slots /\ running' = Active /\ Active' = Active
    BY <1>3 DEF Measure, Active
  <2>2. \A s \in Slot : InPlace(c, s)'
    BY <1>1, <2>1, AllInPlace
  <2>3. ASSUME NEW s \in Slot
        PROVE  results'[c][before[c][s].account].k = "ok"
    <3> DEFINE a == before[c][s].account
    <3>1. results'[c][a] = measured(a, Active)
      BY <1>1, <1>2, <1>3 DEF Measure, LocalsOK
    <3>2. measured(a, Active).k = "ok"
      BY <1>1, <1>2, MeasuredType DEF Works
    <3> QED
      BY <3>1, <3>2
  <2>4. plan'[c] # <<>> /\ Head(plan'[c]) = "test"
    BY <1>3 DEF Measure, Begins, Reads
  <2> QED
    BY <2>2, <2>3, <2>4 DEF Kept, At, Acts
<1>4. CASE SaveResults(c)
  <2>1. /\ Saved(batch[c] \cap There, results[c]) /\ UNCHANGED <<slots, running>>
        /\ Ends(c) /\ Acts(c, "test")
    BY <1>4 DEF SaveResults, Ends
  <2>2. \A s \in Slot : before[c][s].account \in Active'
    <3>1. batch[c] \cap There \in SUBSET There /\ results[c] \in [Account -> Reading]
      BY DEF LocalsOK
    <3>2. \A a \in Account : results[c][a].k = "ok" => accounts'[a].status = accounts[a].status
      BY <2>1, <3>1, SavedStatus
    <3>3. \A s \in Slot : results[c][before[c][s].account].k = "ok"
      BY <2>1 DEF Kept
    <3> QED
      BY <1>1, <3>2, <3>3 DEF Active
  <2>3. \A s \in Slot : InPlace(c, s)'
    BY <1>1, <2>1, <2>2, AllInPlace
  <2> QED
    BY <2>1, <2>3, EndKeeps DEF Acts
<1>5. CASE EndPass(c)
  <2>1. UNCHANGED slots /\ running' \in {running, Active} /\ Active' = Active /\ Ends(c) /\ plan[c] # <<>>
    BY <1>5 DEF EndPass, Active, Ends, Acts
  <2>2. \A s \in Slot : InPlace(c, s)'
    BY <1>1, <2>1, AllInPlace
  <2> QED
    BY <2>1, <2>2, EndKeeps
<1>6. CASE Register(c)
  <2>1. UNCHANGED slots /\ Ends(c) /\ plan[c] # <<>> /\ running' \in {running, Active}
    BY <1>6 DEF Register, Ends, Begins
  <2>2. Active \subseteq Active'
    BY <1>6 DEF Register, Active, There, TablesOK, NewAccount
  <2>3. \A s \in Slot : InPlace(c, s)'
    BY <1>1, <2>1, <2>2, AllInPlace
  <2> QED
    BY <2>1, <2>3, EndKeeps
<1> QED
  BY <1>3, <1>4, <1>5, <1>6

\* Nor does a deletion, which has read that it is bound.
LEMMA DeletionKeeps ==
    ASSUME TypeOK, NEW c \in Actor, before'[c] = before[c], before'[c] # <<>>, \A s \in Slot : Works(c, s), Kept(c),
           \/ ListStoredBad(c) \/ ListBound(c) \/ ReadTested(c)
           \/ PruneStored(c) \/ Judge(c) \/ Keep(c)
    PROVE  Kept(c)'
<1> USE DEF TypeOK
<1>1. \A s \in Slot : before[c][s].account \in Active \cap running
  BY DEF Kept, InPlace
<1>2. CASE ListStoredBad(c) \/ ListBound(c) \/ ReadTested(c)
  <2>1. /\ UNCHANGED tables /\ ReadBound(c) /\ UNCHANGED plan
        /\ plan[c] # <<>> /\ Head(plan[c]) \in {"prune", "judge", "keep"}
    BY <1>2 DEF ListStoredBad, ListBound, ReadTested, Begins, Reads
  <2>2. \A s \in Slot : InPlace(c, s)'
    <3>1. UNCHANGED <<slots, running>> /\ Active' = Active
      BY <2>1 DEF tables, Active
    <3> QED
      BY <1>1, <3>1, AllInPlace
  <2>3. \A s \in Slot : before[c][s].account \in bound'[c]
    BY <2>1, ReadBoundCalmly DEF Kept, InPlace, Works
  <2> QED
    BY <2>1, <2>2, <2>3 DEF Kept, Acts
<1>3. CASE PruneStored(c) \/ Judge(c) \/ Keep(c)
  <2>1. /\ UNCHANGED running /\ Ends(c) /\ ready[c] /\ At(c, {"prune", "judge", "keep"})
        /\ \E gone : Freed(gone) /\ gone \cap bound[c] = {}
    <3>1. CASE PruneStored(c)
      <4>1. Freed(batch[c] \ bound[c]) /\ (batch[c] \ bound[c]) \cap bound[c] = {}
        BY <3>1 DEF PruneStored, Deleted, Freed
      <4> QED
        BY <3>1, <4>1 DEF PruneStored, Ends, Acts, At
    <3>2. CASE Judge(c)
      <4>1. Freed(judged(c)) /\ judged(c) \cap bound[c] = {}
        BY <3>2 DEF Judge, Deleted, Freed, judged
      <4> QED
        BY <3>2, <4>1 DEF Judge, Ends, Acts, At
    <3>3. CASE Keep(c)
      <4>1. PICK kept : Freed(batch[c] \ (bound[c] \cup kept))
        BY <3>3 DEF Keep, Freed
      <4>2. (batch[c] \ (bound[c] \cup kept)) \cap bound[c] = {}
        OBVIOUS
      <4> QED
        BY <3>3, <4>1, <4>2 DEF Keep, Ends, Acts, At
    <3> QED
      BY <1>3, <3>1, <3>2, <3>3
  <2>2. PICK gone : Freed(gone) /\ gone \cap bound[c] = {}
    BY <2>1
  <2>3. \A s \in Slot : before[c][s].account \notin gone /\ slots[s].account = before[c][s].account
    BY <2>1, <2>2 DEF Kept, InPlace
  <2>4. /\ \A s \in Slot : slots'[s] = slots[s]
        /\ \A s \in Slot : before[c][s].account \in Active'
    BY <1>1, <2>2, <2>3, FreedBindings
  <2>5. \A s \in Slot : InPlace(c, s)'
    BY <1>1, <2>1, <2>4, InPlaceStays DEF Kept
  <2> QED
    BY <2>1, <2>5, EndKeeps DEF At
<1> QED
  BY <1>2, <1>3

\* Nor do the probe and the pass: a probe sees the address the slot is pinned
\* to, and a pass finds no conflict.
LEMMA VisitKeeps ==
    ASSUME TypeOK, NEW c \in Actor, before'[c] = before[c], \A s \in Slot : Works(c, s), Kept(c),
           NEW s \in Slot, Probe(c, s) \/ Rebind(c, s)
    PROVE  Kept(c)'
<1> USE DEF TypeOK
<1> DEFINE a == before[c][s].account
<1>1. \A t \in Slot : /\ InPlace(c, t) /\ Works(c, t)
                      /\ before[c][t].account \in Active \cap running
  BY DEF Kept, InPlace
<1>2. /\ a \in Account /\ a \in running /\ slots[s] \in SlotRow
      /\ world[a].up /\ world[a].ip = before[c][s].pin /\ world[a].ip \in IP
      /\ slots[s].account = a
  BY <1>1 DEF Works, InPlace, Active, TablesOK, Rows, Seen
<1>3. CASE Probe(c, s)
  <2> DEFINE row == snap[c][s]
             seen == measured(row.account, running)
  <2>1. row.account = a /\ row.pin = before[c][s].pin
    BY <1>3 DEF Probe, Kept
  <2>2. seen.k = "ok" /\ seen.ip = row.pin /\ row.pin # NoIP
    <3>1. measured(a, running).k = "ok" /\ measured(a, running).ip = world[a].ip
      BY <1>2, MeasuredType
    <3> QED
      BY <1>2, <2>1, <3>1, StoreAssumption
  <2>3. probed(s, row, seen) \in {slots[s], ClearProxySlotError(slots[s])}
    BY <2>2 DEF probed
  <2>4. /\ slots' = [slots EXCEPT ![s] = probed(s, row, seen)] /\ running' = running
        /\ UNCHANGED <<plan, ready, snap>> /\ Acts(c, "probe")
    BY <1>3, <2>2 DEF Probe
  <2>5. Active' = Active
    BY <1>3, ProbeStatus DEF Active
  <2>6. \A t \in Slot : slots'[t] \in {slots[t], ClearProxySlotError(slots[t])}
    BY <2>3, <2>4 DEF TablesOK, Rows
  <2>7. \A t \in Slot : InPlace(c, t)'
    BY <1>1, <2>4, <2>5, <2>6, InPlaceStays
  <2> QED
    BY <2>4, <2>7 DEF Kept, Acts, At
<1>4. CASE Rebind(c, s)
  <2>1. \A t \in Slot : /\ slots[t].account = before[c][t].account /\ slots[t].pin = before[c][t].pin
                        /\ slots[t].pin # NoIP
    BY <1>1, StoreAssumption DEF InPlace, Works, TablesOK, Seen, Active
  <2>2. ~ conflicts(s)
    <3>1. \A t \in earlier(s) : t \in Slot /\ t # s
      BY DEF earlier, Slot
    <3>2. slots[s].account \notin usedAccount(s)
      BY <1>1, <2>1, <3>1 DEF usedAccount, Works
    <3>3. \A t \in Slot : slotEffectiveIP(slots[t], slots[t].account, accounts) = slots[t].pin
      BY <2>1 DEF slotEffectiveIP
    <3>4. slotEffectiveIP(slots[s], slots[s].account, accounts) \notin usedIP(s)
      BY <1>1, <2>1, <3>1, <3>3 DEF usedIP, Works
    <3> QED
      BY <3>2, <3>4 DEF conflicts
  <2>3. keeps(s)
    BY <1>1, <1>2, <2>2 DEF keeps, InPlace
  <2>4. rebound(s) \subseteq {slots[s], ClearProxySlotError(slots[s])}
    BY <2>3 DEF rebound
  <2>5. /\ \A t \in Slot : slots'[t] \in {slots[t], ClearProxySlotError(slots[t])}
        /\ UNCHANGED <<accounts, running, plan, ready>> /\ Acts(c, "rebind")
    BY <1>4, <2>4 DEF Rebind, TablesOK, Rows
  <2>6. Active' = Active
    BY <2>5 DEF Active
  <2>7. \A t \in Slot : InPlace(c, t)'
    BY <1>1, <2>5, <2>6, InPlaceStays
  <2> QED
    BY <2>5, <2>7 DEF Kept, Acts, At
<1> QED
  BY <1>3, <1>4

\* An account that is lost stays so until the job is over.
LEMMA PhaseLoses ==
    ASSUME TypeOK, NEW c \in Actor, before'[c] = before[c], before'[c] # <<>>, Phase(c),
           ~ At(c, {"single"}), Lost(c)
    PROVE  Lost(c)'
<1> USE DEF TypeOK
<1>1. PICK s \in Slot :
         LET a == before[c][s].account IN
         /\ a \in There \ Active
         /\ At(c, {"prune"}) => IF ready[c] THEN a \in bound[c] ELSE slots[s].account = a /\ slots[s].status = "active"
         /\ At(c, {"judge", "keep"}) \/ Acts(c, "test") => a \notin batch[c]
  BY DEF Lost
<1> DEFINE a == before[c][s].account
<1>2. /\ plan[c] # <<>> /\ a \in There /\ a \in Account /\ a \notin Active
      /\ before'[c][s].account = a
  BY <1>1, PhaseFrame DEF Frame, There
<1>3. ASSUME a \in There' \ Active',
             At(c, {"prune"})' => ready'[c] /\ a \in bound'[c],
             At(c, {"judge", "keep"})' \/ Acts(c, "test")' => a \notin batch'[c]
      PROVE  Lost(c)'
  BY <1>2, <1>3 DEF Lost
<1>4. ASSUME Ends(c), a \in There' \ Active',
             At(c, {"test", "judge"}) => a \notin batch'[c]
      PROVE  Lost(c)'
  <2>1. CASE Over(c)
    BY <1>2, <1>3, <1>4, <2>1, NextPhase DEF At, Acts
  <2>2. CASE Stops(c)
    BY <1>3, <1>4, <2>2 DEF Stops, At, Acts, PlansOK
  <2> QED
    BY <1>4, <2>1, <2>2 DEF Ends
<1>5. CASE Measure(c)
  BY <1>2, <1>3, <1>5 DEF Measure, There, Active, LocalsOK, Begins, Reads, At
<1>6. CASE SaveResults(c)
  <2>1. /\ Saved(batch[c] \cap There, results[c]) /\ UNCHANGED batch
        /\ Ends(c) /\ Acts(c, "test")
    BY <1>6 DEF SaveResults, Ends, locals
  <2>2. batch[c] \cap There \in SUBSET There /\ results[c] \in [Account -> Reading]
    BY DEF LocalsOK
  <2>3. There' = There /\ Active' \subseteq Active
    BY <2>1, <2>2, SavedStatus
  <2> QED
    BY <1>1, <1>2, <1>4, <2>1, <2>3
<1>7. CASE ListStoredBad(c)
  <2>1. /\ UNCHANGED tables /\ ReadBound(c) /\ UNCHANGED plan /\ ~ ready[c] /\ ready'[c]
        /\ plan[c] # <<>> /\ Head(plan[c]) = "prune"
    BY <1>7 DEF ListStoredBad, Begins, Reads, PlansOK
  <2>2. a \in bound'[c]
    BY <1>1, <1>2, <2>1, ReadBoundCalmly, StoreAssumption DEF At
  <2>3. There' = There /\ Active' = Active
    BY <2>1 DEF There, Active, tables
  <2> QED
    BY <1>2, <1>3, <2>1, <2>2, <2>3 DEF At, Acts
<1>8. CASE ListBound(c) \/ ReadTested(c)
  <2>1. /\ UNCHANGED <<tables, plan>> /\ batch'[c] \subseteq batch[c]
        /\ plan[c] # <<>> /\ Head(plan[c]) \in {"judge", "keep"}
    BY <1>8 DEF ListBound, ReadTested, Begins, Reads, LocalsOK
  <2>2. There' = There /\ Active' = Active
    BY <2>1 DEF There, Active, tables
  <2> QED
    BY <1>1, <1>2, <1>3, <2>1, <2>2 DEF At, Acts
<1>9. CASE PruneStored(c) \/ Judge(c) \/ Keep(c)
  <2>1. Ends(c) /\ (At(c, {"test", "judge"}) => a \notin batch'[c])
    BY <1>1, <1>9 DEF PruneStored, Judge, Keep, Ends, Acts, At
  <2>2. PICK gone : Freed(gone) /\ a \notin gone
    <3>1. CASE PruneStored(c)
      <4>1. Freed(batch[c] \ bound[c]) /\ a \in bound[c]
        BY <1>1, <3>1 DEF PruneStored, Deleted, Freed, Acts, At
      <4> QED
        BY <4>1
    <3>2. CASE Judge(c)
      <4>1. Freed(judged(c)) /\ a \notin batch[c]
        BY <1>1, <3>2 DEF Judge, Deleted, Freed, Acts, At
      <4> QED
        BY <4>1 DEF judged
    <3>3. CASE Keep(c)
      <4>1. PICK kept : Freed(batch[c] \ (bound[c] \cup kept))
        BY <3>3 DEF Keep, Freed
      <4>2. a \notin batch[c]
        BY <1>1, <3>3 DEF Keep, Acts, At
      <4> QED
        BY <4>1, <4>2
    <3> QED
      BY <1>9, <3>1, <3>2, <3>3
  <2>3. a \in There' \ Active'
    BY <1>2, <2>2, FreedBindings
  <2> QED
    BY <1>4, <2>1, <2>3
<1>10. CASE ReadSlots(c) \/ BeginPass(c) \/ \E t \in Slot : Probe(c, t) \/ Rebind(c, t)
  <2>1. /\ plan' = plan /\ plan[c] # <<>> /\ Head(plan[c]) \in {"probe", "rebind"}
    BY <1>10 DEF ReadSlots, BeginPass, Probe, Rebind, Acts, Begins, Reads
  <2>2. \A b \in Account : accounts'[b].status = accounts[b].status
    <3>1. ASSUME NEW t \in Slot, Probe(c, t)
          PROVE  \A b \in Account : accounts'[b].status = accounts[b].status
      BY <3>1, ProbeStatus
    <3>2. CASE ~ \E t \in Slot : Probe(c, t)
      BY <1>10, <3>2 DEF ReadSlots, BeginPass, Rebind, tables
    <3> QED
      BY <3>1, <3>2
  <2>3. There' = There /\ Active' = Active
    BY <2>2 DEF There, Active
  <2> QED
    BY <1>2, <1>3, <2>1, <2>3 DEF At, Acts
<1>11. CASE Probed(c) \/ EndPass(c) \/ Register(c)
  <2>1. Ends(c) /\ ~ At(c, {"test", "judge"})
    BY <1>11 DEF Probed, EndPass, Register, Acts, Begins, Ends, At
  <2>2. accounts' = accounts \/ \E new \in Account \ There : accounts' = [accounts EXCEPT ![new] = NewAccount]
    BY <1>11 DEF Probed, EndPass, Register
  <2>3. accounts'[a] = accounts[a]
    BY <1>2, <2>2 DEF TablesOK
  <2>4. a \in There' \ Active'
    BY <1>2, <2>3 DEF There, Active
  <2> QED
    BY <1>4, <2>1, <2>4
<1> QED
  BY <1>2, <1>5, <1>6, <1>7, <1>8, <1>9, <1>10, <1>11 DEF Phase, TestAccount, Verdict, Begins, Acts, At

\* A phase keeps what works where it is.
LEMMA PhaseKeeps ==
    ASSUME TypeOK, NEW c \in Actor, before'[c] = before[c], before'[c] # <<>>, Phase(c),
           ~ At(c, {"single"}), \A s \in Slot : Works(c, s), Kept(c)
    PROVE  Kept(c)'
<1> USE DEF TypeOK
<1>1. CASE Measure(c) \/ SaveResults(c) \/ EndPass(c) \/ Register(c)
  BY <1>1, TestKeeps
<1>2. CASE ListStoredBad(c) \/ ListBound(c) \/ ReadTested(c) \/ PruneStored(c) \/ Judge(c) \/ Keep(c)
  BY <1>2, DeletionKeeps
<1>3. CASE \E s \in Slot : Probe(c, s) \/ Rebind(c, s)
  BY <1>3, VisitKeeps
<1>4. CASE ReadSlots(c) \/ BeginPass(c) \/ Probed(c)
  <2>1. UNCHANGED slots /\ running' \in {running, Active} /\ Active' = Active
    BY <1>4 DEF ReadSlots, BeginPass, Probed, tables, Active
  <2>2. \A s \in Slot : before[c][s].account \in Active' \cap running'
    BY <2>1 DEF Kept, InPlace
  <2>3. \A s \in Slot : InPlace(c, s)'
    BY <2>1, <2>2, AllInPlace
  <2>4. CASE Probed(c)
    BY <2>3, <2>4, EndKeeps DEF Probed, Ends, Acts
  <2>5. CASE BeginPass(c)
    BY <2>3, <2>5 DEF BeginPass, Kept, Begins, Reads, At, Acts
  <2>6. CASE ReadSlots(c)
    <3>1. snap'[c] = slots /\ plan' = plan /\ plan[c] # <<>> /\ Head(plan[c]) = "probe"
      BY <2>6 DEF ReadSlots, Begins, Reads, LocalsOK
    <3>2. \A s \in Slot : slots[s].account = before[c][s].account /\ slots[s].pin = before[c][s].pin
      BY DEF Kept, InPlace
    <3> QED
      BY <2>3, <3>1, <3>2 DEF Kept, At, Acts
  <2> QED
    BY <1>4, <2>4, <2>5, <2>6
<1>5. ~ TestAccount(c) /\ ~ Verdict(c)
  BY DEF TestAccount, Verdict, Begins, Acts, At
<1> QED
  BY <1>1, <1>2, <1>3, <1>4, <1>5 DEF Phase

LEMMA JobIsNoSingle ==
    ASSUME TypeOK
    PROVE  ~ At("job", {"single"})
<1>1. ASSUME NEW c \in Actor, plan[c] # <<>>, Head(plan[c]) = "single"
      PROVE  c = "one"
  BY <1>1, TailPlan DEF TypeOK, PlansOK
<1> QED
  BY <1>1 DEF At, Actor

\* When the job starts, every slot that works is in place, or its account is
\* already lost.
LEMMA StartSpares ==
    ASSUME TypeOK, Bindings, NEW c \in Actor,
           before'[c] = slots, ~ ready'[c], plan'[c] # <<>>, Head(plan'[c]) \in {"rebind", "test", "prune", "single"},
           \A d \in Actor : ~ Acts(d, "probe"), UNCHANGED <<tables, world, locals>>,
           \A s \in Slot : Works(c, s)'
    PROVE  Kept(c)' \/ Lost(c)'
<1> USE DEF TypeOK
<1>1. /\ There' = There /\ Active' = Active /\ UNCHANGED <<slots, running>>
      /\ ~ At(c, {"judge", "keep"})' /\ \A phase \in PhaseName : ~ Acts(c, phase)'
  BY DEF tables, There, Active, At, Acts
<1>2. ASSUME NEW s \in Slot
      PROVE  /\ slots[s].account \in There /\ slots[s].status = "active" /\ ~ Failing(slots[s])
             /\ slots[s].account \in Active => slots[s].account \in running
  BY DEF Works, Bindings, BoundToExisting, BoundRuns, Actor
<1>3. CASE \A s \in Slot : slots[s].account \in Active
  BY <1>1, <1>2, <1>3 DEF Kept, InPlace, PhaseName
<1>4. ASSUME NEW s \in Slot, slots[s].account \notin Active
      PROVE  Lost(c)'
  BY <1>1, <1>2, <1>4 DEF Lost, PhaseName
<1> QED
  BY <1>3, <1>4
LEMMA WorksStays ==
    ASSUME NEW c \in Actor, before'[c] = before[c], UNCHANGED world
    PROVE  \A s \in Slot : Works(c, s)' = Works(c, s)
BY DEF Works

LEMMA StepSpares ==
    ASSUME TypeOK, Bindings, [Next]_vars, Spared("job")
    PROVE  Spared("job")'
<1> DEFINE c == "job"
<1>0. c \in Actor
  BY DEF Actor
<1> SUFFICES ASSUME Calm(c)', \A s \in Slot : Works(c, s)'
             PROVE  Kept(c)' \/ Lost(c)'
  BY DEF Spared
<1> HIDE DEF c
<1>1. CASE UNCHANGED vars
  <2>1. Kept(c) \/ Lost(c)
    BY <1>1 DEF Spared, Calm, Works, vars, c
  <2> QED
    BY <1>1, <2>1 DEF vars, tables, locals, Kept, Lost, InPlace, At, Acts, There, Active
<1>2. CASE Phase(c) /\ Calm(c) /\ before'[c] = before[c] /\ UNCHANGED <<world, events>>
  <2>1. \A s \in Slot : Works(c, s)
    BY <1>0, <1>2, WorksStays
  <2>2. Kept(c) \/ Lost(c)
    BY <1>2, <2>1 DEF Spared, c
  <2>3. before'[c] # <<>> /\ ~ At(c, {"single"})
    BY <1>2, JobIsNoSingle DEF Calm, c
  <2> QED
    BY <1>0, <1>2, <2>1, <2>2, <2>3, PhaseKeeps, PhaseLoses
<1>3. CASE /\ Starts(c) /\ before'[c] = slots /\ ~ ready'[c] /\ plan[c] = <<>>
           /\ plan'[c] # <<>> /\ Head(plan'[c]) \in {"rebind", "test", "prune", "single"}
           /\ \A d \in Actor : ~ Acts(d, "probe")
           /\ UNCHANGED <<tables, world, locals>>
  BY <1>0, <1>3, StartSpares
<1> QED
  BY <1>0, <1>1, <1>2, <1>3, CalmStep

LEMMA InitSpares == Init => Spared("job")
BY DEF Init, Pool, Spared, Calm, Actor

\* JobSparesBindings: the end of a job that nothing disturbed.
LEMMA JobEnds ==
    ASSUME TypeOK, Spared("job"), [Next]_vars,
           plan["job"] # <<>>, plan'["job"] = <<>>, before'["job"] # <<>>,
           \A s \in Slot : Serves(s, before["job"])
    PROVE  \A s \in Slot : slots'[s].account = before["job"][s].account
<1> DEFINE c == "job"
<1>1. c \in Actor /\ Calm(c)'
  BY DEF Actor, Calm
<1>2. Phase(c) /\ Calm(c) /\ before'[c] = before[c] /\ UNCHANGED world
  BY <1>1, CalmStep DEF vars
<1>3. ~ At(c, {"single"})
  BY JobIsNoSingle
<1> HIDE DEF c
<1>4. \A s \in Slot : Works(c, s) /\ before[c][s].account \notin There \ Active
  BY DEF Serves, Works, There, Active, c
<1>5. Kept(c) /\ before'[c] # <<>>
  BY <1>2, <1>4 DEF Spared, Lost, c
<1>6. Kept(c)'
  BY <1>1, <1>2, <1>3, <1>4, <1>5, PhaseKeeps
<1> QED
  BY <1>2, <1>6 DEF Kept, InPlace, c

-----------------------------------------------------------------------------
(* The invariant, and what follows from it.                                 *)

Inv == TypeOK /\ Bindings /\ (\A c \in Actor : Remembers(c)) /\ Spared("job")

LEMMA Invariance == Spec => []Inv
<1>1. Init => Inv
  BY InitType, InitBindings, InitRemembers, InitSpares DEF Inv
<1>2. Inv /\ [Next]_vars => Inv'
  <2> SUFFICES ASSUME Inv, [Next]_vars
               PROVE  Inv'
    OBVIOUS
  <2>1. TypeOK' /\ Bindings'
    BY StepType, StepBindings DEF Inv
  <2>2. \A c \in Actor : Remembers(c)'
    BY StepRemembers DEF Inv
  <2>3. Spared("job")'
    BY StepSpares DEF Inv
  <2> QED
    BY <2>1, <2>2, <2>3 DEF Inv
<1> QED
  BY <1>1, <1>2, PTL DEF Spec

\* No slot is ever bound to an account that does not exist, whatever tests,
\* prunes and deduplicates meanwhile; a bound account that is active has a
\* tunnel, unless the probe is about to start it again.
THEOREM BindingsNeverDangle == Spec => []Bindings
BY Invariance, PTL DEF Inv

\* OneKeeper: a deduplication that nothing disturbs leaves each address it has
\* found with exactly one keeper, and deletes whatever else it tested there
\* unless a slot is bound to it (applyDedup).
THEOREM AlwaysOneKeeper == Spec => OneKeeper
<1>1. ASSUME Inv, [Next]_vars, NEW c \in Actor, Acts(c, "keep"), ~ ready'[c], Calm(c)
      PROVE  Keep(c)
  <2> USE DEF Inv, TypeOK
  <2>1. plan[c] # <<>> /\ Head(plan[c]) = "keep" /\ ready[c]
    BY <1>1 DEF Acts
  <2>2. ASSUME NEW d \in Actor, d # c, Phase(d)
        PROVE  FALSE
    BY <1>1, <2>1, <2>2, PhaseFrame DEF Frame, Reads, Over, Stops, PlansOK
  <2>3. CASE Phase(c)
    BY <2>1, <2>3 DEF Phase, Measure, SaveResults, TestAccount, Verdict, ListStoredBad, PruneStored, ListBound,
                      Judge, ReadTested, ReadSlots, Probed, BeginPass, EndPass, Register, Probe, Rebind,
                      Begins, Acts
  <2>4. CASE UNCHANGED ready
    BY <1>1, <2>1, <2>4
  <2> QED
    BY <2>2, <2>3, <2>4, <1>1, StepCases DEF Starts, Start, WorldMoves, PanelDeletes, vars
<1>2. Inv /\ [Next]_vars =>
        [\A c \in Actor : (Acts(c, "keep") /\ ~ ready'[c] /\ Calm(c)) =>
            \A ip \in Found(c) :
               /\ \E k \in isKeeper' : {a \in isKeeper' : accounts'[a].ip = ip} = {k}
               /\ \A a \in group(c, ip) \ isKeeper' :
                     accounts'[a].status = "absent" \/ \E s \in Slot : slots'[s].account = a]_vars
  BY <1>1, KeepsOne DEF Inv
<1> QED
  BY <1>2, Invariance, PTL DEF Spec, OneKeeper

\* JobSparesBindings: when every slot works, a probe, a test or a deduplication
\* that nothing disturbs ends with every slot where it was, however bad the
\* measurements are (pruneStoredBadAccounts, pruneTestResults, applyDedup,
\* healProxySlots and probeProxySlots).
THEOREM JobAlwaysSparesBindings == Spec => JobSparesBindings
<1>1. Inv /\ [Next]_vars =>
        [(/\ plan["job"] # <<>> /\ plan'["job"] = <<>> /\ before'["job"] # <<>>
          /\ \A s \in Slot : Serves(s, before["job"]))
         => \A s \in Slot : slots'[s].account = before["job"][s].account]_vars
  BY JobEnds DEF Inv
<1> QED
  BY <1>1, Invariance, PTL DEF Spec, JobSparesBindings
=============================================================================
