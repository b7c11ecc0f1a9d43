-------------------------- MODULE SlotRebind_proofs --------------------------
(***************************************************************************)
(* Theorems of SlotRebind, for any number of slots, accounts, addresses    *)
(* and workers and any number of environment steps.                        *)
(***************************************************************************)
EXTENDS SlotRebind, TLAPS

-----------------------------------------------------------------------------
(* Every statement maps rows to rows.                                       *)

LEMMA RowStatements ==
    ASSUME NEW row \in SlotRow
    PROVE  /\ \A a \in Account \cup {NoAccount}, ip \in IP \cup {NoIP} :
                  AssignProxySlotAccount(row, a, ip) \in SlotRow
           /\ UnassignProxySlot(row) \in SlotRow
           /\ ClearProxySlotError(row) \in SlotRow
           /\ MarkProxySlotError(row) \in SlotRow
           /\ \A ip \in IP : SetProxySlotPinnedIP(row, ip) \in SlotRow
           /\ MarkProxySlotIPDrift(row) \in SlotRow
           /\ MarkProxySlotProbeFailure(row) \in SlotRow
           /\ \A s, n \in Slot : EnsureProxySlot(row, s, n) \in SlotRow
<1> USE DEF SlotRow
<1>z. 0 \in 0..RebindAfter /\ 0 \in 0..DriftAfter
  BY StoreAssumption
<1>1. \A a \in Account \cup {NoAccount}, ip \in IP \cup {NoIP} :
          AssignProxySlotAccount(row, a, ip) \in SlotRow
  BY <1>z, Zenon DEF AssignProxySlotAccount
<1>2. UnassignProxySlot(row) \in SlotRow
  BY <1>z, Zenon DEF UnassignProxySlot
<1>3. ClearProxySlotError(row) \in SlotRow
  BY <1>z, Zenon DEF ClearProxySlotError
<1>4. MarkProxySlotError(row) \in SlotRow
  BY <1>z, Zenon DEF MarkProxySlotError
<1>5. \A ip \in IP : SetProxySlotPinnedIP(row, ip) \in SlotRow
  BY <1>z, Zenon DEF SetProxySlotPinnedIP
<1>6. MarkProxySlotIPDrift(row) \in SlotRow
  <2>1. (IF row.drift < DriftAfter THEN row.drift + 1 ELSE row.drift) \in 0..DriftAfter
    BY StoreAssumption
  <2> QED
    BY <2>1, Zenon DEF MarkProxySlotIPDrift
<1>7. MarkProxySlotProbeFailure(row) \in SlotRow
  <2>1. (IF row.probe < RebindAfter THEN row.probe + 1 ELSE row.probe) \in 0..RebindAfter
    BY StoreAssumption
  <2> QED
    BY <2>1, Zenon DEF MarkProxySlotProbeFailure
<1>8. \A s, n \in Slot : EnsureProxySlot(row, s, n) \in SlotRow
  <2>1. [row EXCEPT !.status = "active", !.err = FALSE] \in SlotRow
    BY Zenon
  <2>2. EmptySlot \in SlotRow
    BY <1>z DEF EmptySlot
  <2> QED
    BY <2>1, <2>2 DEF EnsureProxySlot
<1> QED
  BY <1>1, <1>2, <1>3, <1>4, <1>5, <1>6, <1>7, <1>8

LEMMA EmptyRows ==
    /\ NoSlots \in [Slot -> SlotRow]
    /\ NoAccounts \in [Account -> AccountRow]
    /\ AbsentAccount \in AccountRow
    /\ NewAccount \in AccountRow
BY StoreAssumption
   DEF NoSlots, NoAccounts, EmptySlot, AbsentAccount, NewAccount, SlotRow, AccountRow

LEMMA CurrentType ==
    ASSUME TypeOK, NEW w \in Worker, NEW s \in Slot
    PROVE  /\ current(w, s) \in Account \cup {NoAccount}
           /\ currentIP(w, s) \in IP \cup {NoIP}
BY DEF TypeOK, current, currentIP, slotEffectiveIP, SlotRow, AccountRow

LEMMA CandidateType ==
    ASSUME TypeOK, NEW w \in Worker, NEW s \in Slot, NEW a \in nextSlotCandidate(w, s)
    PROVE  /\ a \in Account
           /\ a \in slotCandidates(w)
           /\ a \notin usedAccount[w]
           /\ snapAccounts[w][a].ip \in IP \cup {NoIP}
BY DEF TypeOK, nextSlotCandidate, slotCandidates, AccountRow

-----------------------------------------------------------------------------
(* Type correctness.                                                        *)

LEMMA InitType == Init => TypeOK
BY StoreAssumption, EmptyRows DEF Init, TypeOK

\* A visit writes one row, advances the loop and extends the used sets.
LEMMA VisitFrame ==
    ASSUME TypeOK, NEW w \in Worker, NEW s \in Slot, Visit(w, s)
    PROVE  /\ pc[w] = "visit" /\ at[w] = s
           /\ at' = [at EXCEPT ![w] = s + 1]
           /\ UNCHANGED <<accounts, env, pc, reads, history>>
           /\ \E row \in SlotRow : slots' = [slots EXCEPT ![s] = row]
           /\ \A t \in Slot : t # s => slots'[t] = slots[t]
           /\ missing' \in [Worker -> Nat]
           /\ \/ UNCHANGED <<usedAccount, usedIP>>
              \/ \E a \in Account, ip \in IP \cup {NoIP} : Use(w, a, ip)
<1> DEFINE Frame == /\ pc[w] = "visit" /\ at[w] = s
                    /\ at' = [at EXCEPT ![w] = s + 1]
                    /\ UNCHANGED <<accounts, env, pc, reads, history>>
           Row == \E row \in SlotRow : slots' = [slots EXCEPT ![s] = row]
           Miss == missing' \in [Worker -> Nat]
           Used == \/ UNCHANGED <<usedAccount, usedIP>>
                   \/ \E a \in Account, ip \in IP \cup {NoIP} : Use(w, a, ip)
<1>1. Frame
  BY DEF Visit, SkipDisabled, KeepBinding, AssignCandidate, ReleaseConflict, HoldFailing,
         LeaveUnbound, NeedsCandidate, Visiting, Advance
<1>2. slots[s] \in SlotRow /\ slots = [slots EXCEPT ![s] = slots[s]]
  BY DEF TypeOK
<1>3. CASE SkipDisabled(w, s)
  <2>1. Row /\ Miss /\ Used
    BY <1>2, <1>3 DEF SkipDisabled, TypeOK
  <2> QED
    BY <1>1, <2>1 DEF TypeOK
<1>4. CASE KeepBinding(w, s)
  <2>1. Row
    BY <1>2, <1>4, RowStatements DEF KeepBinding
  <2>2. Miss
    BY <1>4 DEF KeepBinding, TypeOK
  <2>3. Used
    BY <1>4, CurrentType DEF KeepBinding, keepCurrentSlotBinding
  <2> QED
    BY <1>1, <2>1, <2>2, <2>3 DEF TypeOK
<1>5. CASE AssignCandidate(w, s)
  <2>1. PICK a \in nextSlotCandidate(w, s) :
            /\ accounts[a].status # "absent"
            /\ slots' = [slots EXCEPT ![s] = AssignProxySlotAccount(@, a, accounts[a].ip)]
            /\ Use(w, a, snapAccounts[w][a].ip)
    BY <1>5 DEF AssignCandidate
  <2>2. a \in Account /\ accounts[a].ip \in IP \cup {NoIP}
                      /\ snapAccounts[w][a].ip \in IP \cup {NoIP}
    BY CandidateType DEF TypeOK, AccountRow
  <2>3. Row
    BY <1>2, <2>1, <2>2, RowStatements DEF TypeOK
  <2>4. Miss
    BY <1>5 DEF AssignCandidate, TypeOK
  <2> QED
    BY <1>1, <2>1, <2>2, <2>3, <2>4 DEF TypeOK
<1>6. CASE ReleaseConflict(w, s)
  <2>1. Row
    BY <1>2, <1>6, RowStatements DEF ReleaseConflict
  <2>2. Miss /\ Used
    BY <1>6 DEF ReleaseConflict, TypeOK
  <2> QED
    BY <1>1, <2>1, <2>2 DEF TypeOK
<1>7. CASE HoldFailing(w, s)
  <2>1. Row
    BY <1>2, <1>7, RowStatements DEF HoldFailing
  <2>2. Miss
    BY <1>7 DEF HoldFailing, TypeOK
  <2>3. Used
    BY <1>7, CurrentType DEF HoldFailing
  <2> QED
    BY <1>1, <2>1, <2>2, <2>3 DEF TypeOK
<1>8. CASE LeaveUnbound(w, s)
  <2>1. Row
    BY <1>2, <1>8, RowStatements DEF LeaveUnbound
  <2>2. Miss /\ Used
    BY <1>8 DEF LeaveUnbound, TypeOK
  <2> QED
    BY <1>1, <2>1, <2>2 DEF TypeOK
<1> QED
  BY <1>3, <1>4, <1>5, <1>6, <1>7, <1>8 DEF Visit

LEMMA LeaveType ==
    ASSUME TypeOK, NEW w \in Worker, Leave(w), UNCHANGED <<tables, env>>
    PROVE  TypeOK'
<1>1. 1 \in 1..(SlotCount + 1) /\ 0 \in Nat
  BY StoreAssumption
<1> QED
  BY <1>1, EmptyRows DEF TypeOK, Leave, tables, env

LEMMA PassType ==
    ASSUME TypeOK, NEW w \in Worker, PassStep(w)
    PROVE  TypeOK'
<1>1. CASE Begin(w)
  BY <1>1 DEF Begin, TypeOK, tables, env, reads, loop
<1>2. CASE EnsureProxySlots(w)
  <2>1. slots' \in [Slot -> SlotRow]
    BY <1>2, RowStatements DEF EnsureProxySlots, TypeOK
  <2> QED
    BY <1>2, <2>1 DEF EnsureProxySlots, TypeOK, env, reads, loop, history
<1>3. CASE ListProxySlots(w)
  BY <1>3 DEF ListProxySlots, TypeOK, tables, env, loop, history
<1>4. CASE ListAccounts(w)
  BY <1>4 DEF ListAccounts, TypeOK, tables, env, loop, history
<1>5. CASE RunningTags(w)
  BY <1>5 DEF RunningTags, TypeOK, tables, env, loop, history
<1>6. ASSUME NEW s \in Slot, Visit(w, s)
      PROVE  TypeOK'
  <2>1. /\ at' = [at EXCEPT ![w] = s + 1]
        /\ UNCHANGED <<accounts, env, pc, reads, history>>
        /\ missing' \in [Worker -> Nat]
    BY <1>6, VisitFrame
  <2>2. PICK row \in SlotRow : slots' = [slots EXCEPT ![s] = row]
    BY <1>6, VisitFrame
  <2>3. \/ UNCHANGED <<usedAccount, usedIP>>
        \/ \E a \in Account, ip \in IP \cup {NoIP} : Use(w, a, ip)
    BY <1>6, VisitFrame
  <2>4. at' \in [Worker -> 1..(SlotCount + 1)]
    <3>1. s + 1 \in 1..(SlotCount + 1)
      BY StoreAssumption DEF Slot
    <3> QED
      BY <2>1, <3>1 DEF TypeOK
  <2>5. slots' \in [Slot -> SlotRow]
    BY <2>2 DEF TypeOK
  <2>6. usedAccount' \in [Worker -> SUBSET Account] /\ usedIP' \in [Worker -> SUBSET IP]
    <3>1. CASE UNCHANGED <<usedAccount, usedIP>>
      BY <3>1 DEF TypeOK
    <3>2. ASSUME NEW a \in Account, NEW ip \in IP \cup {NoIP}, Use(w, a, ip)
          PROVE  /\ usedAccount' \in [Worker -> SUBSET Account]
                 /\ usedIP' \in [Worker -> SUBSET IP]
      <4>1. usedAccount[w] \cup {a} \in SUBSET Account
            /\ usedIP[w] \cup ({ip} \ {NoIP}) \in SUBSET IP
        BY DEF TypeOK
      <4> QED
        BY <3>2, <4>1 DEF TypeOK, Use
    <3> QED
      BY <2>3, <3>1, <3>2
  <2> QED
    BY <2>1, <2>4, <2>5, <2>6 DEF TypeOK, env, reads, history
<1>7. ASSUME NEW s \in Slot, AssignFails(w, s)
      PROVE  TypeOK'
  BY <1>7, LeaveType DEF AssignFails
<1>8. CASE Return(w)
  BY <1>8, LeaveType DEF Return
<1> QED
  BY <1>1, <1>2, <1>3, <1>4, <1>5, <1>6, <1>7, <1>8 DEF PassStep

LEMMA FreeType ==
    ASSUME NEW rows \in [Slot -> SlotRow], NEW a \in Account
    PROVE  FreeSlotsOf(a, rows) \in [Slot -> SlotRow]
BY RowStatements DEF FreeSlotsOf

LEMMA EnvironmentType == TypeOK /\ Environment => TypeOK'
<1> SUFFICES ASSUME TypeOK, Environment
             PROVE  TypeOK'
  OBVIOUS
<1>1. ASSUME Event
      PROVE  /\ events' \in Nat
             /\ quiet' \in [Worker -> BOOLEAN]
             /\ UNCHANGED <<pc, reads, loop, solo>>
  BY <1>1 DEF Event, TypeOK
<1> DEFINE Tables == /\ accounts' \in [Account -> AccountRow]
                     /\ slots' \in [Slot -> SlotRow]
                     /\ running' \in SUBSET Account
                     /\ target' \in Slot
<1>2. ASSUME Event, Tables
      PROVE  TypeOK'
  BY <1>1, <1>2 DEF TypeOK, reads, loop
<1>3. ASSUME NEW a \in Account, InsertAccount(a)
      PROVE  TypeOK'
  BY <1>2, <1>3, EmptyRows DEF InsertAccount, TypeOK
<1>4. ASSUME NEW a \in Account, DeleteAccount(a)
      PROVE  TypeOK'
  BY <1>2, <1>4, EmptyRows, FreeType DEF DeleteAccount, TypeOK
<1>5. ASSUME NEW a \in Account, UpdateAccountTestResult(a)
      PROVE  TypeOK'
  <2>1. PICK ip \in IP \cup {NoIP}, good \in BOOLEAN :
            accounts' = [accounts EXCEPT ![a] = [@ EXCEPT !.ip = ip, !.good = good]]
    BY <1>5 DEF UpdateAccountTestResult
  <2>2. ASSUME NEW acct \in AccountRow
        PROVE  [acct EXCEPT !.ip = ip, !.good = good] \in AccountRow
    BY Zenon DEF AccountRow
  <2>3. accounts' \in [Account -> AccountRow]
    BY <2>1, <2>2 DEF TypeOK
  <2> QED
    BY <1>2, <1>5, <2>3 DEF UpdateAccountTestResult, TypeOK
<1>6. ASSUME NEW a \in Account, UpdateAccountStatus(a)
      PROVE  TypeOK'
  <2>1. PICK status \in {"active", "disabled", "error"} :
            accounts' = [accounts EXCEPT ![a] = [@ EXCEPT !.status = status]]
    BY <1>6 DEF UpdateAccountStatus
  <2>2. ASSUME NEW acct \in AccountRow
        PROVE  [acct EXCEPT !.status = status] \in AccountRow
    BY Zenon DEF AccountRow
  <2>3. accounts' \in [Account -> AccountRow]
    BY <2>1, <2>2 DEF TypeOK
  <2> QED
    BY <1>2, <1>6, <2>3 DEF UpdateAccountStatus, TypeOK
<1>7. CASE SetTunnels
  BY <1>2, <1>7 DEF SetTunnels, TypeOK, tables
<1>8. CASE SaveSlotCount
  BY <1>2, <1>8 DEF SaveSlotCount, TypeOK, tables
<1>9. ASSUME NEW s \in Slot, ProbeSlot(s)
      PROVE  TypeOK'
  <2>1. \E row \in SlotRow : slots' = [slots EXCEPT ![s] = row]
    <3>1. slots[s] \in SlotRow
      BY DEF TypeOK
    <3>2. /\ MarkProxySlotProbeFailure(slots[s]) \in SlotRow
          /\ MarkProxySlotIPDrift(slots[s]) \in SlotRow
          /\ ClearProxySlotError(slots[s]) \in SlotRow
          /\ \A ip \in IP : SetProxySlotPinnedIP(slots[s], ip) \in SlotRow
      BY <3>1, RowStatements
    <3> QED
      BY <1>9, <3>2 DEF ProbeSlot
  <2>2. slots' \in [Slot -> SlotRow]
    BY <2>1 DEF TypeOK
  <2> QED
    BY <1>2, <1>9, <2>2 DEF ProbeSlot, TypeOK
<1>10. CASE Crash
  <2>1. 1 \in 1..(SlotCount + 1) /\ 0 \in Nat
    BY StoreAssumption
  <2> QED
    BY <1>10, <2>1, EmptyRows DEF Crash, TypeOK, tables
<1> QED
  BY <1>3, <1>4, <1>5, <1>6, <1>7, <1>8, <1>9, <1>10 DEF Environment

LEMMA StepType == TypeOK /\ [Next]_vars => TypeOK'
<1>1. TypeOK /\ UNCHANGED vars => TypeOK'
  BY DEF TypeOK, vars, tables, env, reads, loop, history
<1> QED
  BY <1>1, PassType, EnvironmentType DEF Next

\* The tables and the workers' locals keep their types.
THEOREM TypeCorrect == Spec => []TypeOK
BY InitType, StepType, PTL DEF Spec

-----------------------------------------------------------------------------
(* The inductive invariant.  A pass that no other pass overlaps knows, all  *)
(* along, how its snapshot relates to the table: the slots it has yet to    *)
(* visit are bound as it read them or not at all, and those it has visited  *)
(* hold different accounts, every one of them in usedAccount.  That the     *)
(* account of a slot read before ListAccounts is still there when the       *)
(* accounts are read is BindingsExist.                                      *)

SoloAlone == \A w \in Worker : solo[w] => \A o \in Others(w) : pc[o] = "idle"

BeforeLoop == \A w \in Worker : pc[w] # "visit" => at[w] = 1

SnapshotStatus(w) ==
    pc[w] \in {"accounts", "running", "visit"} =>
        \A s \in Slot : snapSlots[w][s].status = slots[s].status

StillListed(w) ==
    pc[w] = "accounts" =>
        \A s \in Slot : slots[s].account \in {snapSlots[w][s].account, NoAccount}

StillCurrent(w) ==
    pc[w] \in {"running", "visit"} =>
        \A s \in Slot : s >= at[w] => slots[s].account \in {current(w, s), NoAccount}

VisitedUsed(w) ==
    pc[w] = "visit" =>
        \A s \in Slot : s < at[w] /\ Bound(s) => slots[s].account \in usedAccount[w]

VisitedDistinct(w) ==
    pc[w] = "visit" =>
        \A s, t \in Slot : s < at[w] /\ t < at[w] /\ s # t /\ Bound(s) /\ Bound(t)
                           => slots[s].account # slots[t].account

Separation(w) ==
    /\ SnapshotStatus(w)
    /\ StillListed(w)
    /\ StillCurrent(w)
    /\ VisitedUsed(w)
    /\ VisitedDistinct(w)

IInv ==
    /\ TypeOK
    /\ BindingsExist
    /\ SoloAlone
    /\ BeforeLoop
    /\ \A w \in Worker : solo[w] => Separation(w)

-----------------------------------------------------------------------------
(* What the statements do to a row's status and account.                    *)

LEMMA RowEffects ==
    ASSUME NEW row \in SlotRow
    PROVE  /\ \A a \in Account \cup {NoAccount}, ip \in IP \cup {NoIP} :
                  /\ AssignProxySlotAccount(row, a, ip).status = row.status
                  /\ AssignProxySlotAccount(row, a, ip).account = a
           /\ UnassignProxySlot(row).status = row.status
           /\ UnassignProxySlot(row).account = NoAccount
           /\ ClearProxySlotError(row).status = row.status
           /\ ClearProxySlotError(row).account = row.account
           /\ MarkProxySlotError(row).status = row.status
           /\ MarkProxySlotError(row).account = row.account
           /\ \A ip \in IP : /\ SetProxySlotPinnedIP(row, ip).status = row.status
                             /\ SetProxySlotPinnedIP(row, ip).account = row.account
           /\ MarkProxySlotIPDrift(row).status = row.status
           /\ MarkProxySlotIPDrift(row).account = row.account
           /\ MarkProxySlotProbeFailure(row).status = row.status
           /\ MarkProxySlotProbeFailure(row).account = row.account
BY DEF SlotRow, AssignProxySlotAccount, UnassignProxySlot, ClearProxySlotError, MarkProxySlotError,
       SetProxySlotPinnedIP, MarkProxySlotIPDrift, MarkProxySlotProbeFailure

\* The rest of the program never gives a slot an account nor switches it on or
\* off: it only takes accounts away.
Gentle ==
    \A s \in Slot : /\ slots'[s].status = slots[s].status
                    /\ slots'[s].account \in {slots[s].account, NoAccount}

LEMMA EnvironmentGentle ==
    ASSUME TypeOK, Environment
    PROVE  Gentle
<1>1. slots \in [Slot -> SlotRow]
  BY DEF TypeOK
<1>2. UNCHANGED slots => Gentle
  BY DEF Gentle
<1>3. ASSUME NEW a \in Account, DeleteAccount(a)
      PROVE  Gentle
  BY <1>1, <1>3, RowEffects DEF DeleteAccount, FreeSlotsOf, Gentle
<1>4. ASSUME NEW s \in Slot, ProbeSlot(s)
      PROVE  Gentle
  <2>1. \E row \in SlotRow : /\ row.status = slots[s].status
                             /\ row.account = slots[s].account
                             /\ slots' = [slots EXCEPT ![s] = row]
    <3>1. slots[s] \in SlotRow
      BY <1>1
    <3>2. CASE slots' = [slots EXCEPT ![s] = MarkProxySlotProbeFailure(@)]
      BY <3>1, <3>2, RowStatements, RowEffects
    <3>3. CASE slots' = [slots EXCEPT ![s] = MarkProxySlotIPDrift(@)]
      BY <3>1, <3>3, RowStatements, RowEffects
    <3>4. CASE slots' = [slots EXCEPT ![s] = ClearProxySlotError(@)]
      BY <3>1, <3>4, RowStatements, RowEffects
    <3>5. ASSUME NEW ip \in IP, slots' = [slots EXCEPT ![s] = SetProxySlotPinnedIP(@, ip)]
          PROVE  \E row \in SlotRow : /\ row.status = slots[s].status
                                      /\ row.account = slots[s].account
                                      /\ slots' = [slots EXCEPT ![s] = row]
      BY <3>1, <3>5, RowStatements, RowEffects
    <3> QED
      BY <1>4, <3>2, <3>3, <3>4, <3>5 DEF ProbeSlot
  <2> QED
    BY <1>1, <2>1 DEF Gentle
<1> QED
  BY <1>2, <1>3, <1>4
  DEF Environment, InsertAccount, UpdateAccountTestResult, UpdateAccountStatus, SetTunnels,
      SaveSlotCount, Crash, tables

-----------------------------------------------------------------------------
(* Bindings exist.                                                          *)

\* The loop body, seen through the one column the invariants are about.
LEMMA VisitOutcome ==
    ASSUME TypeOK, NEW w \in Worker, NEW s \in Slot, Visit(w, s)
    PROVE  /\ slots'[s].status = slots[s].status
           /\ \/ /\ slots'[s].account = slots[s].account
                 /\ \/ snapSlots[w][s].status = "disabled"
                    \/ current(w, s) = NoAccount
                    \/ /\ current(w, s) \notin usedAccount[w]
                       /\ Use(w, current(w, s), currentIP(w, s))
              \/ slots'[s].account = NoAccount
              \/ \E a \in Account \ usedAccount[w] : /\ accounts[a].status # "absent"
                                                     /\ slots'[s].account = a
                                                     /\ Use(w, a, snapAccounts[w][a].ip)
<1>1. slots[s] \in SlotRow /\ slots \in [Slot -> SlotRow]
  BY DEF TypeOK
<1>2. CASE SkipDisabled(w, s)
  BY <1>2 DEF SkipDisabled
<1>3. CASE KeepBinding(w, s)
  <2>1. slots'[s].status = slots[s].status /\ slots'[s].account = slots[s].account
    BY <1>1, <1>3, RowEffects DEF KeepBinding
  <2>2. /\ current(w, s) \notin usedAccount[w]
        /\ Use(w, current(w, s), currentIP(w, s))
    BY <1>3 DEF KeepBinding, keepCurrentSlotBinding, currentBindingConflicts
  <2> QED
    BY <2>1, <2>2
<1>4. CASE AssignCandidate(w, s)
  <2>1. PICK a \in nextSlotCandidate(w, s) :
            /\ accounts[a].status # "absent"
            /\ slots' = [slots EXCEPT ![s] = AssignProxySlotAccount(@, a, accounts[a].ip)]
            /\ Use(w, a, snapAccounts[w][a].ip)
    BY <1>4 DEF AssignCandidate
  <2>2. a \in Account \ usedAccount[w] /\ accounts[a].ip \in IP \cup {NoIP}
    BY CandidateType DEF TypeOK, AccountRow
  <2>3. slots'[s].account = a /\ slots'[s].status = slots[s].status
    BY <1>1, <2>1, <2>2, RowEffects
  <2> QED
    BY <2>1, <2>2, <2>3
<1>5. CASE ReleaseConflict(w, s)
  BY <1>1, <1>5, RowEffects DEF ReleaseConflict
<1>6. CASE HoldFailing(w, s)
  <2>1. slots'[s].status = slots[s].status /\ slots'[s].account = slots[s].account
    BY <1>1, <1>6, RowEffects DEF HoldFailing
  <2>2. /\ current(w, s) \notin usedAccount[w]
        /\ Use(w, current(w, s), currentIP(w, s))
    BY <1>6 DEF HoldFailing, currentBindingConflicts
  <2> QED
    BY <2>1, <2>2
<1>7. CASE LeaveUnbound(w, s)
  <2>1. slots'[s].status = slots[s].status /\ slots'[s].account = slots[s].account
    BY <1>1, <1>7, RowEffects DEF LeaveUnbound
  <2> QED
    BY <1>7, <2>1 DEF LeaveUnbound
<1> QED
  BY <1>2, <1>3, <1>4, <1>5, <1>6, <1>7 DEF Visit

LEMMA VisitBindings ==
    ASSUME TypeOK, BindingsExist, NEW w \in Worker, NEW s \in Slot, Visit(w, s)
    PROVE  BindingsExist'
<1>1. UNCHANGED accounts /\ \A t \in Slot : t # s => slots'[t] = slots[t]
  BY VisitFrame
<1>2. slots'[s].account # NoAccount => accounts[slots'[s].account].status # "absent"
  BY VisitOutcome DEF BindingsExist
<1> QED
  BY <1>1, <1>2 DEF BindingsExist

LEMMA EnvironmentBindings ==
    ASSUME TypeOK, BindingsExist, Environment
    PROVE  BindingsExist'
<1>1. CASE UNCHANGED slots /\ \A a \in Account : accounts[a].status # "absent" => accounts'[a].status # "absent"
  BY <1>1 DEF BindingsExist, TypeOK, SlotRow
<1>2. CASE UNCHANGED accounts
  <2>1. slots'  \in [Slot -> SlotRow]
    BY EnvironmentType DEF TypeOK
  <2> QED
    BY <1>2, EnvironmentGentle DEF BindingsExist, Gentle
<1>3. ASSUME NEW a \in Account, InsertAccount(a)
      PROVE  BindingsExist'
  BY <1>1, <1>3 DEF InsertAccount, TypeOK, NewAccount
<1>4. ASSUME NEW a \in Account, DeleteAccount(a)
      PROVE  BindingsExist'
  <2>1. \A s \in Slot : slots'[s].account # NoAccount => /\ slots'[s] = slots[s]
                                                        /\ slots[s].account # a
    BY <1>4, RowEffects DEF DeleteAccount, FreeSlotsOf, TypeOK
  <2> QED
    BY <1>4, <2>1 DEF DeleteAccount, BindingsExist, TypeOK, SlotRow
<1>5. ASSUME NEW a \in Account, UpdateAccountTestResult(a)
      PROVE  BindingsExist'
  BY <1>1, <1>5 DEF UpdateAccountTestResult, TypeOK, AccountRow
<1>6. ASSUME NEW a \in Account, UpdateAccountStatus(a)
      PROVE  BindingsExist'
  BY <1>1, <1>6 DEF UpdateAccountStatus, TypeOK, AccountRow
<1> QED
  BY <1>2, <1>3, <1>4, <1>5, <1>6
  DEF Environment, SetTunnels, SaveSlotCount, ProbeSlot, Crash, tables

LEMMA StepBindings == TypeOK /\ BindingsExist /\ [Next]_vars => BindingsExist'
<1> SUFFICES ASSUME TypeOK, BindingsExist, [Next]_vars
             PROVE  BindingsExist'
  OBVIOUS
<1>1. CASE UNCHANGED tables
  BY <1>1 DEF BindingsExist, tables
<1>2. ASSUME NEW w \in Worker, EnsureProxySlots(w)
      PROVE  BindingsExist'
  <2>1. \A s \in Slot : slots'[s].account \in {slots[s].account, NoAccount}
    BY <1>2, ZenonT(40) DEF EnsureProxySlots, EnsureProxySlot, EmptySlot, TypeOK, SlotRow
  <2> QED
    BY <1>2, <2>1 DEF EnsureProxySlots, BindingsExist
<1>3. ASSUME NEW w \in Worker, PassStep(w)
      PROVE  BindingsExist'
  <2>1. \/ UNCHANGED tables
        \/ EnsureProxySlots(w)
        \/ \E s \in Slot : Visit(w, s)
    BY <1>3 DEF PassStep, Begin, ListProxySlots, ListAccounts, RunningTags, Return, AssignFails
  <2> QED
    BY <1>1, <1>2, <2>1, VisitBindings
<1> QED
  BY <1>1, <1>3, EnvironmentBindings DEF Next, vars

\* BindingsExist for any number of workers, slots and events: no schedule of
\* passes and deletions leaves a slot on an account that is gone.
THEOREM BindingsAlwaysExist == Spec => []BindingsExist
<1>1. Init => BindingsExist
  BY DEF Init, BindingsExist
<1> QED
  BY <1>1, TypeCorrect, StepBindings, PTL DEF Spec

-----------------------------------------------------------------------------
(* A pass separates the accounts.                                           *)

LEMMA StepSoloAlone == TypeOK /\ SoloAlone /\ [Next]_vars => SoloAlone'
<1> SUFFICES ASSUME TypeOK, SoloAlone, [Next]_vars
             PROVE  SoloAlone'
  OBVIOUS
<1>1. CASE UNCHANGED <<pc, solo>>
  BY <1>1 DEF SoloAlone
<1>2. CASE Environment
  BY <1>1, <1>2
  DEF Environment, Event, InsertAccount, DeleteAccount, UpdateAccountTestResult, UpdateAccountStatus,
      SetTunnels, SaveSlotCount, ProbeSlot, Crash, SoloAlone, Others
<1>3. ASSUME NEW w \in Worker, PassStep(w)
      PROVE  SoloAlone'
  <2>1. CASE Begin(w)
    <3>1. \A v \in Worker : solo'[v] => v = w /\ \A o \in Others(w) : pc[o] = "idle"
      BY <2>1, Zenon DEF Begin
    <3>2. \A o \in Others(w) : pc'[o] = pc[o]
      BY <2>1 DEF Begin, Others, TypeOK
    <3> QED
      BY <3>1, <3>2 DEF SoloAlone
  <2>2. CASE Leave(w)
    BY <2>2 DEF Leave, SoloAlone, Others, TypeOK
  <2>3. CASE EnsureProxySlots(w) \/ ListProxySlots(w) \/ ListAccounts(w) \/ RunningTags(w)
    BY <2>3 DEF EnsureProxySlots, ListProxySlots, ListAccounts, RunningTags, history, SoloAlone,
                Others, TypeOK
  <2>4. ASSUME NEW s \in Slot, Visit(w, s)
        PROVE  SoloAlone'
    BY <1>1, <2>4, VisitFrame DEF history
  <2> QED
    BY <1>3, <2>1, <2>2, <2>3, <2>4 DEF PassStep, Return, AssignFails
<1> QED
  BY <1>1, <1>2, <1>3 DEF Next, vars, history

LEMMA StepBeforeLoop == TypeOK /\ BeforeLoop /\ [Next]_vars => BeforeLoop'
<1> SUFFICES ASSUME TypeOK, BeforeLoop, [Next]_vars
             PROVE  BeforeLoop'
  OBVIOUS
<1>1. CASE UNCHANGED <<pc, at>>
  BY <1>1 DEF BeforeLoop
<1>2. CASE Environment
  BY <1>1, <1>2
  DEF Environment, Event, InsertAccount, DeleteAccount, UpdateAccountTestResult, UpdateAccountStatus,
      SetTunnels, SaveSlotCount, ProbeSlot, Crash, BeforeLoop, loop
<1>3. ASSUME NEW w \in Worker, PassStep(w)
      PROVE  BeforeLoop'
  <2>1. CASE \/ Begin(w) \/ EnsureProxySlots(w) \/ ListProxySlots(w) \/ ListAccounts(w)
             \/ RunningTags(w)
    BY <2>1 DEF Begin, EnsureProxySlots, ListProxySlots, ListAccounts, RunningTags, loop,
                BeforeLoop, TypeOK
  <2>2. CASE Leave(w)
    BY <2>2 DEF Leave, BeforeLoop, TypeOK
  <2>3. ASSUME NEW s \in Slot, Visit(w, s)
        PROVE  BeforeLoop'
    <3>1. pc[w] = "visit" /\ at' = [at EXCEPT ![w] = s + 1] /\ UNCHANGED pc
      BY <2>3, VisitFrame
    <3> QED
      BY <3>1 DEF BeforeLoop, TypeOK
  <2> QED
    BY <1>3, <2>1, <2>2, <2>3 DEF PassStep, Return, AssignFails
<1> QED
  BY <1>1, <1>2, <1>3 DEF Next, vars, loop

\* Taking accounts away from slots, or leaving them alone, disturbs no pass.
LEMMA GentleSeparation ==
    ASSUME NEW w \in Worker, Separation(w), Gentle,
           UNCHANGED <<pc, snapSlots, snapAccounts, at, usedAccount>>
    PROVE  Separation(w)'
<1>1. \A s \in Slot : UNCHANGED current(w, s)
  BY DEF current
<1>2. \A s \in Slot : Bound(s)' => Bound(s) /\ slots'[s].account = slots[s].account
  BY DEF Gentle, Bound
<1>3. SnapshotStatus(w)' /\ StillListed(w)'
  BY DEF Separation, SnapshotStatus, StillListed, Gentle
<1>4. StillCurrent(w)'
  BY <1>1 DEF Separation, StillCurrent, Gentle
<1>5. VisitedUsed(w)' /\ VisitedDistinct(w)'
  BY <1>2 DEF Separation, VisitedUsed, VisitedDistinct
<1> QED
  BY <1>3, <1>4, <1>5 DEF Separation

LEMMA VisitSeparation ==
    ASSUME TypeOK, NEW w \in Worker, Separation(w), NEW s \in Slot, Visit(w, s)
    PROVE  Separation(w)'
<1>1. /\ pc[w] = "visit" /\ at[w] = s
      /\ at' = [at EXCEPT ![w] = s + 1]
      /\ UNCHANGED <<pc, snapSlots, snapAccounts>>
      /\ \A t \in Slot : t # s => slots'[t] = slots[t]
  BY VisitFrame DEF reads
<1>2. at'[w] = s + 1
  BY <1>1 DEF TypeOK
<1>3. /\ slots'[s].status = slots[s].status
      /\ \/ /\ slots'[s].account = slots[s].account
            /\ \/ snapSlots[w][s].status = "disabled"
               \/ current(w, s) = NoAccount
               \/ /\ current(w, s) \notin usedAccount[w]
                  /\ Use(w, current(w, s), currentIP(w, s))
         \/ slots'[s].account = NoAccount
         \/ \E a \in Account \ usedAccount[w] : /\ accounts[a].status # "absent"
                                                /\ slots'[s].account = a
                                                /\ Use(w, a, snapAccounts[w][a].ip)
  BY VisitOutcome
<1>4. /\ snapSlots[w][s].status = slots[s].status
      /\ slots[s].account \in {current(w, s), NoAccount}
  BY <1>1 DEF Separation, SnapshotStatus, StillCurrent, Slot
\* a bound slot is left on an account the pass had not used and now has
<1>5. Bound(s)' => /\ slots'[s].account \notin usedAccount[w]
                   /\ slots'[s].account \in usedAccount'[w]
  BY <1>3, <1>4 DEF Bound, Use, TypeOK
<1>6. usedAccount[w] \subseteq usedAccount'[w]
  <2>1. \/ UNCHANGED <<usedAccount, usedIP>>
        \/ \E a \in Account, ip \in IP \cup {NoIP} : Use(w, a, ip)
    BY VisitFrame
  <2> QED
    BY <2>1 DEF Use, TypeOK
<1>7. \A t \in Slot : t < s /\ Bound(t)' =>
          /\ slots'[t].account = slots[t].account
          /\ Bound(t)
          /\ slots[t].account \in usedAccount[w]
  BY <1>1 DEF Separation, VisitedUsed, Bound, Slot
<1>8. \A t \in Slot : t < s + 1 => t < s \/ t = s
  BY DEF Slot
<1>9. SnapshotStatus(w)' /\ StillListed(w)'
  BY <1>1, <1>3 DEF Separation, SnapshotStatus, StillListed
<1>10. StillCurrent(w)'
  <2>1. \A t \in Slot : UNCHANGED current(w, t)
    BY <1>1 DEF current
  <2>2. \A t \in Slot : t >= s + 1 => t # s /\ t >= s
    BY DEF Slot
  <2> QED
    BY <1>1, <1>2, <2>1, <2>2 DEF Separation, StillCurrent
<1>11. VisitedUsed(w)'
  BY <1>2, <1>5, <1>6, <1>7, <1>8 DEF VisitedUsed
<1>12. VisitedDistinct(w)'
  <2> SUFFICES ASSUME NEW t \in Slot, NEW u \in Slot, t < s + 1, u < s + 1, t # u, Bound(t)', Bound(u)'
               PROVE  slots'[t].account # slots'[u].account
    BY <1>2 DEF VisitedDistinct
  <2>1. CASE t = s
    BY <2>1, <1>5, <1>7, <1>8
  <2>2. CASE u = s
    BY <2>2, <1>5, <1>7, <1>8
  <2>3. CASE t < s /\ u < s
    BY <2>3, <1>1, <1>7 DEF Separation, VisitedDistinct
  <2> QED
    BY <1>8, <2>1, <2>2, <2>3
<1> QED
  BY <1>9, <1>10, <1>11, <1>12 DEF Separation

LEMMA StepSeparation ==
    ASSUME IInv, [Next]_vars
    PROVE  \A w \in Worker : solo'[w] => Separation(w)'
<1> SUFFICES ASSUME NEW w \in Worker, solo'[w]
             PROVE  Separation(w)'
  OBVIOUS
<1> USE DEF IInv
\* w has begun, or is between passes: there is nothing to keep
<1>1. CASE pc'[w] \in {"idle", "ensure", "slots"}
  BY <1>1 DEF Separation, SnapshotStatus, StillListed, StillCurrent, VisitedUsed, VisitedDistinct
<1>2. CASE UNCHANGED vars
  <2>1. Separation(w) /\ Gentle
    BY <1>2 DEF vars, tables, history, Gentle
  <2> QED
    BY <1>2, <2>1, GentleSeparation DEF vars, reads, loop
<1>3. CASE Environment
  <2>1. CASE Crash
    BY <1>1, <2>1 DEF Crash
  <2>2. CASE UNCHANGED <<pc, reads, loop, solo>>
    BY <1>3, <2>2, EnvironmentGentle, GentleSeparation DEF reads, loop
  <2> QED
    BY <1>3, <2>1, <2>2
    DEF Environment, Event, InsertAccount, DeleteAccount, UpdateAccountTestResult,
        UpdateAccountStatus, SetTunnels, SaveSlotCount, ProbeSlot
<1>4. ASSUME NEW o \in Worker, PassStep(o)
      PROVE  Separation(w)'
  <2>1. CASE Begin(o)
    BY <1>1, <2>1 DEF Begin, TypeOK
  <2>2. CASE Leave(o)
    <3>1. CASE o = w
      BY <1>1, <2>2, <3>1 DEF Leave, TypeOK
    <3>2. CASE o # w
      <4>1. solo[w] /\ pc[o] = "idle"
        BY <2>2, <3>2 DEF Leave, TypeOK, SoloAlone, Others
      <4> QED
        BY <1>4, <2>1, <4>1
        DEF PassStep, EnsureProxySlots, ListProxySlots, ListAccounts, RunningTags, Visit, SkipDisabled,
            KeepBinding, AssignCandidate, ReleaseConflict, HoldFailing, LeaveUnbound, NeedsCandidate,
            Visiting, AssignFails, Return, Finished
    <3> QED
      BY <3>1, <3>2
  <2>3. CASE ~ Begin(o) /\ ~ Leave(o)
    <3>1. UNCHANGED solo
      <4>1. ASSUME NEW s \in Slot, Visit(o, s)
            PROVE  UNCHANGED solo
        BY <4>1, VisitFrame DEF history
      <4> QED
        BY <1>4, <2>3, <4>1
        DEF PassStep, EnsureProxySlots, ListProxySlots, ListAccounts, RunningTags, history, Return,
            AssignFails
    <3>2. o = w
      <4>1. pc[o] # "idle"
        BY <1>4, <2>3
        DEF PassStep, EnsureProxySlots, ListProxySlots, ListAccounts, RunningTags, Visit, SkipDisabled,
            KeepBinding, AssignCandidate, ReleaseConflict, HoldFailing, LeaveUnbound, NeedsCandidate,
            Visiting, AssignFails, Return, Finished
      <4> QED
        BY <3>1, <4>1 DEF SoloAlone, Others
    <3>3. CASE EnsureProxySlots(w)
      BY <1>1, <3>3 DEF EnsureProxySlots, TypeOK
    <3>4. CASE ListProxySlots(w)
      BY <3>4 DEF ListProxySlots, tables, TypeOK, Separation, SnapshotStatus, StillListed,
                  StillCurrent, VisitedUsed, VisitedDistinct
    <3>5. CASE ListAccounts(w)
      <4>1. Separation(w) /\ pc[w] = "accounts"
        BY <3>1, <3>5 DEF ListAccounts
      <4>2. /\ pc'[w] = "running" /\ UNCHANGED <<snapSlots, slots, at>>
            /\ snapAccounts'[w] = accounts
        BY <3>5 DEF ListAccounts, TypeOK, tables, loop
      <4>3. \A s \in Slot : slots[s].account \in {current(w, s)', NoAccount}
        BY <4>1, <4>2 DEF Separation, StillListed, BindingsExist, current
      <4> QED
        BY <4>1, <4>2, <4>3 DEF Separation, SnapshotStatus, StillListed, StillCurrent, VisitedUsed,
                                VisitedDistinct
    <3>6. CASE RunningTags(w)
      <4>1. Separation(w) /\ pc[w] = "running" /\ at[w] = 1
        BY <3>1, <3>6 DEF RunningTags, BeforeLoop
      <4>2. pc'[w] = "visit" /\ UNCHANGED <<snapSlots, snapAccounts, slots, at, usedAccount>>
        BY <3>6 DEF RunningTags, TypeOK, tables, loop
      <4>3. \A s \in Slot : UNCHANGED current(w, s)
        BY <4>2 DEF current
      <4>4. \A s \in Slot : ~ (s < at'[w])
        BY <4>1, <4>2 DEF Slot
      <4>5. SnapshotStatus(w)' /\ StillListed(w)' /\ StillCurrent(w)'
        BY <4>1, <4>2, <4>3 DEF Separation, SnapshotStatus, StillListed, StillCurrent
      <4>6. VisitedUsed(w)' /\ VisitedDistinct(w)'
        BY <4>4 DEF VisitedUsed, VisitedDistinct
      <4> QED
        BY <4>5, <4>6 DEF Separation
    <3>7. ASSUME NEW s \in Slot, Visit(w, s)
          PROVE  Separation(w)'
      BY <3>1, <3>7, VisitSeparation
    <3> QED
      BY <1>4, <2>3, <3>2, <3>3, <3>4, <3>5, <3>6, <3>7 DEF PassStep, Return, AssignFails
  <2> QED
    BY <2>1, <2>2, <2>3
<1> QED
  BY <1>2, <1>3, <1>4 DEF Next

LEMMA InitInductive == Init => IInv
<1> SUFFICES ASSUME Init
             PROVE  IInv
  OBVIOUS
<1>1. TypeOK
  BY InitType
<1>2. BindingsExist /\ SoloAlone /\ BeforeLoop /\ \A w \in Worker : ~ solo[w]
  BY DEF Init, BindingsExist, SoloAlone, BeforeLoop
<1> QED
  BY <1>1, <1>2 DEF IInv

LEMMA StepInductive == IInv /\ [Next]_vars => IInv'
BY StepType, StepBindings, StepSoloAlone, StepBeforeLoop, StepSeparation DEF IInv

LEMMA InductiveImplies == IInv => PassSeparatesAccounts
<1> SUFFICES ASSUME IInv, NEW w \in Worker, Finished(w), solo[w],
                    NEW s \in Slot, NEW t \in Slot, s # t, Bound(s), Bound(t)
             PROVE  slots[s].account # slots[t].account
  BY DEF PassSeparatesAccounts, AccountsDistinct
<1>1. s < at[w] /\ t < at[w]
  BY StoreAssumption DEF Finished, Slot
<1> QED
  BY <1>1 DEF IInv, Separation, VisitedDistinct, Finished

\* PassSeparatesAccounts for any number of slots, accounts, workers and events.
THEOREM PassesSeparateAccounts == Spec => []PassSeparatesAccounts
BY InitInductive, StepInductive, InductiveImplies, PTL DEF Spec

-----------------------------------------------------------------------------
(* An undisturbed pass: no other pass overlaps it and the environment has   *)
(* done nothing since it began.  Such a pass works on the tables as they    *)
(* are: what it has read is what they hold, and what it has used is exactly *)
(* what the slots it has visited hold.                                      *)

Undisturbed(w) == solo[w] /\ quiet[w]

Visited(w, s) == s < at[w] /\ Bound(s)

NothingUsed == \A w \in Worker : pc[w] # "visit" => usedAccount[w] = {} /\ usedIP[w] = {}

AsRead(w) ==
    /\ pc[w] \in {"accounts", "running"} => snapSlots[w] = slots
    /\ pc[w] = "visit" => \A s \in Slot : s >= at[w] => snapSlots[w][s] = slots[s]
    /\ pc[w] \in {"running", "visit"} => snapAccounts[w] = accounts
    /\ pc[w] = "visit" => snapRunning[w] = running

\* Every account and address the pass has used is that of a visited slot.
UsedTraced(w) ==
    pc[w] = "visit" =>
        /\ \A a \in usedAccount[w] : \E s \in Slot : Visited(w, s) /\ slots[s].account = a
        /\ \A ip \in usedIP[w] : \E s \in Slot : Visited(w, s) /\ Egress(s) = ip

EgressUsed(w) ==
    pc[w] = "visit" =>
        \A s \in Slot : Visited(w, s) /\ Egress(s) # NoIP => Egress(s) \in usedIP[w]

EgressApart(w) ==
    pc[w] = "visit" =>
        \A s, t \in Slot : /\ s # t /\ Visited(w, s) /\ Visited(w, t) /\ Egress(s) # NoIP
                           => Egress(s) # Egress(t)

Taken(w, a) == a \in usedAccount[w] \/ snapAccounts[w][a].ip \in usedIP[w]

NoneLeft(w) ==
    pc[w] = "visit" =>
        \A s \in Slot : s < at[w] /\ slots[s].status = "active" /\ slots[s].account = NoAccount =>
            \A a \in snapRunning[w] \ blockedAccount(w) :
                accountUsable(snapAccounts[w][a]) => Taken(w, a)

Knowledge(w) ==
    /\ AsRead(w)
    /\ UsedTraced(w)
    /\ EgressUsed(w)
    /\ EgressApart(w)
    /\ NoneLeft(w)

QInv ==
    /\ IInv
    /\ NothingUsed
    /\ \A w \in Worker : Undisturbed(w) => Knowledge(w)

-----------------------------------------------------------------------------
(* One visit of an undisturbed pass.                                        *)

LEMMA ColumnEffects ==
    ASSUME NEW row \in SlotRow
    PROVE  /\ \A a \in Account, ip \in IP : AssignProxySlotAccount(row, a, ip).pin = ip
           /\ ClearProxySlotError(row).pin = row.pin
           /\ MarkProxySlotError(row).pin = row.pin
BY DEF SlotRow, AssignProxySlotAccount, ClearProxySlotError, MarkProxySlotError

LEMMA CurrentExact ==
    ASSUME TypeOK, BindingsExist, NEW w \in Worker, AsRead(w), NEW s \in Slot, Visiting(w, s)
    PROVE  /\ snapSlots[w][s] = slots[s]
           /\ snapAccounts[w] = accounts
           /\ current(w, s) = slots[s].account
           /\ slots[s].account # NoAccount => currentIP(w, s) = Egress(s)
<1>1. snapSlots[w][s] = slots[s] /\ snapAccounts[w] = accounts
  BY DEF AsRead, Visiting, Slot
<1>2. current(w, s) = slots[s].account
  BY <1>1 DEF current, BindingsExist
<1> QED
  BY <1>1, <1>2 DEF currentIP, Egress

Off(w, s) ==
    slots[s].status = "disabled" /\ UNCHANGED <<slots, usedAccount, usedIP>>

Kept(w, s) ==
    /\ slots[s].account # NoAccount
    /\ slots'[s].account = slots[s].account /\ slots'[s].pin = slots[s].pin
    /\ slots[s].account \notin usedAccount[w] /\ Egress(s) \notin usedIP[w]
    /\ Use(w, slots[s].account, Egress(s))

Moved(w, s, a) ==
    /\ slots'[s].account = a /\ slots'[s].pin = accounts[a].ip
    /\ a \notin usedAccount[w] /\ accounts[a].ip \in IP \ usedIP[w]
    /\ Use(w, a, accounts[a].ip)

Unbound(w, s) ==
    /\ slots'[s].account = NoAccount
    /\ slotCandidates(w) = {}
    /\ UNCHANGED <<usedAccount, usedIP>>

\* Why a binding may be given up.
Cause(w, s) ==
    \/ Failing(slots[s])
    \/ accounts[slots[s].account].status # "active"
    \/ slots[s].account \in usedAccount[w]
    \/ Egress(s) \in usedIP[w]

LEMMA UndisturbedVisit ==
    ASSUME TypeOK, BindingsExist, NEW w \in Worker, AsRead(w), NEW s \in Slot, Visit(w, s)
    PROVE  /\ slots'[s].status = slots[s].status
           /\ Off(w, s) \/ Kept(w, s) \/ (\E a \in Account : Moved(w, s, a)) \/ Unbound(w, s)
           /\ Bound(s) /\ slots'[s].account # slots[s].account => Cause(w, s)
<1>1. slots[s] \in SlotRow /\ slots \in [Slot -> SlotRow]
  BY DEF TypeOK
<1>2. Visiting(w, s)
  BY DEF Visit, SkipDisabled, KeepBinding, AssignCandidate, ReleaseConflict, HoldFailing,
         LeaveUnbound, NeedsCandidate
<1>3. /\ snapSlots[w][s] = slots[s]
      /\ snapAccounts[w] = accounts
      /\ current(w, s) = slots[s].account
      /\ slots[s].account # NoAccount => currentIP(w, s) = Egress(s)
  BY <1>2, CurrentExact
<1>4. slots'[s].status = slots[s].status
  BY VisitOutcome
<1>5. NeedsCandidate(w, s) /\ Bound(s) => Cause(w, s)
  BY <1>3 DEF NeedsCandidate, keepCurrentSlotBinding, currentBindingConflicts, Bound, Cause
<1>6. CASE SkipDisabled(w, s)
  BY <1>3, <1>4, <1>6 DEF SkipDisabled, Off
<1>7. CASE KeepBinding(w, s)
  <2>1. slots'[s].account = slots[s].account /\ slots'[s].pin = slots[s].pin
    BY <1>1, <1>7, RowEffects, ColumnEffects DEF KeepBinding
  <2>2. Kept(w, s)
    BY <1>3, <1>7, <2>1 DEF KeepBinding, keepCurrentSlotBinding, currentBindingConflicts, Kept
  <2> QED
    BY <1>4, <2>1, <2>2
<1>8. CASE AssignCandidate(w, s)
  <2>1. PICK a \in nextSlotCandidate(w, s) :
            /\ slots' = [slots EXCEPT ![s] = AssignProxySlotAccount(@, a, accounts[a].ip)]
            /\ Use(w, a, snapAccounts[w][a].ip)
    BY <1>8 DEF AssignCandidate
  <2>2. a \in Account /\ a \in slotCandidates(w) /\ a \notin usedAccount[w]
    BY CandidateType
  <2>3. accounts[a].ip \in IP \ usedIP[w]
    BY <1>3, <2>2 DEF slotCandidates, accountUsable, TypeOK, AccountRow
  <2>4. slots'[s].account = a /\ slots'[s].pin = accounts[a].ip
    BY <1>1, <2>1, <2>2, <2>3, RowEffects, ColumnEffects
  <2>5. Moved(w, s, a)
    BY <1>3, <2>1, <2>2, <2>3, <2>4 DEF Moved
  <2> QED
    BY <1>4, <1>5, <1>8, <2>2, <2>5 DEF AssignCandidate
<1>9. CASE ReleaseConflict(w, s)
  <2>1. slots'[s].account = NoAccount
    BY <1>1, <1>9, RowEffects DEF ReleaseConflict
  <2> QED
    BY <1>4, <1>5, <1>9, <2>1 DEF ReleaseConflict, Unbound
<1>10. CASE HoldFailing(w, s)
  <2>1. slots'[s].account = slots[s].account /\ slots'[s].pin = slots[s].pin
    BY <1>1, <1>10, RowEffects, ColumnEffects DEF HoldFailing
  <2>2. Kept(w, s)
    BY <1>3, <1>10, <2>1 DEF HoldFailing, currentBindingConflicts, Kept
  <2> QED
    BY <1>4, <2>1, <2>2
<1>11. CASE LeaveUnbound(w, s)
  <2>1. slots'[s].account = NoAccount
    BY <1>1, <1>3, <1>11, RowEffects DEF LeaveUnbound
  <2> QED
    BY <1>4, <1>5, <1>11, <2>1 DEF LeaveUnbound, Unbound
<1> QED
  BY <1>6, <1>7, <1>8, <1>9, <1>10, <1>11 DEF Visit

-----------------------------------------------------------------------------
(* A visit keeps what an undisturbed pass knows.                            *)

LEMMA VisitKnowledge ==
    ASSUME TypeOK, BindingsExist, NEW w \in Worker, Separation(w), Knowledge(w),
           NEW s \in Slot, Visit(w, s)
    PROVE  Knowledge(w)'
<1>1. /\ pc[w] = "visit" /\ at[w] = s
      /\ UNCHANGED <<accounts, running, pc, snapSlots, snapAccounts, snapRunning>>
      /\ \A t \in Slot : t # s => slots'[t] = slots[t]
  BY VisitFrame DEF reads, env
<1>2. at'[w] = s + 1
  BY VisitFrame DEF TypeOK
<1>3. AsRead(w) /\ UsedTraced(w) /\ EgressUsed(w) /\ EgressApart(w) /\ NoneLeft(w)
  BY DEF Knowledge
<1>4. /\ slots'[s].status = slots[s].status
      /\ Off(w, s) \/ Kept(w, s) \/ (\E a \in Account : Moved(w, s, a)) \/ Unbound(w, s)
  BY <1>3, UndisturbedVisit
<1>5. /\ \A t \in Slot : t < s + 1 <=> t < s \/ t = s
      /\ \A t \in Slot : t >= s + 1 => t >= s /\ t # s
  BY DEF Slot
\* the slots visited before
<1>6. \A t \in Slot : t # s =>
          /\ Visited(w, t)' <=> Visited(w, t)
          /\ Egress(t)' = Egress(t)
  BY <1>1, <1>2, <1>5 DEF Visited, Bound, Egress
\* the slot visited now
<1>7. Visited(w, s)' =>
          /\ slots'[s].account \notin usedAccount[w] /\ Egress(s)' \notin usedIP[w]
          /\ usedAccount'[w] = usedAccount[w] \cup {slots'[s].account}
          /\ usedIP'[w] = usedIP[w] \cup ({Egress(s)'} \ {NoIP})
  <2> SUFFICES ASSUME Visited(w, s)'
               PROVE  /\ slots'[s].account \notin usedAccount[w] /\ Egress(s)' \notin usedIP[w]
                      /\ usedAccount'[w] = usedAccount[w] \cup {slots'[s].account}
                      /\ usedIP'[w] = usedIP[w] \cup ({Egress(s)'} \ {NoIP})
    OBVIOUS
  <2>1. slots'[s].status = "active" /\ slots'[s].account # NoAccount
    BY DEF Visited, Bound
  <2>2. CASE Kept(w, s)
    <3>1. Egress(s)' = Egress(s)
      BY <1>1, <2>2 DEF Kept, Egress, slotEffectiveIP
    <3> QED
      BY <2>2, <3>1 DEF Kept, Use, TypeOK
  <2>3. ASSUME NEW a \in Account, Moved(w, s, a)
        PROVE  /\ slots'[s].account \notin usedAccount[w] /\ Egress(s)' \notin usedIP[w]
               /\ usedAccount'[w] = usedAccount[w] \cup {slots'[s].account}
               /\ usedIP'[w] = usedIP[w] \cup ({Egress(s)'} \ {NoIP})
    <3>1. Egress(s)' = accounts[a].ip
      BY <1>1, <2>3, StoreAssumption DEF Moved, Egress, slotEffectiveIP
    <3> QED
      BY <2>3, <3>1 DEF Moved, Use, TypeOK
  <2> QED
    BY <1>4, <2>1, <2>2, <2>3 DEF Off, Unbound
<1>8. ~ Visited(w, s)' => UNCHANGED <<usedAccount, usedIP>>
  <2> SUFFICES ASSUME ~ Visited(w, s)'
               PROVE  UNCHANGED <<usedAccount, usedIP>>
    OBVIOUS
  <2>1. slots'[s].status = "disabled" \/ slots'[s].account = NoAccount
    <3>1. slots'[s].status \in {"active", "disabled"}
      BY <1>4 DEF TypeOK, SlotRow
    <3>2. s < at'[w]
      BY <1>2 DEF Slot
    <3> QED
      BY <3>1, <3>2 DEF Visited, Bound
  <2>2. CASE snapSlots[w][s].status = "disabled"
    <3>1. SkipDisabled(w, s)
      BY <2>2 DEF Visit, SkipDisabled, KeepBinding, AssignCandidate, ReleaseConflict, HoldFailing,
                  LeaveUnbound, NeedsCandidate
    <3> QED
      BY <3>1 DEF SkipDisabled
  <2>3. CASE slots'[s].account = NoAccount
    BY <1>4, <2>3, StoreAssumption DEF Off, Kept, Moved, Unbound
  <2> QED
    BY <1>1, <1>3, <1>4, <2>1, <2>2, <2>3 DEF AsRead, Slot
<1>9. usedAccount[w] \subseteq usedAccount'[w] /\ usedIP[w] \subseteq usedIP'[w]
  BY <1>7, <1>8
<1>10. AsRead(w)'
  BY <1>1, <1>2, <1>3, <1>5 DEF AsRead
<1>11. UsedTraced(w)'
  BY <1>1, <1>3, <1>6, <1>7, <1>8 DEF UsedTraced, Visited, Slot
<1>12. EgressUsed(w)'
  BY <1>1, <1>3, <1>6, <1>7, <1>9 DEF EgressUsed
<1>13. EgressApart(w)'
  <2> SUFFICES ASSUME NEW t \in Slot, NEW u \in Slot, t # u, Visited(w, t)', Visited(w, u)',
                      Egress(t)' # NoIP
               PROVE  Egress(t)' # Egress(u)'
    BY DEF EgressApart
  <2>1. CASE t = s
    BY <1>1, <1>3, <1>6, <1>7, <2>1 DEF EgressUsed
  <2>2. CASE u = s
    BY <1>1, <1>3, <1>6, <1>7, <2>2 DEF EgressUsed
  <2>3. CASE t # s /\ u # s
    BY <1>1, <1>3, <1>6, <2>3 DEF EgressApart
  <2> QED
    BY <2>1, <2>2, <2>3
<1>14. NoneLeft(w)'
  <2>1. UNCHANGED blockedAccount(w)
    BY <1>1 DEF blockedAccount
  <2> SUFFICES ASSUME NEW t \in Slot, t < s + 1, slots'[t].status = "active", slots'[t].account = NoAccount,
                      NEW a \in snapRunning[w] \ blockedAccount(w), accountUsable(snapAccounts[w][a])
               PROVE  a \in usedAccount'[w] \/ snapAccounts[w][a].ip \in usedIP'[w]
    BY <1>1, <1>2, <2>1 DEF NoneLeft, Taken
  <2>2. CASE t < s
    <3>1. slots[t].status = "active" /\ slots[t].account = NoAccount /\ t < at[w]
      BY <1>1, <2>2 DEF Slot
    <3>2. Taken(w, a)
      BY <1>1, <1>3, <3>1, Zenon DEF NoneLeft
    <3> QED
      BY <1>9, <3>2 DEF Taken
  <2>3. CASE t = s
    <3>1. Unbound(w, s)
      BY <1>4, <2>3, StoreAssumption DEF Off, Kept, Moved
    <3> QED
      BY <1>9, <3>1 DEF Unbound, slotCandidates
  <2> QED
    BY <1>5, <2>2, <2>3
<1> QED
  BY <1>10, <1>11, <1>12, <1>13, <1>14 DEF Knowledge

\* Steps that leave the pass alone when no other pass may be under way.
LEMMA SoloStep ==
    ASSUME TypeOK, SoloAlone, NEW w \in Worker, solo'[w], [Next]_vars
    PROVE  \/ UNCHANGED vars
           \/ Environment
           \/ pc'[w] \in {"ensure", "slots"}
           \/ /\ solo[w]
              /\ PassStep(w) /\ ~ Begin(w) /\ ~ Leave(w) /\ UNCHANGED history
<1> SUFFICES ASSUME NEW o \in Worker, PassStep(o)
             PROVE  \/ pc'[w] \in {"ensure", "slots"}
                    \/ /\ solo[w]
                       /\ PassStep(w) /\ ~ Begin(w) /\ ~ Leave(w) /\ UNCHANGED history
  BY DEF Next
<1>1. CASE Begin(o)
  BY <1>1 DEF Begin, TypeOK
<1>2. ~ Begin(o) => pc[o] # "idle"
  BY DEF PassStep, EnsureProxySlots, ListProxySlots, ListAccounts, RunningTags, Visit, SkipDisabled,
         KeepBinding, AssignCandidate, ReleaseConflict, HoldFailing, LeaveUnbound, NeedsCandidate,
         Visiting, AssignFails, Return, Finished
<1>3. CASE Leave(o) /\ ~ Begin(o)
  <2>1. o # w /\ solo[w]
    BY <1>3 DEF Leave, TypeOK
  <2> QED
    BY <1>2, <1>3, <2>1 DEF SoloAlone, Others
<1>4. CASE ~ Begin(o) /\ ~ Leave(o)
  <2>1. UNCHANGED history
    <3>1. ASSUME NEW s \in Slot, Visit(o, s)
          PROVE  UNCHANGED history
      BY <3>1, VisitFrame
    <3> QED
      BY <1>4, <3>1
      DEF PassStep, EnsureProxySlots, ListProxySlots, ListAccounts, RunningTags, Return, AssignFails
  <2>2. solo[w] /\ o = w
    BY <1>2, <1>4, <2>1 DEF SoloAlone, Others, history
  <2> QED
    BY <1>4, <2>1, <2>2
<1> QED
  BY <1>1, <1>3, <1>4

LEMMA StepNothingUsed == TypeOK /\ NothingUsed /\ [Next]_vars => NothingUsed'
<1> SUFFICES ASSUME TypeOK, NothingUsed, [Next]_vars
             PROVE  NothingUsed'
  OBVIOUS
<1>1. CASE UNCHANGED <<pc, usedAccount, usedIP>>
  BY <1>1 DEF NothingUsed
<1>2. CASE Environment
  BY <1>1, <1>2
  DEF Environment, Event, InsertAccount, DeleteAccount, UpdateAccountTestResult, UpdateAccountStatus,
      SetTunnels, SaveSlotCount, ProbeSlot, Crash, NothingUsed, loop
<1>3. ASSUME NEW w \in Worker, PassStep(w)
      PROVE  NothingUsed'
  <2>1. CASE \/ Begin(w) \/ EnsureProxySlots(w) \/ ListProxySlots(w) \/ ListAccounts(w)
             \/ RunningTags(w)
    BY <2>1 DEF Begin, EnsureProxySlots, ListProxySlots, ListAccounts, RunningTags, loop,
                NothingUsed, TypeOK
  <2>2. CASE Leave(w)
    BY <2>2 DEF Leave, NothingUsed, TypeOK
  <2>3. ASSUME NEW s \in Slot, Visit(w, s)
        PROVE  NothingUsed'
    <3>1. /\ pc[w] = "visit" /\ UNCHANGED pc
          /\ UNCHANGED <<usedAccount, usedIP>> \/ \E a \in Account, ip \in IP \cup {NoIP} : Use(w, a, ip)
      BY <2>3, VisitFrame
    <3> QED
      BY <3>1 DEF NothingUsed, Use, TypeOK
  <2> QED
    BY <1>3, <2>1, <2>2, <2>3 DEF PassStep, Return, AssignFails
<1> QED
  BY <1>1, <1>2, <1>3 DEF Next, vars, loop

LEMMA StepKnowledge ==
    ASSUME QInv, [Next]_vars, NEW w \in Worker, Undisturbed(w)'
    PROVE  Knowledge(w)'
<1> USE DEF QInv, IInv, Undisturbed
<1>1. CASE pc'[w] \in {"idle", "ensure", "slots"}
  BY <1>1 DEF Knowledge, AsRead, UsedTraced, EgressUsed, EgressApart, NoneLeft
<1>2. CASE UNCHANGED vars
  <2>1. Knowledge(w)
    BY <1>2 DEF vars, history
  <2>2. /\ UNCHANGED <<pc, slots, accounts, running, snapSlots, snapAccounts, snapRunning, at, usedAccount, usedIP>>
        /\ UNCHANGED blockedAccount(w)
        /\ \A s \in Slot : UNCHANGED <<Visited(w, s), Egress(s)>>
    BY <1>2 DEF vars, tables, env, reads, loop, blockedAccount, Visited, Bound, Egress
  <2> QED
    BY <2>1, <2>2 DEF Knowledge, AsRead, UsedTraced, EgressUsed, EgressApart, NoneLeft, Taken
<1>3. CASE Environment
  <2>1. quiet' = [v \in Worker |-> FALSE]
    BY <1>3
    DEF Environment, Event, InsertAccount, DeleteAccount, UpdateAccountTestResult,
        UpdateAccountStatus, SetTunnels, SaveSlotCount, ProbeSlot, Crash
  <2> QED
    BY <2>1
<1>4. CASE solo[w] /\ PassStep(w) /\ ~ Begin(w) /\ ~ Leave(w) /\ UNCHANGED history
  <2>1. Knowledge(w) /\ Separation(w)
    BY <1>4 DEF history
  <2>2. CASE EnsureProxySlots(w)
    BY <1>1, <2>2 DEF EnsureProxySlots, TypeOK
  <2>3. CASE ListProxySlots(w)
    BY <2>3 DEF ListProxySlots, tables, TypeOK, Knowledge, AsRead, UsedTraced, EgressUsed,
                EgressApart, NoneLeft
  <2>4. CASE ListAccounts(w)
    BY <2>1, <2>4 DEF ListAccounts, tables, TypeOK, Knowledge, AsRead, UsedTraced, EgressUsed,
                      EgressApart, NoneLeft
  <2>5. CASE RunningTags(w)
    <3>1. pc[w] = "running" /\ at[w] = 1 /\ usedAccount[w] = {} /\ usedIP[w] = {}
      BY <2>5 DEF RunningTags, BeforeLoop, NothingUsed
    <3>2. /\ pc'[w] = "visit" /\ snapRunning'[w] = running
          /\ UNCHANGED <<running, snapSlots, snapAccounts, slots, accounts, at, usedAccount, usedIP>>
      BY <2>5 DEF RunningTags, TypeOK, tables, loop, env
    <3>3. \A s \in Slot : ~ (s < at'[w])
      BY <3>1, <3>2 DEF Slot
    <3>4. AsRead(w)'
      BY <2>1, <3>1, <3>2 DEF Knowledge, AsRead
    <3> QED
      BY <3>1, <3>2, <3>3, <3>4 DEF Knowledge, UsedTraced, EgressUsed, EgressApart, NoneLeft, Visited
  <2>6. ASSUME NEW s \in Slot, Visit(w, s)
        PROVE  Knowledge(w)'
    BY <2>1, <2>6, VisitKnowledge
  <2> QED
    BY <1>4, <2>2, <2>3, <2>4, <2>5, <2>6 DEF PassStep, Return, AssignFails
<1> QED
  BY <1>1, <1>2, <1>3, <1>4, SoloStep

LEMMA InitKnowledge == Init => QInv
<1> SUFFICES ASSUME Init
             PROVE  QInv
  OBVIOUS
<1>1. IInv
  BY InitInductive
<1>2. NothingUsed /\ \A w \in Worker : ~ Undisturbed(w)
  BY DEF Init, NothingUsed, Undisturbed
<1> QED
  BY <1>1, <1>2 DEF QInv

LEMMA StepQuiet == QInv /\ [Next]_vars => QInv'
<1>1. QInv /\ [Next]_vars => IInv' /\ NothingUsed'
  BY StepInductive, StepNothingUsed DEF QInv, IInv
<1>2. QInv /\ [Next]_vars => \A w \in Worker : Undisturbed(w)' => Knowledge(w)'
  BY StepKnowledge
<1> QED
  BY <1>1, <1>2 DEF QInv

LEMMA QuietInvariant == Spec => []QInv
BY InitKnowledge, StepQuiet, PTL DEF Spec

-----------------------------------------------------------------------------
(* What an undisturbed pass achieves.                                       *)

\* PassSeparatesEgresses for any number of slots, accounts, addresses, workers
\* and events.
THEOREM PassesSeparateEgresses == Spec => []PassSeparatesEgresses
<1>1. QInv => PassSeparatesEgresses
  <2> SUFFICES ASSUME QInv, NEW w \in Worker, Finished(w), solo[w], quiet[w],
                      NEW s \in Slot, NEW t \in Slot, s # t, Bound(s), Bound(t), Egress(s) # NoIP
               PROVE  Egress(s) # Egress(t)
    BY DEF PassSeparatesEgresses, EgressesDistinct
  <2>1. Visited(w, s) /\ Visited(w, t) /\ pc[w] = "visit"
    BY StoreAssumption DEF Finished, Slot, Visited
  <2>2. EgressApart(w)
    BY DEF QInv, Undisturbed, Knowledge
  <2> QED
    BY <2>1, <2>2 DEF EgressApart
<1> QED
  BY <1>1, QuietInvariant, PTL

\* NoneWasted for any number of slots, accounts, addresses, workers and events:
\* every account that an undisturbed pass leaves over while a slot stays unbound
\* is one that a slot holds, or shares its address with one that a slot has.
THEOREM NeverWasted == Spec => []NoneWasted
<1>1. QInv => NoneWasted
  <2> SUFFICES ASSUME QInv, NEW w \in Worker, Finished(w), solo[w], quiet[w],
                      NEW s \in Slot, slots[s].status = "active", slots[s].account = NoAccount,
                      NEW a \in running \ blockedAccount(w), accountUsable(accounts[a])
               PROVE  \E t \in Slot : Bound(t) /\ (slots[t].account = a \/ Egress(t) = accounts[a].ip)
    BY DEF NoneWasted
  <2>1. Knowledge(w) /\ pc[w] = "visit" /\ s < at[w]
    BY StoreAssumption DEF QInv, Undisturbed, Finished, Slot
  <2>2. snapRunning[w] = running /\ snapAccounts[w] = accounts
    BY <2>1 DEF Knowledge, AsRead
  <2>3. Taken(w, a)
    BY <2>1, <2>2 DEF Knowledge, NoneLeft
  <2>4. a \in usedAccount[w] \/ accounts[a].ip \in usedIP[w]
    BY <2>2, <2>3 DEF Taken
  <2> QED
    BY <2>1, <2>4 DEF Knowledge, UsedTraced, Visited
<1> QED
  BY <1>1, QuietInvariant, PTL

\* MovedOnlyForCause for any number of slots, accounts, addresses, workers and
\* events: an undisturbed pass takes no slot off an account without a cause that
\* the tables show.
THEOREM AlwaysMovedForCause == Spec => MovedOnlyForCause
<1> DEFINE Caused ==
        \A w \in Worker, s \in Slot :
          /\ at[w] = s /\ at'[w] = s + 1 /\ solo[w] /\ quiet[w]
          /\ Bound(s) /\ slots'[s].account # slots[s].account
          => \/ Failing(slots[s])
             \/ accounts[slots[s].account].status # "active"
             \/ \E t \in Slot : t < s /\ Bound(t) /\ \/ slots[t].account = slots[s].account
                                                      \/ Egress(t) = Egress(s)
<1>1. QInv /\ [Next]_vars => [Caused]_vars
  <2> SUFFICES ASSUME QInv, Next,
                      NEW w \in Worker, NEW s \in Slot, at[w] = s, at'[w] = s + 1, solo[w], quiet[w],
                      Bound(s), slots'[s].account # slots[s].account
               PROVE  \/ Failing(slots[s])
                      \/ accounts[slots[s].account].status # "active"
                      \/ \E t \in Slot : t < s /\ Bound(t) /\ \/ slots[t].account = slots[s].account
                                                               \/ Egress(t) = Egress(s)
    BY Zenon DEF Caused
  <2>1. /\ TypeOK /\ BindingsExist /\ SoloAlone /\ Knowledge(w)
        /\ s # s + 1 /\ s + 1 # 1
    BY DEF QInv, IInv, Undisturbed, Slot
  <2>2. ~ Environment
    BY <2>1
    DEF Environment, Event, InsertAccount, DeleteAccount, UpdateAccountTestResult,
        UpdateAccountStatus, SetTunnels, SaveSlotCount, ProbeSlot, Crash, loop
  <2>3. PICK o \in Worker : PassStep(o)
    BY <2>2 DEF Next
  <2>4. PICK u \in Slot : Visit(o, u)
    BY <2>1, <2>3 DEF PassStep, Begin, EnsureProxySlots, ListProxySlots, ListAccounts, RunningTags,
                      AssignFails, Return, Leave, loop, TypeOK
  <2>5. at[o] = u /\ at' = [at EXCEPT ![o] = u + 1] /\ pc[o] = "visit"
    BY <2>1, <2>4, VisitFrame
  <2>6. o = w /\ u = s
    BY <2>1, <2>5 DEF TypeOK
  <2>7. Cause(w, s)
    BY <2>1, <2>4, <2>6, UndisturbedVisit DEF Knowledge
  <2> QED
    BY <2>1, <2>5, <2>6, <2>7 DEF Cause, Knowledge, UsedTraced, Visited
<1> QED
  BY <1>1, QuietInvariant, PTL DEF Spec, MovedOnlyForCause
=============================================================================
