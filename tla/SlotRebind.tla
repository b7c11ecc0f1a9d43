----------------------------- MODULE SlotRebind -----------------------------
(***************************************************************************)
(* rebindProxySlots of backend/internal/scheduler/scheduler.go: the pass   *)
(* that gives every active slot an account of its own.  A pass reads the   *)
(* slots, then the accounts, then the running tunnels, and afterwards      *)
(* visits the slots of its snapshot in order, writing one row at a time.   *)
(* Nothing locks the tables meanwhile: every read and every write is a     *)
(* step of its own, and the rest of the program runs between them.         *)
(*                                                                         *)
(* Worker is the set of goroutines that may be inside a pass at once: the  *)
(* job that holds the scheduler's "running" flag, and the ones that do not *)
(* take it (TestOne, a manual GenerateAccounts).                           *)
(***************************************************************************)
EXTENDS SlotStore, FiniteSets

CONSTANTS Worker,    \* goroutines that may run a pass
          MaxEvents  \* bound on the environment's steps

ASSUME EventsAssumption == MaxEvents \in Nat

VARIABLES
    accounts,     \* table warp_accounts
    slots,        \* table proxy_slots
    running,      \* tags of Manager.tunnels
    target,       \* setting proxy_slot_count
    pc,           \* where each worker is in the pass
    snapSlots,    \* the pass's slice of slots
    snapAccounts, \* the pass's byID map
    snapRunning,  \* the pass's running set
    at,           \* the slot the loop visits next
    usedAccount, usedIP, missing,
    solo,         \* history: no other pass overlapped this one
    quiet,        \* history: the environment did nothing since it began
    events        \* environment steps so far

tables  == <<accounts, slots>>
reads   == <<snapSlots, snapAccounts, snapRunning>>
loop    == <<at, usedAccount, usedIP, missing>>
history == <<solo, quiet>>
env     == <<running, target, events>>
vars == <<tables, env, pc, reads, loop, history>>

NoSlots    == [s \in Slot |-> EmptySlot]
NoAccounts == [a \in Account |-> AbsentAccount]

\* The tables as the last run of the program left them; the Reconcile that main
\* starts has brought up some tunnels before the first pass.
Init ==
    /\ accounts \in [Account -> AccountRow]
    /\ slots \in [Slot -> SlotRow]
    /\ \A s \in Slot : /\ slots[s].status = "disabled" => slots[s].account = NoAccount
                       /\ slots[s].account # NoAccount => accounts[slots[s].account].status # "absent"
    /\ running \in SUBSET Account
    /\ target \in Slot
    /\ pc = [w \in Worker |-> "idle"]
    /\ snapSlots = [w \in Worker |-> NoSlots]
    /\ snapAccounts = [w \in Worker |-> NoAccounts]
    /\ snapRunning = [w \in Worker |-> {}]
    /\ at = [w \in Worker |-> 1]
    /\ usedAccount = [w \in Worker |-> {}]
    /\ usedIP = [w \in Worker |-> {}]
    /\ missing = [w \in Worker |-> 0]
    /\ solo = [w \in Worker |-> FALSE]
    /\ quiet = [w \in Worker |-> FALSE]
    /\ events \in 0 .. MaxEvents

-----------------------------------------------------------------------------
(* Entering the pass and taking its snapshots.                              *)

Others(w) == Worker \ {w}

\* healProxySlots runs EnsureProxySlots first; the other callers do not.
Begin(w) ==
    /\ pc[w] = "idle"
    /\ \E first \in {"ensure", "slots"} : pc' = [pc EXCEPT ![w] = first]
    /\ solo' = [v \in Worker |-> v = w /\ \A o \in Others(w) : pc[o] = "idle"]
    /\ quiet' = [quiet EXCEPT ![w] = TRUE]
    /\ UNCHANGED <<tables, env, reads, loop>>

EnsureProxySlots(w) ==
    /\ pc[w] = "ensure"
    /\ slots' = [s \in Slot |-> EnsureProxySlot(slots[s], s, target)]
    /\ pc' = [pc EXCEPT ![w] = "slots"]
    /\ UNCHANGED <<accounts, env, reads, loop, history>>

ListProxySlots(w) ==
    /\ pc[w] = "slots"
    /\ snapSlots' = [snapSlots EXCEPT ![w] = slots]
    /\ pc' = [pc EXCEPT ![w] = "accounts"]
    /\ UNCHANGED <<tables, env, snapAccounts, snapRunning, loop, history>>

ListAccounts(w) ==
    /\ pc[w] = "accounts"
    /\ snapAccounts' = [snapAccounts EXCEPT ![w] = accounts]
    /\ pc' = [pc EXCEPT ![w] = "running"]
    /\ UNCHANGED <<tables, env, snapSlots, snapRunning, loop, history>>

\* Mutant: the running set is never filled in.
RunningTags_Empty(w) ==
    /\ pc[w] = "running"
    /\ pc' = [pc EXCEPT ![w] = "visit"]
    /\ UNCHANGED <<tables, env, reads, loop, history>>

RunningTags(w) ==
    /\ pc[w] = "running"
    /\ snapRunning' = [snapRunning EXCEPT ![w] = running]
    /\ pc' = [pc EXCEPT ![w] = "visit"]
    /\ UNCHANGED <<tables, env, snapSlots, snapAccounts, loop, history>>

-----------------------------------------------------------------------------
(* What the loop body computes from the snapshots.                          *)

\* byID[*slot.AccountID], nil when the slot is unbound or the account is gone
current(w, s) ==
    LET a == snapSlots[w][s].account
    IN  IF a # NoAccount /\ snapAccounts[w][a].status # "absent" THEN a ELSE NoAccount

currentIP(w, s) == slotEffectiveIP(snapSlots[w][s], current(w, s), snapAccounts[w])

\* Mutant: only addresses are compared.
currentBindingConflicts_IPOnly(w, s) ==
    current(w, s) # NoAccount /\ currentIP(w, s) \in usedIP[w]

currentBindingConflicts(w, s) ==
    /\ current(w, s) # NoAccount
    /\ \/ current(w, s) \in usedAccount[w]
       \/ currentIP(w, s) \in usedIP[w]

\* Mutant: a binding has to pass the test that candidates pass.
keepCurrentSlotBinding_Usable(w, s) ==
    /\ current(w, s) # NoAccount
    /\ accountUsable(snapAccounts[w][current(w, s)])
    /\ ~ Failing(snapSlots[w][s])
    /\ ~ currentBindingConflicts(w, s)

keepCurrentSlotBinding(w, s) ==
    /\ current(w, s) # NoAccount
    /\ snapAccounts[w][current(w, s)].status = "active"
    /\ ~ Failing(snapSlots[w][s])
    /\ ~ currentBindingConflicts(w, s)

\* Accounts that a failing slot is bound to are no candidates in this pass.
blockedAccount(w) ==
    {a \in Account : \E s \in Slot : snapSlots[w][s].account = a /\ Failing(snapSlots[w][s])}

\* slotCandidateAvailable over the ranked, unblocked candidates
slotCandidates(w) ==
    {a \in snapRunning[w] \ (blockedAccount(w) \cup usedAccount[w]) :
        accountUsable(snapAccounts[w][a]) /\ snapAccounts[w][a].ip \notin usedIP[w]}

\* nextSlotCandidate: one that keeps the pinned address if there is one.  The
\* order of the ranking is left open.
nextSlotCandidate(w, s) ==
    LET samePin == {a \in slotCandidates(w) : snapAccounts[w][a].ip = snapSlots[w][s].pin}
    IN  IF samePin # {} THEN samePin ELSE slotCandidates(w)

\* Mutant: the address is not remembered.
Use_AccountOnly(w, a, ip) ==
    /\ usedAccount' = [usedAccount EXCEPT ![w] = @ \cup {a}]
    /\ UNCHANGED usedIP

Use(w, a, ip) ==
    /\ usedAccount' = [usedAccount EXCEPT ![w] = @ \cup {a}]
    /\ usedIP' = [usedIP EXCEPT ![w] = @ \cup ({ip} \ {NoIP})]

-----------------------------------------------------------------------------
(* One iteration of the loop, by the branch it takes.                       *)

Visiting(w, s) ==
    /\ pc[w] = "visit"
    /\ at[w] = s
    /\ s \in Slot

Advance(w) ==
    /\ at' = [at EXCEPT ![w] = @ + 1]
    /\ UNCHANGED <<accounts, env, pc, reads, history>>

SkipDisabled(w, s) ==
    /\ Visiting(w, s)
    /\ snapSlots[w][s].status = "disabled"
    /\ UNCHANGED <<slots, usedAccount, usedIP, missing>>
    /\ Advance(w)

KeepBinding(w, s) ==
    /\ Visiting(w, s)
    /\ snapSlots[w][s].status = "active"
    /\ keepCurrentSlotBinding(w, s)
    /\ slots' = IF snapSlots[w][s].err /\ snapSlots[w][s].probe = 0 /\ snapSlots[w][s].drift = 0
                THEN [slots EXCEPT ![s] = ClearProxySlotError(@)]
                ELSE slots
    /\ Use(w, current(w, s), currentIP(w, s))
    /\ UNCHANGED missing
    /\ Advance(w)

NeedsCandidate(w, s) ==
    /\ Visiting(w, s)
    /\ snapSlots[w][s].status = "active"
    /\ ~ keepCurrentSlotBinding(w, s)

\* The new row takes its pin from the account table as it is now.
AssignCandidate(w, s) ==
    /\ NeedsCandidate(w, s)
    /\ \E a \in nextSlotCandidate(w, s) :
          /\ accounts[a].status # "absent"
          /\ slots' = [slots EXCEPT ![s] = AssignProxySlotAccount(@, a, accounts[a].ip)]
          /\ Use(w, a, snapAccounts[w][a].ip)
    /\ UNCHANGED missing
    /\ Advance(w)

\* No candidate, and an earlier slot holds this account or address.
ReleaseConflict(w, s) ==
    /\ NeedsCandidate(w, s)
    /\ slotCandidates(w) = {}
    /\ currentBindingConflicts(w, s)
    /\ slots' = [slots EXCEPT ![s] = UnassignProxySlot(@)]
    /\ missing' = [missing EXCEPT ![w] = @ + 1]
    /\ UNCHANGED <<usedAccount, usedIP>>
    /\ Advance(w)

\* No candidate: the failing binding is better than none.
HoldFailing(w, s) ==
    /\ NeedsCandidate(w, s)
    /\ slotCandidates(w) = {}
    /\ current(w, s) # NoAccount
    /\ ~ currentBindingConflicts(w, s)
    /\ slots' = IF snapSlots[w][s].err THEN slots
                ELSE [slots EXCEPT ![s] = MarkProxySlotError(@)]
    /\ Use(w, current(w, s), currentIP(w, s))
    /\ missing' = [missing EXCEPT ![w] = @ + 1]
    /\ Advance(w)

LeaveUnbound(w, s) ==
    /\ NeedsCandidate(w, s)
    /\ slotCandidates(w) = {}
    /\ current(w, s) = NoAccount
    /\ slots' = [slots EXCEPT ![s] = MarkProxySlotError(@)]
    /\ missing' = [missing EXCEPT ![w] = @ + 1]
    /\ UNCHANGED <<usedAccount, usedIP>>
    /\ Advance(w)

Visit(w, s) ==
    \/ SkipDisabled(w, s)
    \/ KeepBinding(w, s)
    \/ AssignCandidate(w, s)
    \/ ReleaseConflict(w, s)
    \/ HoldFailing(w, s)
    \/ LeaveUnbound(w, s)

-----------------------------------------------------------------------------
(* Leaving the pass.                                                        *)

Leave(w) ==
    /\ pc' = [pc EXCEPT ![w] = "idle"]
    /\ snapSlots' = [snapSlots EXCEPT ![w] = NoSlots]
    /\ snapAccounts' = [snapAccounts EXCEPT ![w] = NoAccounts]
    /\ snapRunning' = [snapRunning EXCEPT ![w] = {}]
    /\ at' = [at EXCEPT ![w] = 1]
    /\ usedAccount' = [usedAccount EXCEPT ![w] = {}]
    /\ usedIP' = [usedIP EXCEPT ![w] = {}]
    /\ missing' = [missing EXCEPT ![w] = 0]
    /\ solo' = [solo EXCEPT ![w] = FALSE]
    /\ quiet' = [quiet EXCEPT ![w] = FALSE]

Finished(w) == pc[w] = "visit" /\ at[w] = SlotCount + 1

Return(w) ==
    /\ Finished(w)
    /\ Leave(w)
    /\ UNCHANGED <<tables, env>>

\* AssignProxySlotAccount fails its foreign key: the candidate was deleted
\* after the snapshot.  The pass returns at once, later slots unvisited.
AssignFails(w, s) ==
    /\ NeedsCandidate(w, s)
    /\ \E a \in nextSlotCandidate(w, s) : accounts[a].status = "absent"
    /\ Leave(w)
    /\ UNCHANGED <<tables, env>>
-----------------------------------------------------------------------------
(* The rest of the program, one step of which may fall anywhere in a pass.  *)

Event ==
    /\ events < MaxEvents
    /\ events' = events + 1
    /\ quiet' = [w \in Worker |-> FALSE]
    /\ UNCHANGED <<pc, reads, loop, solo>>

\* InsertAccount, from GenerateAccounts
InsertAccount(a) ==
    /\ Event
    /\ accounts[a].status = "absent"
    /\ accounts' = [accounts EXCEPT ![a] = NewAccount]
    /\ UNCHANGED <<slots, running, target>>

\* DeleteAccount, from the panel, TestOne and the pruning jobs: one transaction
DeleteAccount(a) ==
    /\ Event
    /\ accounts[a].status # "absent"
    /\ accounts' = [accounts EXCEPT ![a] = AbsentAccount]
    /\ slots' = FreeSlotsOf(a, slots)
    /\ UNCHANGED <<running, target>>

\* UpdateAccountTestResult and UpdateAccountRealtimeProbe: any measurement
UpdateAccountTestResult(a) ==
    /\ Event
    /\ accounts[a].status # "absent"
    /\ \E ip \in IP \cup {NoIP}, good \in BOOLEAN :
          accounts' = [accounts EXCEPT ![a] = [@ EXCEPT !.ip = ip, !.good = good]]
    /\ UNCHANGED <<slots, running, target>>

\* UpdateAccountStatus from the panel, or the third test error in a row
UpdateAccountStatus(a) ==
    /\ Event
    /\ accounts[a].status # "absent"
    /\ \E status \in {"active", "disabled", "error"} :
          accounts' = [accounts EXCEPT ![a] = [@ EXCEPT !.status = status]]
    /\ UNCHANGED <<slots, running, target>>

\* Manager.Reconcile, HealthCheck and StopTunnel
SetTunnels ==
    /\ Event
    /\ running' \in SUBSET Account
    /\ UNCHANGED <<tables, target>>

\* The settings page changes proxy_slot_count.
SaveSlotCount ==
    /\ Event
    /\ target' \in Slot
    /\ UNCHANGED <<tables, running>>

\* probeProxySlots records what it saw of a bound slot.
ProbeSlot(s) ==
    /\ Event
    /\ \/ slots' = [slots EXCEPT ![s] = MarkProxySlotProbeFailure(@)]
       \/ slots' = [slots EXCEPT ![s] = MarkProxySlotIPDrift(@)]
       \/ slots' = [slots EXCEPT ![s] = ClearProxySlotError(@)]
       \/ \E ip \in IP : slots' = [slots EXCEPT ![s] = SetProxySlotPinnedIP(@, ip)]
    /\ UNCHANGED <<accounts, running, target>>

\* The process dies and starts again: only the tables survive.
Crash ==
    /\ events < MaxEvents
    /\ events' = events + 1
    /\ running' = {}
    /\ pc' = [w \in Worker |-> "idle"]
    /\ snapSlots' = [w \in Worker |-> NoSlots]
    /\ snapAccounts' = [w \in Worker |-> NoAccounts]
    /\ snapRunning' = [w \in Worker |-> {}]
    /\ at' = [w \in Worker |-> 1]
    /\ usedAccount' = [w \in Worker |-> {}]
    /\ usedIP' = [w \in Worker |-> {}]
    /\ missing' = [w \in Worker |-> 0]
    /\ solo' = [w \in Worker |-> FALSE]
    /\ quiet' = [w \in Worker |-> FALSE]
    /\ UNCHANGED <<tables, target>>

-----------------------------------------------------------------------------
PassStep(w) ==
    \/ Begin(w)
    \/ EnsureProxySlots(w)
    \/ ListProxySlots(w)
    \/ ListAccounts(w)
    \/ RunningTags(w)
    \/ \E s \in Slot : Visit(w, s) \/ AssignFails(w, s)
    \/ Return(w)

Environment ==
    \/ \E a \in Account : \/ InsertAccount(a)
                          \/ DeleteAccount(a)
                          \/ UpdateAccountTestResult(a)
                          \/ UpdateAccountStatus(a)
    \/ SetTunnels
    \/ SaveSlotCount
    \/ \E s \in Slot : ProbeSlot(s)
    \/ Crash

Next == (\E w \in Worker : PassStep(w)) \/ Environment

Spec == Init /\ [][Next]_vars

\* The tickers of Run start pass after pass, and a pass waits for nothing but
\* its database calls.
FairSpec == Spec /\ \A w \in Worker : WF_vars(PassStep(w))

-----------------------------------------------------------------------------
(* What a pass promises.                                                    *)

TypeOK ==
    /\ accounts \in [Account -> AccountRow]
    /\ slots \in [Slot -> SlotRow]
    /\ running \in SUBSET Account
    /\ target \in Slot
    /\ pc \in [Worker -> {"idle", "ensure", "slots", "accounts", "running", "visit"}]
    /\ snapSlots \in [Worker -> [Slot -> SlotRow]]
    /\ snapAccounts \in [Worker -> [Account -> AccountRow]]
    /\ snapRunning \in [Worker -> SUBSET Account]
    /\ at \in [Worker -> 1..(SlotCount + 1)]
    /\ usedAccount \in [Worker -> SUBSET Account]
    /\ usedIP \in [Worker -> SUBSET IP]
    /\ missing \in [Worker -> Nat]
    /\ solo \in [Worker -> BOOLEAN]
    /\ quiet \in [Worker -> BOOLEAN]
    /\ events \in Nat

Bound(s) == slots[s].status = "active" /\ slots[s].account # NoAccount

Egress(s) == slotEffectiveIP(slots[s], slots[s].account, accounts)

AccountsDistinct ==
    \A s, t \in Slot : s # t /\ Bound(s) /\ Bound(t) => slots[s].account # slots[t].account

EgressesDistinct ==
    \A s, t \in Slot :
        s # t /\ Bound(s) /\ Bound(t) /\ Egress(s) # NoIP => Egress(s) # Egress(t)

\* No slot points at a deleted account, whatever runs concurrently: a pass that
\* read the account before DeleteAccount cannot bind it afterwards.
BindingsExist ==
    \A s \in Slot : slots[s].account # NoAccount => accounts[slots[s].account].status # "absent"

\* Whatever duplicates a crash or an overlap left behind, and whatever tests,
\* deletions, tunnel restarts and probes run meanwhile, a pass that no other
\* pass overlaps ends with every active slot on an account of its own.
PassSeparatesAccounts ==
    \A w \in Worker : Finished(w) /\ solo[w] => AccountsDistinct

\* If moreover nothing was measured meanwhile, the slots' egress addresses are
\* pairwise different too ("unique WARP" in the slot's own error message).
PassSeparatesEgresses ==
    \A w \in Worker : Finished(w) /\ solo[w] /\ quiet[w] => EgressesDistinct

\* A pass leaves no slot unbound while a healthy, running account with an
\* address of its own is free: stealing, releasing and holding never waste one.
NoneWasted ==
    \A w \in Worker : Finished(w) /\ solo[w] /\ quiet[w] =>
        \A s \in Slot : slots[s].status = "active" /\ slots[s].account = NoAccount =>
            \A a \in running \ blockedAccount(w) :
                accountUsable(accounts[a]) =>
                    \E t \in Slot : Bound(t) /\ (slots[t].account = a \/ Egress(t) = accounts[a].ip)

\* An undisturbed pass takes a slot off its account only when the slot's
\* counters are at a threshold, the account is no longer active, or an earlier
\* slot now holds the same account or address in the table.
MovedOnlyForCause ==
    [][\A w \in Worker, s \in Slot :
          /\ at[w] = s /\ at'[w] = s + 1 /\ solo[w] /\ quiet[w]
          /\ Bound(s) /\ slots'[s].account # slots[s].account
          => \/ Failing(slots[s])
             \/ accounts[slots[s].account].status # "active"
             \/ \E t \in Slot : t < s /\ Bound(t) /\ \/ slots[t].account = slots[s].account
                                                      \/ Egress(t) = Egress(s)]_vars

\* README.md:13: a slot keeps its egress and is rebound only after repeated
\* failures or drift.  (An account being disabled or deleted, and the slot
\* being switched off, are the operator's doing and excepted.)
RebindsOnlyFailing ==
    [][\A s \in Slot :
          /\ Bound(s) /\ ~ Failing(slots[s]) /\ slots'[s].status = "active"
          /\ accounts[slots[s].account].status = "active"
          /\ accounts'[slots[s].account].status = "active"
          => slots'[s].account = slots[s].account]_vars

\* Passes repair what a crash or an overlap left: once they no longer overlap,
\* no two slots share an account again, not even while a pass is under way.
OverlapsOver == \A w \in Worker : pc[w] # "idle" => solo[w] /\ \A o \in Others(w) : pc[o] = "idle"

SeparationRepaired == <>[]OverlapsOver => <>[]AccountsDistinct
=============================================================================
