---------------------------- MODULE AccountCare ----------------------------
(***************************************************************************)
(* Who judges accounts, and who deletes them: the slot probe, the test and *)
(* deduplication jobs, and the test of one account that the panel starts   *)
(* (probeProxySlots, runTest, runDedup, TestOne of                         *)
(* backend/internal/scheduler/scheduler.go).  The first three hold the     *)
(* running flag and are one actor here; TestOne asks for no flag and runs  *)
(* beside them.                                                            *)
(*                                                                         *)
(* An actor works off its plan, a sequence of phases.  A phase reads what  *)
(* it needs in one step and acts on it in the next, slot by slot where it  *)
(* visits slots, whatever may have changed since.  SlotRebind has the      *)
(* rebinding pass with its own snapshots; here each slot is visited on the *)
(* tables as they are.  Measuring takes the world as it is, which moves:   *)
(* tunnels fail and recover, addresses and qualities change.               *)
(***************************************************************************)
EXTENDS SlotStore, Sequences

CONSTANTS ErrorsToFail, \* test errors in a row that put an account in error
          MaxEvents,    \* moves of the world, accounts the panel deletes, and
                        \* readings that fail
          MaxTests      \* tests that the panel asks for: bounds of the model

ASSUME CareAssumption ==
    /\ ErrorsToFail \in Nat \ {0}
    /\ MaxEvents \in Nat
    /\ MaxTests \in Nat

Actor == {"job", "one"}

Probing == <<"rebind", "probe", "rebind">>
Healing == <<"rebind", "register", "test", "keep", "rebind">>
Testing == <<"test", "judge", "keep">> \o Healing
Dedup   == <<"prune">> \o Testing
Single  == <<"single">> \o Healing

VARIABLES
    accounts, slots, running,  \* as in SlotRebind
    isKeeper,  \* the accounts with is_ip_keeper
    errors,    \* test errors of each account in a row
    world,     \* what a test of each account would see
    plan,      \* the phases each actor still has to do; the first is under way
    ready,     \* the phase under way has read what it needs
    todo,      \* the slots it still has to visit
    batch,     \* the accounts it is about
    results,   \* what it has measured
    bound,     \* boundAccountIDs, as it was read
    snap,      \* the slots, as the probe or the pass has read them
    missing,   \* slots without an account, or failures of the probe
    before,    \* the slots when the actor began, as long as nothing else has
               \* moved since then and all readings have succeeded
    events,    \* moves of the world, deletions and failures so far
    tests      \* tests asked for so far

tables == <<accounts, slots, running, isKeeper, errors>>
locals == <<todo, batch, results, bound, snap, missing>>
vars == <<tables, world, plan, ready, locals, before, events, tests>>

Seen == [up : BOOLEAN, ip : IP, good : BOOLEAN]

NoResult == [k |-> "none", ip |-> NoIP, good |-> FALSE]
NoResults == [a \in Account |-> NoResult]

Active == {a \in Account : accounts[a].status = "active"}

\* A running pool: the active accounts are tested and up, and nobody is at
\* work.
Pool(active) ==
    /\ world \in [Account -> [up : {TRUE}, ip : IP, good : {TRUE}]]
    /\ accounts = [a \in Account |-> [status |-> IF a \in active THEN "active" ELSE "disabled",
                                      ip |-> world[a].ip, good |-> TRUE]]
    /\ running = active
    /\ isKeeper = {}
    /\ errors = [a \in Account |-> 0]
    /\ plan = [c \in Actor |-> <<>>]
    /\ ready = [c \in Actor |-> FALSE]
    /\ todo = [c \in Actor |-> {}]
    /\ batch = [c \in Actor |-> {}]
    /\ results = [c \in Actor |-> NoResults]
    /\ bound = [c \in Actor |-> {}]
    /\ snap = [c \in Actor |-> <<>>]
    /\ missing = [c \in Actor |-> 0]
    /\ before = [c \in Actor |-> <<>>]

BoundSlot(a) == [EmptySlot EXCEPT !.status = "active", !.account = a, !.pin = world[a].ip]

\* Each slot that is in use has an active account with an address of its own.
Init ==
    /\ \E active \in SUBSET Account :
          /\ Pool(active)
          /\ slots \in [Slot -> {EmptySlot} \cup {BoundSlot(a) : a \in active}]
    /\ \A s, t \in Slot : s # t /\ slots[s].pin # NoIP => slots[s].pin # slots[t].pin
    /\ events = 0
    /\ tests \in 0 .. MaxTests

-----------------------------------------------------------------------------
(* Plans.                                                                   *)

Calm(c) == before[c] # <<>>

\* Every step of an actor is noticed by the other.
Moves(c) == before' = [d \in Actor |-> IF d = c THEN before[c] ELSE <<>>]

Noticed == before' = [d \in Actor |-> <<>>]

Begins(c, phase) == plan[c] # <<>> /\ Head(plan[c]) = phase /\ ~ready[c]

Acts(c, phase) == plan[c] # <<>> /\ Head(plan[c]) = phase /\ ready[c]

Reads(c) == ready' = [ready EXCEPT ![c] = TRUE] /\ UNCHANGED plan

Over(c) == ready' = [ready EXCEPT ![c] = FALSE] /\ plan' = [plan EXCEPT ![c] = Tail(@)]

Stops(c) == ready' = [ready EXCEPT ![c] = FALSE] /\ plan' = [plan EXCEPT ![c] = <<>>]

Start(c, p) ==
    /\ plan[c] = <<>>
    /\ plan' = [plan EXCEPT ![c] = p]
    /\ before' = [d \in Actor |->
                    IF d = c /\ \A e \in Actor \ {c} : plan[e] = <<>> THEN slots ELSE <<>>]
    /\ UNCHANGED <<tables, world, ready, locals>>

\* boundAccountIDs: empty when the slots cannot be read.
ReadBound(c) ==
    \/ /\ bound' = [bound EXCEPT ![c] = {slots[s].account : s \in {t \in Slot : slots[t].status = "active"}}
                                        \ {NoAccount}]
       /\ Moves(c)
       /\ UNCHANGED events
    \/ /\ events < MaxEvents
       /\ events' = events + 1
       /\ bound' = [bound EXCEPT ![c] = {}]
       /\ Noticed

\* DeleteAccount: its tunnel stops at the next reconcile.
Deleted(gone) ==
    /\ accounts' = [a \in Account |-> IF a \in gone THEN AbsentAccount ELSE accounts[a]]
    /\ slots' = [s \in Slot |-> IF slots[s].account \in gone THEN UnassignProxySlot(slots[s]) ELSE slots[s]]
    /\ isKeeper' = isKeeper \ gone
    /\ errors' = [a \in Account |-> IF a \in gone THEN 0 ELSE errors[a]]

-----------------------------------------------------------------------------
(* The phases of tests.                                                     *)

\* TestAccount, through the account's own tunnel.
measured(a, tunnels) ==
    IF world[a].up /\ a \in tunnels
    THEN [k |-> "ok", ip |-> world[a].ip, good |-> world[a].good]
    ELSE [k |-> "error", ip |-> NoIP, good |-> FALSE]

\* reconcileManager, ListActiveAccounts and RunBatch.
Measure(c) ==
    /\ Begins(c, "test")
    /\ running' = Active
    /\ batch' = [batch EXCEPT ![c] = Active]
    /\ results' = [results EXCEPT ![c] = [a \in Account |-> IF a \in Active THEN measured(a, Active) ELSE NoResult]]
    /\ Reads(c)
    /\ Moves(c)
    /\ UNCHANGED <<accounts, slots, isKeeper, errors, world, todo, bound, snap, missing, events, tests>>

\* UpdateAccountTestResult or UpdateAccountTestError on the rows of the
\* accounts that are still there.
Saved(here, res) ==
    /\ errors' = [a \in Account |->
                    IF a \notin here THEN errors[a]
                    ELSE IF res[a].k = "ok" THEN 0
                    ELSE IF errors[a] < ErrorsToFail THEN errors[a] + 1 ELSE errors[a]]
    /\ accounts' = [a \in Account |->
                    IF a \notin here THEN accounts[a]
                    ELSE IF res[a].k = "ok" THEN [accounts[a] EXCEPT !.ip = res[a].ip, !.good = res[a].good]
                    ELSE IF errors'[a] = ErrorsToFail THEN [accounts[a] EXCEPT !.status = "error"]
                    ELSE accounts[a]]

There == {a \in Account : accounts[a].status # "absent"}

SaveResults(c) ==
    /\ Acts(c, "test")
    /\ Saved(batch[c] \cap There, results[c])
    /\ Over(c)
    /\ Moves(c)
    /\ UNCHANGED <<slots, running, isKeeper, world, locals, events, tests>>

\* TestOne: reconcile, and one test.
TestAccount(c) ==
    /\ Begins(c, "single")
    /\ running' = Active
    /\ \E a \in There :
          /\ batch' = [batch EXCEPT ![c] = {a}]
          /\ results' = [results EXCEPT ![c][a] = measured(a, Active)]
    /\ Reads(c)
    /\ Moves(c)
    /\ UNCHANGED <<accounts, slots, isKeeper, errors, world, todo, bound, snap, missing, events, tests>>

\* The verdict of TestOne spares nobody.
Verdict(c) ==
    /\ Acts(c, "single")
    /\ \E a \in batch[c] :
          LET r == results[c][a]
              fails == accounts[a].status = "error" \/ errors[a] + 1 >= ErrorsToFail
          IN IF a \in There /\ (IF r.k = "ok" THEN ~r.good ELSE fails)
             THEN Deleted({a})
             ELSE Saved({a} \cap There, results[c]) /\ UNCHANGED <<slots, isKeeper>>
    /\ batch' = [batch EXCEPT ![c] = {}]
    /\ results' = [results EXCEPT ![c] = NoResults]
    /\ Over(c)
    /\ Moves(c)
    /\ UNCHANGED <<running, world, todo, bound, snap, missing, events, tests>>

-----------------------------------------------------------------------------
(* The phases that delete.                                                  *)

\* pruneStoredBadAccounts: its list; accounts without a test may have waited
\* long enough.
ListStoredBad(c) ==
    /\ Begins(c, "prune")
    /\ ReadBound(c)
    /\ \E untested \in SUBSET {a \in Active : accounts[a].ip = NoIP} :
          LET bad == {a \in Account : \/ accounts[a].status = "error"
                                      \/ a \in Active /\ accounts[a].ip # NoIP /\ ~accounts[a].good}
          IN batch' = [batch EXCEPT ![c] = bad \cup untested]
    /\ Reads(c)
    /\ UNCHANGED <<tables, world, todo, results, snap, missing, tests>>

PruneStored(c) ==
    /\ Acts(c, "prune")
    /\ Deleted(batch[c] \ bound[c])
    /\ bound' = [bound EXCEPT ![c] = {}]
    /\ batch' = [batch EXCEPT ![c] = {}]
    /\ Over(c)
    /\ Moves(c)
    /\ UNCHANGED <<running, world, todo, results, snap, missing, events, tests>>

ListBound(c) ==
    /\ Begins(c, "judge")
    /\ ReadBound(c)
    /\ Reads(c)
    /\ UNCHANGED <<tables, world, todo, batch, results, snap, missing, tests>>

\* Mutant: bound accounts are judged too.
judged_Bound(c) ==
    {a \in batch[c] : IF results[c][a].k = "ok" THEN ~results[c][a].good ELSE accounts[a].status = "error"}

\* pruneTestResults: an error counts only if it was one too many.
judged(c) ==
    {a \in batch[c] \ bound[c] : IF results[c][a].k = "ok" THEN ~results[c][a].good ELSE accounts[a].status = "error"}

Judge(c) ==
    /\ Acts(c, "judge")
    /\ Deleted(judged(c))
    /\ bound' = [bound EXCEPT ![c] = {}]
    /\ Over(c)
    /\ Moves(c)
    /\ UNCHANGED <<running, world, todo, batch, results, snap, missing, events, tests>>

\* applyDedup: the tested accounts that are still there.
ReadTested(c) ==
    /\ Begins(c, "keep")
    /\ ReadBound(c)
    /\ batch' = [batch EXCEPT ![c] = {a \in @ \cap There : results[c][a].k = "ok"}]
    /\ Reads(c)
    /\ UNCHANGED <<tables, world, todo, results, snap, missing, tests>>

\* They are grouped by the address that the test has found, whatever their rows
\* say by now.
group(c, ip) == {a \in batch[c] : results[c][a].ip = ip}

Found(c) == {ip \in IP : group(c, ip) # {}}

\* betterIPKeeper: bound accounts first; the score may prefer any.
best(c, ip) ==
    IF group(c, ip) \cap bound[c] # {} THEN group(c, ip) \cap bound[c] ELSE group(c, ip)

\* Mutant: the mark of the former keeper stays.
SetIPKeepers_Adds(keeperOf) == isKeeper \cup {keeperOf[ip] : ip \in DOMAIN keeperOf}

\* SetIPKeeper and ClearIPKeeperExcept, for every address found: the mark goes
\* by the address in the row.
SetIPKeepers(keeperOf) ==
    {a \in There : IF accounts[a].ip \in DOMAIN keeperOf THEN keeperOf[accounts[a].ip] = a ELSE a \in isKeeper}

\* One keeper for each address; its other accounts are deleted unless bound.
Keep(c) ==
    /\ Acts(c, "keep")
    /\ \E keeperOf \in [Found(c) -> batch[c]] :
          /\ \A ip \in Found(c) : keeperOf[ip] \in best(c, ip)
          /\ LET gone == batch[c] \ (bound[c] \cup {keeperOf[ip] : ip \in Found(c)}) IN
             /\ accounts' = [a \in Account |-> IF a \in gone THEN AbsentAccount ELSE accounts[a]]
             /\ slots' = [s \in Slot |-> IF slots[s].account \in gone THEN UnassignProxySlot(slots[s]) ELSE slots[s]]
             /\ errors' = [a \in Account |-> IF a \in gone THEN 0 ELSE errors[a]]
             /\ isKeeper' = SetIPKeepers(keeperOf) \ gone
    /\ bound' = [bound EXCEPT ![c] = {}]
    /\ batch' = [batch EXCEPT ![c] = {}]
    /\ results' = [results EXCEPT ![c] = NoResults]
    /\ Over(c)
    /\ Moves(c)
    /\ UNCHANGED <<running, world, todo, snap, missing, events, tests>>

-----------------------------------------------------------------------------
(* The probe of the slots.                                                  *)

ReadSlots(c) ==
    /\ Begins(c, "probe")
    /\ snap' = [snap EXCEPT ![c] = slots]
    /\ missing' = [missing EXCEPT ![c] = 0]
    /\ todo' = [todo EXCEPT ![c] = {s \in Slot : slots[s].status = "active" /\ slots[s].account \in Active}]
    /\ Reads(c)
    /\ Moves(c)
    /\ UNCHANGED <<tables, world, batch, results, bound, events, tests>>

\* Mutant: a failure starts the count again.
probed_Resets(s, row, seen) ==
    IF seen.k = "ok" /\ row.pin \notin {NoIP, seen.ip} THEN MarkProxySlotIPDrift(slots[s])
    ELSE ClearProxySlotError(slots[s])

\* What the probe that read row, and saw seen, writes to the slot: the row may
\* have been bound to another account meanwhile.
probed(s, row, seen) ==
    LET pinned == SetProxySlotPinnedIP(slots[s], seen.ip) IN
    CASE seen.k = "error" -> MarkProxySlotProbeFailure(slots[s])
      [] seen.k = "ok" /\ row.pin = NoIP -> IF row.err THEN ClearProxySlotError(pinned) ELSE pinned
      [] seen.k = "ok" /\ row.pin \notin {NoIP, seen.ip} -> MarkProxySlotIPDrift(slots[s])
      [] OTHER -> IF row.err THEN ClearProxySlotError(slots[s]) ELSE slots[s]

\* The verdict on one slot: its row, and unless the address was refused the
\* account's.  A tunnel that drifted is stopped.
Probe(c, s) ==
    /\ Acts(c, "probe") /\ s \in todo[c]
    /\ LET row == snap[c][s]
           seen == measured(row.account, running)
           drifts == seen.k = "ok" /\ row.pin \notin {NoIP, seen.ip}
       IN /\ slots' = [slots EXCEPT ![s] = probed(s, row, seen)]
          /\ missing' = [missing EXCEPT ![c] = IF seen.k = "error" \/ drifts THEN @ + 1 ELSE @]
          /\ running' = IF drifts THEN running \ {row.account} ELSE running
          /\ batch' = [batch EXCEPT ![c] = IF drifts THEN @ \cup {row.account} ELSE @]
          /\ accounts' = IF seen.k = "ok" /\ ~drifts /\ row.account \in There
                         THEN [accounts EXCEPT ![row.account].ip = seen.ip]
                         ELSE accounts
    /\ todo' = [todo EXCEPT ![c] = @ \ {s}]
    /\ Moves(c)
    /\ UNCHANGED <<isKeeper, errors, world, plan, ready, results, bound, snap, events, tests>>

\* All slots are probed: tunnels that were stopped start again, and a pass
\* follows only if something failed.
Probed(c) ==
    /\ Acts(c, "probe") /\ todo[c] = {}
    /\ running' = IF batch[c] # {} THEN Active ELSE running
    /\ batch' = [batch EXCEPT ![c] = {}]
    /\ snap' = [snap EXCEPT ![c] = <<>>]
    /\ missing' = [missing EXCEPT ![c] = 0]
    /\ IF missing[c] = 0 THEN Stops(c) ELSE Over(c)
    /\ Moves(c)
    /\ UNCHANGED <<accounts, slots, isKeeper, errors, world, todo, results, bound, events, tests>>

-----------------------------------------------------------------------------
(* The phases that bind and register.                                       *)

BeginPass(c) ==
    /\ Begins(c, "rebind")
    /\ snap' = [snap EXCEPT ![c] = slots]
    /\ missing' = [missing EXCEPT ![c] = 0]
    /\ todo' = [todo EXCEPT ![c] = {s \in Slot : slots[s].status = "active"}]
    /\ Reads(c)
    /\ Moves(c)
    /\ UNCHANGED <<tables, world, batch, results, bound, events, tests>>

earlier(s) == {t \in Slot : t < s /\ slots[t].status = "active" /\ slots[t].account # NoAccount}

usedAccount(s) == {slots[t].account : t \in earlier(s)}

usedIP(s) == {slotEffectiveIP(slots[t], slots[t].account, accounts) : t \in earlier(s)} \ {NoIP}

conflicts(s) ==
    \/ slots[s].account \in usedAccount(s)
    \/ slotEffectiveIP(slots[s], slots[s].account, accounts) \in usedIP(s)

keeps(s) == slots[s].account \in Active /\ ~Failing(slots[s]) /\ ~conflicts(s)

candidates(s) ==
    LET blocked == {slots[t].account : t \in {u \in Slot : Failing(slots[u])}} IN
    {a \in running \ (blocked \cup usedAccount(s)) : accountUsable(accounts[a]) /\ accounts[a].ip \notin usedIP(s)}

\* What a pass makes of a slot, see SlotRebind.
rebound(s) ==
    LET row == slots[s]
        same == {a \in candidates(s) : accounts[a].ip = row.pin}
    IN IF keeps(s) THEN {IF row.err /\ row.probe = 0 /\ row.drift = 0 THEN ClearProxySlotError(row) ELSE row}
       ELSE IF candidates(s) # {}
            THEN {AssignProxySlotAccount(row, a, accounts[a].ip) : a \in IF same # {} THEN same ELSE candidates(s)}
       ELSE {IF row.account # NoAccount /\ conflicts(s) THEN UnassignProxySlot(row) ELSE MarkProxySlotError(row)}

Rebind(c, s) ==
    /\ Acts(c, "rebind")
    /\ s \in todo[c] /\ \A t \in todo[c] : s <= t
    /\ \E row \in rebound(s) : slots' = [slots EXCEPT ![s] = row]
    /\ missing' = [missing EXCEPT ![c] = IF ~keeps(s) /\ candidates(s) = {} THEN @ + 1 ELSE @]
    /\ todo' = [todo EXCEPT ![c] = @ \ {s}]
    /\ Moves(c)
    /\ UNCHANGED <<accounts, running, isKeeper, errors, world, plan, ready, batch, results, bound, snap, events, tests>>

\* The tunnels are aligned if a slot was bound anew, and when a test or a
\* deduplication is through.
EndPass(c) ==
    /\ Acts(c, "rebind") /\ todo[c] = {}
    /\ running' = IF \/ \E s \in Slot : slots[s].account # snap[c][s].account
                     \/ plan[c] = <<"rebind">> /\ c = "one"
                  THEN Active ELSE running
    /\ snap' = [snap EXCEPT ![c] = <<>>]
    /\ Over(c)
    /\ Moves(c)
    /\ UNCHANGED <<accounts, slots, isKeeper, errors, world, todo, batch, results, bound, missing, events, tests>>

\* healProxySlots goes on only if slots are missing and registering succeeds.
Register(c) ==
    /\ Begins(c, "register")
    /\ \/ /\ missing[c] > 0
          /\ \E a \in Account \ There : accounts' = [accounts EXCEPT ![a] = NewAccount]
          /\ Over(c)
          /\ UNCHANGED running
       \/ /\ Stops(c)
          /\ running' = Active
          /\ UNCHANGED accounts
    /\ missing' = [missing EXCEPT ![c] = 0]
    /\ Moves(c)
    /\ UNCHANGED <<slots, isKeeper, errors, world, todo, batch, results, bound, snap, events, tests>>

-----------------------------------------------------------------------------
(* The world and the panel.                                                 *)

\* What an account that is not in use would see changes unnoticed.
WorldMoves(a) ==
    /\ events < MaxEvents
    /\ a \in Active
    /\ events' = events + 1
    /\ \/ world' = [world EXCEPT ![a].up = ~@]
       \/ world' = [world EXCEPT ![a].good = ~@]
       \/ \E ip \in IP \ {world[a].ip} : world' = [world EXCEPT ![a].ip = ip]
    /\ Noticed
    /\ UNCHANGED <<tables, plan, ready, locals, tests>>

PanelDeletes(a) ==
    /\ events < MaxEvents
    /\ events' = events + 1
    /\ a \in There
    /\ Deleted({a})
    /\ Noticed
    /\ UNCHANGED <<running, world, plan, ready, locals, tests>>

PanelTests ==
    /\ tests < MaxTests
    /\ tests' = tests + 1
    /\ There # {}
    /\ Start("one", Single)
    /\ UNCHANGED events

-----------------------------------------------------------------------------
Phase(c) ==
    \/ Measure(c) \/ SaveResults(c) \/ TestAccount(c) \/ Verdict(c)
    \/ ListStoredBad(c) \/ PruneStored(c)
    \/ ListBound(c) \/ Judge(c) \/ ReadTested(c) \/ Keep(c)
    \/ ReadSlots(c) \/ Probed(c)
    \/ BeginPass(c) \/ EndPass(c) \/ Register(c)
    \/ \E s \in Slot : Probe(c, s) \/ Rebind(c, s)

StartProbe == Start("job", Probing) /\ UNCHANGED <<events, tests>>

Next ==
    \/ StartProbe
    \/ \E p \in {Testing, Dedup} : Start("job", p) /\ UNCHANGED <<events, tests>>
    \/ PanelTests
    \/ \E c \in Actor : Phase(c)
    \/ \E a \in Account : WorldMoves(a) \/ PanelDeletes(a)

(***************************************************************************)
(* What has begun runs to its end, and the ticks of the probe do not all   *)
(* fall into a job.                                                        *)
(***************************************************************************)
Fairness ==
    /\ \A c \in Actor : WF_vars(Phase(c))
    /\ SF_vars(StartProbe)

Spec == Init /\ [][Next]_vars /\ Fairness

-----------------------------------------------------------------------------
(* Properties.                                                              *)

\* A deduplication that nothing disturbs leaves each address it has found with
\* exactly one keeper, which exists; whatever else it tested there is bound.
OneKeeper ==
    [][\A c \in Actor : (Acts(c, "keep") /\ ~ready'[c] /\ Calm(c)) =>
          \A ip \in Found(c) :
             /\ \E k \in isKeeper' : {a \in isKeeper' : accounts'[a].ip = ip} = {k}
             /\ \A a \in group(c, ip) \ isKeeper' :
                   accounts'[a].status = "absent" \/ \E s \in Slot : slots'[s].account = a]_vars

Serves(s, rows) ==
    LET a == rows[s].account IN
    /\ a # NoAccount /\ ~Failing(rows[s])
    /\ accounts[a].status = "active" /\ world[a].up /\ world[a].ip = rows[s].pin
    /\ \A t \in Slot \ {s} : rows[t].account # a /\ rows[t].pin # rows[s].pin

\* However bad the measurements are: when every slot works, a probe, a test or
\* a deduplication that nothing disturbs ends with every slot where it was.
JobSparesBindings ==
    [][(/\ plan["job"] # <<>> /\ plan'["job"] = <<>> /\ before'["job"] # <<>>
        /\ \A s \in Slot : Serves(s, before["job"]))
       => \A s \in Slot : slots'[s].account = before["job"][s].account]_vars

\* A slot does not stay for ever on an account that no longer works while an
\* account that works, is free and has an address of its own is there.
Spare(s) ==
    \E a \in running : /\ world[a].up /\ accountUsable(accounts[a]) /\ accounts[a].ip = world[a].ip
                       /\ \A t \in Slot : slots[t].account # a /\ (t = s \/ slots[t].pin # accounts[a].ip)

DeadSlotMoves ==
    \A s \in Slot, a \in Account :
       <>[](~world[a].up /\ Spare(s)) => []<>(slots[s].account # a)
=============================================================================
