----------------------------- MODULE Scheduler -----------------------------
(***************************************************************************)
(* The goroutines of backend/internal/scheduler/scheduler.go and the       *)
(* requests that run beside them:                                          *)
(*   - Run's loop takes manual jobs and starts a dedup when one is due;    *)
(*   - the refill loop registers accounts for the pool;                    *)
(*   - Reconcile, at start-up and after a request that changed settings or *)
(*     an account;                                                         *)
(*   - TestOne and GenerateAccounts, started by requests.                  *)
(* The first three exclude each other by the flag running: whoever finds   *)
(* it set goes away.  The last two run whenever they are asked for.  All   *)
(* registrations pass the generation gate.                                 *)
(*                                                                         *)
(* What the jobs do to slots and tunnels is the matter of SlotRebind and   *)
(* TunnelManager.  Here a job is the sequence of its calls that meet other *)
(* goroutines: reconcileManager, which reads the settings and hands them   *)
(* to the manager, the rebinding that may ask for accounts, and            *)
(* GenerateAccounts.  All settings together are one version number.        *)
(***************************************************************************)
EXTENDS Integers, Sequences

CONSTANTS
    Saver,      \* callers of Reconcile: main, requests that save something
    Asker,      \* requests for TestOne or GenerateAccounts
    Slots,      \* proxySlotCount
    Reserve,    \* minWarpPoolReserve
    MaxBatch,   \* maxAutoRegisterBatch
    QueueSize,  \* capacity of manualCh
    MaxFaults   \* failing calls, outages, accounts that are lost: a bound of
                \* the model

ASSUME SchedulerAssumption ==
    /\ {Slots, Reserve, MaxBatch, QueueSize} \subseteq Nat \ {0}
    /\ MaxFaults \in Nat
    /\ {"loop", "refill"} \cap (Saver \cup Asker) = {}
    /\ Saver \cap Asker = {}

Process == {"loop", "refill"} \cup Saver \cup Asker

VARIABLES
    todo,     \* the calls each goroutine has still to make
    asked,    \* what each request asked for
    running,  \* the flag under mu
    working,  \* goroutines between tryStartWork and finishWork
    queue,    \* manualCh
    gate,     \* who is in generationGate
    saved,    \* version of the settings in the database
    applied,  \* version the manager has
    seen,     \* version each goroutine has read and not yet handed over
    pool,     \* usable accounts with an IP of their own
    owed,     \* registrations each goroutine has still to make
    fresh,    \* accounts each has inserted and not yet tested
    failed,   \* goroutines whose batch ended in an error
    backoff,  \* refillBackoffUntil lies ahead
    online,   \* Cloudflare can be reached
    faults    \* faults so far

work     == <<running, working>>
settings == <<saved, applied, seen>>
batches  == <<gate, pool, owed, fresh, failed, backoff>>
world    == <<online, faults>>
vars == <<todo, asked, work, queue, settings, batches, world>>

-----------------------------------------------------------------------------
(* The calls of the jobs, in order.                                         *)

reconcileManager == <<"read", "apply">>

Reconciling == reconcileManager \o <<"mend">> \o reconcileManager \o <<"finish">>

\* Mutant: dedup and test no longer reconcile.
Testing_Only == <<"heal", "finish">>

\* runDedup and runTest: between the calls accounts are tested and pruned.
Testing == reconcileManager \o <<"heal">> \o reconcileManager \o <<"finish">>

TestOne == reconcileManager \o <<"heal">> \o reconcileManager

Refilling == <<"plan", "finish">>

GenerateAccounts == <<"enter", "register">>

\* A failing call ends a job; TestOne goes on to its last call.
AfterError(p) ==
    IF p \in working THEN <<"finish">>
    ELSE IF asked[p] = "test" THEN reconcileManager
    ELSE <<>>

Init ==
    /\ todo = [p \in Process |-> <<>>]
    /\ asked = [p \in Process |-> "nothing"]
    /\ running = FALSE
    /\ working = {}
    /\ queue = <<>>
    /\ gate = {}
    /\ saved = 1
    /\ applied = 0
    /\ seen = [p \in Process |-> 0]
    /\ pool = 0
    /\ owed = [p \in Process |-> 0]
    /\ fresh = [p \in Process |-> 0]
    /\ failed = {}
    /\ backoff = FALSE
    /\ online = TRUE
    /\ faults = 0

At(p, stage) == todo[p] # <<>> /\ Head(todo[p]) = stage

\* The call at the head is over, and the given ones come next.
Continue(p, stages) == todo' = [todo EXCEPT ![p] = stages \o Tail(@)]

-----------------------------------------------------------------------------
(* How work starts and ends.                                                *)

\* tryStartWork of p, which goes on to do the stages if it got the flag.
Start(p, stages) ==
    /\ running' = TRUE
    /\ working' = working \cup {p}
    /\ todo' = [todo EXCEPT ![p] = stages]

\* saveSettings; or AccountEnable, AccountDisable, AccountDelete and main,
\* which change no setting.
Save(p) ==
    /\ p \in Saver
    /\ asked[p] = "nothing"
    /\ asked' = [asked EXCEPT ![p] = "save"]
    /\ saved' \in {saved, saved + 1}
    /\ todo' = [todo EXCEPT ![p] = <<"try">>]
    /\ UNCHANGED <<work, queue, applied, seen, batches, world>>

\* Mutant: the deferred reset also runs when the flag was set already.
Reconcile_Resets(p) ==
    /\ At(p, "try")
    /\ IF running
       THEN /\ running' = FALSE
            /\ todo' = [todo EXCEPT ![p] = <<>>]
            /\ UNCHANGED working
       ELSE Start(p, Reconciling)
    /\ UNCHANGED <<asked, queue, settings, batches, world>>

\* Reconcile does nothing while a job runs.
Reconcile(p) ==
    /\ At(p, "try")
    /\ IF running
       THEN todo' = [todo EXCEPT ![p] = <<>>] /\ UNCHANGED work
       ELSE Start(p, Reconciling)
    /\ UNCHANGED <<asked, queue, settings, batches, world>>

\* RunNow: Trigger refuses while a job runs or the queue is full.
Trigger ==
    /\ ~ running
    /\ Len(queue) < QueueSize
    /\ \E kind \in {"dedup", "reconcile"} : queue' = Append(queue, kind)
    /\ UNCHANGED <<todo, asked, work, settings, batches, world>>

\* Run takes a job; execute drops it if a job runs.
TakeJob ==
    /\ todo["loop"] = <<>>
    /\ queue # <<>>
    /\ queue' = Tail(queue)
    /\ IF running
       THEN UNCHANGED <<todo, work>>
       ELSE Start("loop", IF Head(queue) = "dedup" THEN Testing ELSE Reconciling)
    /\ UNCHANGED <<asked, settings, batches, world>>

\* The timer of Run.  While a job runs, execute returns false, lastRunAt stays
\* and the timer fires again at once.
TimerFires ==
    /\ todo["loop"] = <<>>
    /\ ~ running
    /\ Start("loop", Testing)
    /\ UNCHANGED <<asked, queue, settings, batches, world>>

\* A tick of autoRefillLoop that finds no job running; there is a user, and
\* generation is on.
RefillTick ==
    /\ todo["refill"] = <<>>
    /\ ~ running
    /\ Start("refill", Refilling)
    /\ UNCHANGED <<asked, queue, settings, batches, world>>

AskTestOne(p) ==
    /\ p \in Asker
    /\ asked[p] = "nothing"
    /\ asked' = [asked EXCEPT ![p] = "test"]
    /\ todo' = [todo EXCEPT ![p] = TestOne]
    /\ UNCHANGED <<work, queue, settings, batches, world>>

AccountsGenerate(p) ==
    /\ p \in Asker
    /\ asked[p] = "nothing"
    /\ asked' = [asked EXCEPT ![p] = "generate"]
    /\ todo' = [todo EXCEPT ![p] = GenerateAccounts]
    /\ \E n \in 1 .. MaxBatch : owed' = [owed EXCEPT ![p] = n]
    /\ UNCHANGED <<work, queue, settings, gate, pool, fresh, failed, backoff, world>>

Finish(p) ==
    /\ At(p, "finish")
    /\ running' = FALSE
    /\ working' = working \ {p}
    /\ Continue(p, <<>>)
    /\ UNCHANGED <<asked, queue, settings, batches, world>>

-----------------------------------------------------------------------------
(* reconcileManager: the settings are read, then handed to the manager.     *)

ReadSettings(p) ==
    /\ At(p, "read")
    /\ seen' = [seen EXCEPT ![p] = saved]
    /\ Continue(p, <<>>)
    /\ UNCHANGED <<asked, work, queue, saved, applied, batches, world>>

ApplySettings(p) ==
    /\ At(p, "apply")
    /\ applied' = seen[p]
    /\ seen' = [seen EXCEPT ![p] = 0]
    /\ Continue(p, <<>>)
    /\ UNCHANGED <<asked, work, queue, saved, batches, world>>

-----------------------------------------------------------------------------
(* Numbers.                                                                 *)

AtLeast(a, b) == IF a < b THEN b ELSE a
AtMost(a, b) == IF a < b THEN a ELSE b

targetWarpPoolSize == Slots + AtLeast((Slots + 1) \div 2, Reserve)

\* The accounts of the pool have IPs of their own, so that the gap in IPs is
\* never the larger one.
requiredAccountRegistrations == AtLeast(targetWarpPoolSize - pool, 0)

\* Slots that rebindProxySlots leaves without an account.
missing == AtLeast(Slots - pool, 0)

healNeed == AtMost(MaxBatch, AtLeast(requiredAccountRegistrations, AtLeast(missing, Reserve)))

-----------------------------------------------------------------------------
(* healProxySlots and autoRefill.                                           *)

\* Slots are rebound, and the tunnels follow if a binding changed.
Mend(p) ==
    /\ At(p, "mend")
    /\ Continue(p, <<>>) \/ Continue(p, reconcileManager)
    /\ UNCHANGED <<asked, work, queue, settings, batches, world>>

\* The database fails, and the caller gives up; within a batch that is only
\* logged.
MendFails(p) ==
    /\ At(p, "mend") \/ At(p, "heal")
    /\ p \notin gate
    /\ faults < MaxFaults
    /\ faults' = faults + 1
    /\ todo' = [todo EXCEPT ![p] = AfterError(p)]
    /\ UNCHANGED <<asked, work, queue, settings, batches, online>>

\* Slots are rebound, and accounts are registered for those that are left.
\* runDedup and runTest may forbid that when every test failed.
Heal(p) ==
    /\ At(p, "heal")
    /\ \/ /\ missing > 0
          /\ Continue(p, GenerateAccounts \o reconcileManager \o <<"mend">>)
          /\ owed' = [owed EXCEPT ![p] = healNeed]
       \/ /\ missing = 0 \/ (p = "loop" /\ ~ online)
          /\ Continue(p, <<"mend">>)
          /\ UNCHANGED owed
    /\ UNCHANGED <<asked, work, queue, settings, gate, pool, fresh, failed, backoff, world>>

\* autoRefill: in a back-off, and when accounts exist but none can be reached,
\* it registers nothing.
Plan(p) ==
    /\ At(p, "plan")
    /\ LET need == AtMost(MaxBatch, requiredAccountRegistrations) IN
       \/ /\ backoff
          /\ Continue(p, <<"mend">>)
          /\ UNCHANGED owed
       \/ /\ ~ backoff /\ ~ online /\ pool = 0
          /\ Continue(p, <<>>)
          /\ UNCHANGED owed
       \/ /\ ~ backoff
          /\ Continue(p, (IF need = 0 THEN <<>> ELSE GenerateAccounts) \o <<"heal">>)
          /\ owed' = [owed EXCEPT ![p] = need]
    /\ UNCHANGED <<asked, work, queue, settings, gate, pool, fresh, failed, backoff, world>>

-----------------------------------------------------------------------------
(* GenerateAccounts.                                                        *)

EnterGate(p) ==
    /\ At(p, "enter")
    /\ gate = {}
    /\ gate' = {p}
    /\ Continue(p, <<>>)
    /\ UNCHANGED <<asked, work, queue, settings, pool, owed, fresh, failed, backoff, world>>

\* The time the panel allows a request's batch runs out at the gate.
GiveUp(p) ==
    /\ At(p, "enter")
    /\ asked[p] = "generate"
    /\ todo' = [todo EXCEPT ![p] = <<>>]
    /\ owed' = [owed EXCEPT ![p] = 0]
    /\ UNCHANGED <<asked, work, queue, settings, gate, pool, fresh, failed, backoff, world>>

Register(p) ==
    /\ At(p, "register")
    /\ owed[p] > 0
    /\ online
    /\ owed' = [owed EXCEPT ![p] = @ - 1]
    /\ fresh' = [fresh EXCEPT ![p] = @ + 1]
    /\ UNCHANGED <<todo, asked, work, queue, settings, gate, pool, failed, backoff, world>>

\* The last attempt at a registration fails: the batch ends.
RegisterFails(p) ==
    /\ At(p, "register")
    /\ owed[p] > 0
    /\ ~ online \/ faults < MaxFaults
    /\ faults' = IF online THEN faults + 1 ELSE faults
    /\ owed' = [owed EXCEPT ![p] = 0]
    /\ failed' = failed \cup {p}
    /\ UNCHANGED <<todo, asked, work, queue, settings, gate, pool, fresh, backoff, online>>

\* Mutant: what the new accounts leave open is healed, not only rebound.
BatchOver_Heals(p) ==
    /\ At(p, "register")
    /\ owed[p] = 0
    /\ Continue(p, (IF fresh[p] > 0 THEN reconcileManager \o <<"test", "heal">> ELSE <<>>) \o <<"leave">>)
    /\ UNCHANGED <<asked, work, queue, settings, batches, world>>

\* The deferred part, still inside the gate, if anything was inserted: the
\* tunnels of the new accounts are started, they are tested, slots are rebound.
BatchOver(p) ==
    /\ At(p, "register")
    /\ owed[p] = 0
    /\ Continue(p, (IF fresh[p] > 0 THEN reconcileManager \o <<"test", "mend">> ELSE <<>>) \o <<"leave">>)
    /\ UNCHANGED <<asked, work, queue, settings, batches, world>>

TestNew(p) ==
    /\ At(p, "test")
    /\ pool' = pool + fresh[p]
    /\ fresh' = [fresh EXCEPT ![p] = 0]
    /\ Continue(p, <<>>)
    /\ UNCHANGED <<asked, work, queue, settings, gate, owed, failed, backoff, world>>

\* The gate is free again; noteRefillError, unless the panel asked.
LeaveGate(p) ==
    /\ At(p, "leave")
    /\ gate' = gate \ {p}
    /\ failed' = failed \ {p}
    /\ backoff' = (backoff \/ (p \in failed /\ asked[p] # "generate"))
    /\ todo' = [todo EXCEPT ![p] = IF p \in failed THEN AfterError(p) ELSE Tail(@)]
    /\ UNCHANGED <<asked, work, queue, settings, pool, owed, fresh, world>>

-----------------------------------------------------------------------------
(* The world.                                                               *)

BackoffEnds ==
    /\ backoff
    /\ backoff' = FALSE
    /\ UNCHANGED <<todo, asked, work, queue, settings, gate, pool, owed, fresh, failed, world>>

\* An account is deleted or no longer usable.
LoseAccount ==
    /\ faults < MaxFaults
    /\ pool > 0
    /\ pool' = pool - 1
    /\ faults' = faults + 1
    /\ UNCHANGED <<todo, asked, work, queue, settings, gate, owed, fresh, failed, backoff, online>>

GoOffline ==
    /\ faults < MaxFaults
    /\ online
    /\ online' = FALSE
    /\ faults' = faults + 1
    /\ UNCHANGED <<todo, asked, work, queue, settings, batches>>

ComeBack ==
    /\ ~ online
    /\ online' = TRUE
    /\ UNCHANGED <<todo, asked, work, queue, settings, batches, faults>>

-----------------------------------------------------------------------------
\* The next call of p.
Call(p) ==
    \/ Reconcile(p) \/ ReadSettings(p) \/ ApplySettings(p)
    \/ Plan(p) \/ Mend(p) \/ Heal(p)
    \/ EnterGate(p) \/ Register(p) \/ BatchOver(p) \/ TestNew(p) \/ LeaveGate(p)
    \/ Finish(p)

Fault(p) == MendFails(p) \/ RegisterFails(p)

Next ==
    \/ \E p \in Process : Call(p) \/ Fault(p) \/ Save(p) \/ AskTestOne(p) \/ AccountsGenerate(p) \/ GiveUp(p)
    \/ Trigger \/ TakeJob \/ TimerFires \/ RefillTick
    \/ BackoffEnds \/ LoseAccount \/ GoOffline \/ ComeBack

Spec == Init /\ [][Next]_vars

(***************************************************************************)
(* Goroutines run and calls return.  The loop tries again at once while it *)
(* finds a job running, and the refill loop every 90 seconds: a job that   *)
(* is not running again and again is found not running.  Back-offs end,    *)
(* and so do outages.                                                      *)
(***************************************************************************)
Fairness ==
    /\ \A p \in Process : WF_vars(Call(p))
    /\ WF_vars(TakeJob)
    /\ SF_vars(TimerFires)
    /\ SF_vars(RefillTick)
    /\ WF_vars(BackoffEnds)
    /\ WF_vars(ComeBack)

FairSpec == Spec /\ Fairness

-----------------------------------------------------------------------------
(* Properties.                                                              *)

Stage == {"try", "read", "apply", "mend", "heal", "plan", "enter", "register", "test", "leave", "finish"}

\* Every variable has its type, and no batch is larger than
\* maxAutoRegisterBatch.
TypeOK ==
    /\ todo \in [Process -> Seq(Stage)]
    /\ asked \in [Process -> {"nothing", "save", "test", "generate"}]
    /\ running \in BOOLEAN
    /\ working \subseteq Process
    /\ queue \in Seq({"dedup", "reconcile"})
    /\ gate \subseteq Process
    /\ saved \in Nat /\ applied \in Nat
    /\ seen \in [Process -> Nat]
    /\ pool \in Nat
    /\ owed \in [Process -> 0 .. MaxBatch]
    /\ fresh \in [Process -> Nat]
    /\ failed \subseteq Process
    /\ backoff \in BOOLEAN /\ online \in BOOLEAN
    /\ faults \in Nat

\* Jobs, refills and Reconcile exclude each other, the flag says so, and among
\* all goroutines one registers accounts at a time.
OneAtATime ==
    /\ running <=> working # {}
    /\ \A p, q \in working : p = q
    /\ \A p \in Process : At(p, "register") \/ At(p, "test") \/ At(p, "leave") => gate = {p}

\* A saved setting reaches the manager for good: although Reconcile goes away
\* when a job runs, and TestOne and GenerateAccounts may hand the manager what
\* they read earlier.
SettingsSettle == <>[](applied = saved)

\* After failed registrations, back-offs, outages and lost accounts, the pool
\* is filled to its target again.
PoolFills == <>[](pool >= targetWarpPoolSize)
=============================================================================
