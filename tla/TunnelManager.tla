--------------------------- MODULE TunnelManager ---------------------------
(***************************************************************************)
(* The map of running tunnels in backend/internal/proxy/manager.go and     *)
(* everything that writes it: Reconcile with startTunnels, HealthCheck,    *)
(* StopTunnel and Stop.  Manager.mu protects the map, but Reconcile reads  *)
(* the accounts before it takes the lock and starts tunnels after it has   *)
(* released it, HealthCheck probes and rebuilds without it, and several    *)
(* Reconciles may run at once (a job of the scheduler, TestOne, a manual   *)
(* GenerateAccounts).                                                      *)
(*                                                                         *)
(* A tunnel is an object with an identity; its configuration, which never  *)
(* changes, stands for the account's columns and the three manager         *)
(* settings copied into Config.  A tunnel that is taken out of the map or  *)
(* never put there is closed by the goroutine that holds it, outside the   *)
(* lock: no one else looks at it any more, so the close is part of the     *)
(* step that decides it.                                                   *)
(***************************************************************************)
EXTENDS FiniteSets, Integers

CONSTANTS Tag,        \* accounts, by tag
          Config,     \* tunnel configurations
          Instance,   \* tunnel objects
          Reconciler, \* goroutines that may run Reconcile
          NoConfig,   \* no active account; a closed tunnel
          None,       \* no tunnel
          MaxEvents   \* bound on changes, stops and failures

ASSUME TunnelAssumption ==
    /\ NoConfig \notin Config
    /\ None \notin Instance
    /\ None \notin Tag
    /\ MaxEvents \in Nat

VARIABLES
    want,     \* the active accounts in the database, with their configuration
    tunnels,  \* m.tunnels
    config,   \* the configuration of each open tunnel
    suspect,  \* tunnels whose dialFailures reached the threshold
    pc,       \* where each Reconcile is
    desired,  \* its snapshot of the accounts
    toStart,  \* tags whose newTunnel has not returned
    results,  \* tunnels in its results channel
    stale,    \* HealthCheck's candidates
    staleCfg, \* their configurations
    checking, \* the candidate it rebuilds
    fresh,    \* the tunnel it has built
    exact,    \* history: nothing else moved since the snapshot
    events    \* environment steps so far

reconcile == <<pc, desired, toStart, results>>
health    == <<stale, staleCfg, checking, fresh>>
objects   == <<tunnels, config, suspect>>
vars == <<want, objects, reconcile, health, exact, events>>

Nothing == [t \in Tag |-> None]
NoOne   == [t \in Tag |-> NoConfig]

Init ==
    /\ want \in [Tag -> Config \cup {NoConfig}]
    /\ tunnels = Nothing
    /\ config = [i \in Instance |-> NoConfig]
    /\ suspect = {}
    /\ pc = [r \in Reconciler |-> "idle"]
    /\ desired = [r \in Reconciler |-> NoOne]
    /\ toStart = [r \in Reconciler |-> {}]
    /\ results = [r \in Reconciler |-> Nothing]
    /\ stale = Nothing
    /\ staleCfg = NoOne
    /\ checking = None
    /\ fresh = None
    /\ exact = [r \in Reconciler |-> FALSE]
    /\ events = 0

-----------------------------------------------------------------------------
(* Tunnel objects.                                                          *)

Open(i) == config[i] # NoConfig

Running == {tunnels[t] : t \in Tag} \ {None}

\* Started or rebuilt, and not yet in the map.
Held == ({results[r][t] : r \in Reconciler, t \in Tag} \cup {fresh}) \ {None}

\* A tunnel that HealthCheck remembers is not garbage, even if it is closed.
Remembered == {stale[t] : t \in Tag} \ {None}

Unused == {i \in Instance : ~ Open(i)} \ (Running \cup Held \cup Remembered)

\* Objects are interchangeable, so that newTunnel may return any unused one.
newTunnel == CHOOSE i \in Unused : TRUE

OpenWith(i, cfg) ==
    /\ config' = [config EXCEPT ![i] = cfg]
    /\ suspect' = suspect \ {i}

Close(S) ==
    /\ config' = [i \in Instance |-> IF i \in S THEN NoConfig ELSE config[i]]
    /\ suspect' = suspect \ S

-----------------------------------------------------------------------------
(* Reconcile.                                                               *)

Others(r) == Reconciler \ {r}

\* ListActiveAccounts.  Two Reconciles that overlap disturb one another.
ReadAccounts(r) ==
    /\ pc[r] = "idle"
    /\ pc' = [pc EXCEPT ![r] = "read"]
    /\ desired' = [desired EXCEPT ![r] = want]
    /\ exact' = [q \in Reconciler |-> q = r /\ \A o \in Others(r) : pc[o] = "idle"]
    /\ UNCHANGED <<want, objects, toStart, results, health, events>>

Outdated(r) == {t \in Tag : tunnels[t] # None /\ config[tunnels[t]] # desired[r][t]}

\* The section under mu: the tunnels that are no longer wanted as they are go.
CloseOutdated(r) ==
    /\ pc[r] = "read"
    /\ tunnels' = [t \in Tag |-> IF t \in Outdated(r) THEN None ELSE tunnels[t]]
    /\ Close({tunnels[t] : t \in Outdated(r)})

\* Mutant: a tunnel whose configuration has changed is left alone.
Sync_KeepsChanged(r) ==
    /\ pc[r] = "read"
    /\ tunnels' = [t \in Tag |-> IF desired[r][t] = NoConfig THEN None ELSE tunnels[t]]
    /\ Close({tunnels[t] : t \in {u \in Tag : desired[r][u] = NoConfig}})
    /\ toStart' = [toStart EXCEPT ![r] = {t \in Tag : desired[r][t] # NoConfig /\ tunnels'[t] = None}]
    /\ pc' = [pc EXCEPT ![r] = "starting"]
    /\ UNCHANGED <<want, desired, results, health, exact, events>>

Sync(r) ==
    /\ CloseOutdated(r)
    /\ toStart' = [toStart EXCEPT ![r] = {t \in Tag : desired[r][t] # NoConfig /\ tunnels'[t] = None}]
    /\ pc' = [pc EXCEPT ![r] = "starting"]
    /\ UNCHANGED <<want, desired, results, health, exact, events>>

Leave(r) ==
    /\ pc' = [pc EXCEPT ![r] = "idle"]
    /\ desired' = [desired EXCEPT ![r] = NoOne]
    /\ exact' = [exact EXCEPT ![r] = FALSE]

\* reconcileServerLocked cannot listen: the error returns before any start.
SyncFails(r) ==
    /\ events < MaxEvents
    /\ events' = events + 1
    /\ CloseOutdated(r)
    /\ Leave(r)
    /\ UNCHANGED <<want, toStart, results, health>>

\* newTunnel of one of the starting goroutines.
StartTunnel(r, t) ==
    /\ t \in toStart[r]
    /\ Unused # {}
    /\ toStart' = [toStart EXCEPT ![r] = @ \ {t}]
    /\ results' = [results EXCEPT ![r][t] = newTunnel]
    /\ OpenWith(newTunnel, desired[r][t])
    /\ UNCHANGED <<want, tunnels, pc, desired, health, exact, events>>

StartFails(r, t) ==
    /\ t \in toStart[r]
    /\ events < MaxEvents
    /\ events' = events + 1
    /\ toStart' = [toStart EXCEPT ![r] = @ \ {t}]
    /\ exact' = [exact EXCEPT ![r] = FALSE]
    /\ UNCHANGED <<want, objects, pc, desired, results, health>>

\* Mutant: the map is written without a look at what it holds.
Install_Overwrite(r, t) ==
    /\ results[r][t] # None
    /\ results' = [results EXCEPT ![r][t] = None]
    /\ tunnels' = [tunnels EXCEPT ![t] = results[r][t]]
    /\ UNCHANGED <<want, config, suspect, pc, desired, toStart, health, exact, events>>

\* One result, under mu.  The comparison desired[r.tag] # r.cfg in the code is
\* with the same snapshot the tunnel was started from and never true.
Install(r, t) ==
    /\ results[r][t] # None
    /\ results' = [results EXCEPT ![r][t] = None]
    /\ IF tunnels[t] = None
       THEN tunnels' = [tunnels EXCEPT ![t] = results[r][t]] /\ UNCHANGED <<config, suspect>>
       ELSE Close({results[r][t]}) /\ UNCHANGED tunnels
    /\ UNCHANGED <<want, pc, desired, toStart, health, exact, events>>

Finished(r) == pc[r] = "starting" /\ toStart[r] = {} /\ results[r] = Nothing

Return(r) ==
    /\ Finished(r)
    /\ Leave(r)
    /\ UNCHANGED <<want, objects, toStart, results, health, events>>

-----------------------------------------------------------------------------
(* HealthCheck, called by one loop of the scheduler.                        *)

Resting == stale = Nothing /\ fresh = None

Collect ==
    /\ Resting
    /\ Running \cap suspect # {}
    /\ stale' = [t \in Tag |-> IF tunnels[t] \in suspect THEN tunnels[t] ELSE None]
    /\ staleCfg' = [t \in Tag |-> IF tunnels[t] \in suspect THEN config[tunnels[t]] ELSE NoConfig]
    /\ UNCHANGED <<want, objects, reconcile, checking, fresh, exact, events>>

\* The loop is over with candidate t.
Drop(t) ==
    /\ stale' = [stale EXCEPT ![t] = None]
    /\ staleCfg' = [staleCfg EXCEPT ![t] = NoConfig]

\* The probe succeeds: dialFailures of the same tunnel is cleared, under mu.
ProbeSucceeds(t) ==
    /\ stale[t] # None
    /\ fresh = None
    /\ suspect' = IF tunnels[t] = stale[t] THEN suspect \ {stale[t]} ELSE suspect
    /\ Drop(t)
    /\ UNCHANGED <<want, tunnels, config, reconcile, checking, fresh, exact, events>>

\* The probe fails, and so does newTunnel.
RebuildFails(t) ==
    /\ stale[t] # None
    /\ fresh = None
    /\ Drop(t)
    /\ UNCHANGED <<want, objects, reconcile, checking, fresh, exact, events>>

\* The probe fails, and newTunnel builds another tunnel from the same
\* configuration.
Rebuild(t) ==
    /\ stale[t] # None
    /\ fresh = None
    /\ Unused # {}
    /\ checking' = t
    /\ fresh' = newTunnel
    /\ OpenWith(newTunnel, staleCfg[t])
    /\ UNCHANGED <<want, tunnels, reconcile, stale, staleCfg, exact, events>>

\* Mutant: the tunnel that has been rebuilt need not be the one in the map.
Replace_Unchecked ==
    LET t == checking IN
    /\ fresh # None
    /\ tunnels' = [tunnels EXCEPT ![t] = fresh]
    /\ Close({tunnels[t]} \ {None})
    /\ fresh' = None
    /\ checking' = None
    /\ Drop(t)
    /\ UNCHANGED <<want, reconcile, exact, events>>

\* Under mu: the new tunnel takes the place of the old one, if the map still
\* holds that one; the loser is closed.
Replace ==
    LET t == checking IN
    /\ fresh # None
    /\ IF tunnels[t] = stale[t]
       THEN tunnels' = [tunnels EXCEPT ![t] = fresh] /\ Close({stale[t]})
       ELSE Close({fresh}) /\ UNCHANGED tunnels
    /\ fresh' = None
    /\ checking' = None
    /\ Drop(t)
    /\ UNCHANGED <<want, reconcile, exact, events>>

-----------------------------------------------------------------------------
(* The rest of the program.                                                 *)

Event ==
    /\ events < MaxEvents
    /\ events' = events + 1
    /\ exact' = [r \in Reconciler |-> FALSE]
    /\ UNCHANGED <<reconcile, health>>

\* An account is registered, enabled, disabled, deleted or loses its role of
\* keeper, or a setting of the tunnels changes.
ChangeAccount(t) ==
    /\ Event
    /\ \E cfg \in (Config \cup {NoConfig}) \ {want[t]} : want' = [want EXCEPT ![t] = cfg]
    /\ UNCHANGED objects

\* The slot probe has seen the egress address drift.
StopTunnel(t) ==
    /\ Event
    /\ tunnels[t] # None
    /\ tunnels' = [tunnels EXCEPT ![t] = None]
    /\ Close({tunnels[t]})
    /\ UNCHANGED want

\* The goroutines that are running go on until the process exits.
Stop ==
    /\ Event
    /\ tunnels' = Nothing
    /\ Close(Running)
    /\ UNCHANGED want

\* noteDial counts a failed dial; two make the tunnel a candidate, and one that
\* succeeds makes it none again.
DialsFail(t) ==
    /\ tunnels[t] \notin suspect \cup {None}
    /\ suspect' = suspect \cup {tunnels[t]}
    /\ UNCHANGED <<want, tunnels, config, reconcile, health, exact, events>>

DialSucceeds(t) ==
    /\ tunnels[t] \in suspect
    /\ suspect' = suspect \ {tunnels[t]}
    /\ UNCHANGED <<want, tunnels, config, reconcile, health, exact, events>>

-----------------------------------------------------------------------------
ReconcileStep(r) ==
    \/ ReadAccounts(r)
    \/ Sync(r)
    \/ \E t \in Tag : StartTunnel(r, t) \/ Install(r, t)
    \/ Return(r)

HealthStep ==
    \/ Collect
    \/ \E t \in Tag : ProbeSucceeds(t) \/ RebuildFails(t) \/ Rebuild(t)
    \/ Replace

Environment ==
    \/ \E r \in Reconciler : SyncFails(r) \/ \E t \in Tag : StartFails(r, t)
    \/ \E t \in Tag : ChangeAccount(t) \/ StopTunnel(t) \/ DialsFail(t) \/ DialSucceeds(t)
    \/ Stop

Next == (\E r \in Reconciler : ReconcileStep(r)) \/ HealthStep \/ Environment

Spec == Init /\ [][Next]_vars

\* The dedup timer starts a Reconcile again and again; each of its steps, and
\* each of HealthCheck's, ends: lock sections are short, probes and newTunnel
\* have timeouts.
FairSpec == Spec /\ WF_vars(HealthStep) /\ \A r \in Reconciler : WF_vars(ReconcileStep(r))

-----------------------------------------------------------------------------
TypeOK ==
    /\ want \in [Tag -> Config \cup {NoConfig}]
    /\ tunnels \in [Tag -> Instance \cup {None}]
    /\ config \in [Instance -> Config \cup {NoConfig}]
    /\ suspect \in SUBSET Instance
    /\ pc \in [Reconciler -> {"idle", "read", "starting"}]
    /\ desired \in [Reconciler -> [Tag -> Config \cup {NoConfig}]]
    /\ toStart \in [Reconciler -> SUBSET Tag]
    /\ results \in [Reconciler -> [Tag -> Instance \cup {None}]]
    /\ stale \in [Tag -> Instance \cup {None}]
    /\ staleCfg \in [Tag -> Config \cup {NoConfig}]
    /\ checking \in Tag \cup {None}
    /\ fresh \in Instance \cup {None}
    /\ exact \in [Reconciler -> BOOLEAN]
    /\ events \in Nat

\* No tunnel leaks, and resolve hands out open tunnels only: whatever overlaps,
\* a tunnel is open exactly while it is in the map or a goroutine still has to
\* put it there or close it.
OpenIffHeld == \A i \in Instance : Open(i) <=> i \in Running \cup Held

\* A tag gets a tunnel from a Reconcile that saw the account active with that
\* configuration; a rebuilt one replaces only one of the same configuration.
RestartsJustified ==
    [][\A t \in Tag :
          tunnels'[t] \notin {tunnels[t], None} =>
              IF tunnels[t] = None
              THEN \E r \in Reconciler : desired[r][t] = config'[tunnels'[t]]
              ELSE config'[tunnels'[t]] = config[tunnels[t]]]_vars

Aligned == \A t \in Tag : want[t] = IF tunnels[t] = None THEN NoConfig ELSE config[tunnels[t]]

\* A Reconcile that nothing else overlaps but HealthCheck, and whose tunnels all
\* start, leaves exactly the tunnels that the accounts call for.
ReconcileExact == \A r \in Reconciler : Finished(r) /\ exact[r] => Aligned

\* Whatever stale Reconciles left behind, once the accounts stay as they are
\* the tunnels come to agree with them, and stay so.
Converges == <>[]Aligned
=============================================================================
