------------------------ MODULE TunnelManager_proofs ------------------------
(***************************************************************************)
(* Theorems of TunnelManager, for any accounts, configurations, tunnel     *)
(* objects and overlapping Reconciles, and any number of changes and       *)
(* failures.                                                               *)
(***************************************************************************)
EXTENDS TunnelManager, TLAPS

-----------------------------------------------------------------------------
(* Types.                                                                   *)

LEMMA InitType == Init => TypeOK
BY TunnelAssumption DEF Init, TypeOK, Nothing, NoOne

LEMMA NewTunnel ==
    ASSUME Unused # {}
    PROVE  newTunnel \in Unused /\ newTunnel \in Instance /\ newTunnel # None
<1>1. newTunnel \in Unused
  BY DEF newTunnel
<1> QED
  BY <1>1, TunnelAssumption DEF Unused

LEMMA ReconcileType ==
    ASSUME TypeOK, NEW r \in Reconciler, ReconcileStep(r)
    PROVE  TypeOK'
<1> USE TunnelAssumption DEF TypeOK, objects, health, NoOne
<1>1. CASE ReadAccounts(r)
  BY <1>1 DEF ReadAccounts
<1>2. CASE Sync(r)
  BY <1>2 DEF Sync, CloseOutdated, Close
<1>3. ASSUME NEW t \in Tag, StartTunnel(r, t)
      PROVE  TypeOK'
  <2>1. newTunnel \in Instance
    BY <1>3, NewTunnel DEF StartTunnel
  <2> QED
    BY <1>3, <2>1 DEF StartTunnel, OpenWith
<1>4. ASSUME NEW t \in Tag, Install(r, t)
      PROVE  TypeOK'
  BY <1>4 DEF Install, Close
<1>5. CASE Return(r)
  BY <1>5 DEF Return, Leave
<1> QED
  BY <1>1, <1>2, <1>3, <1>4, <1>5 DEF ReconcileStep

LEMMA HealthType == TypeOK /\ HealthStep => TypeOK'
<1> SUFFICES ASSUME TypeOK, HealthStep
             PROVE  TypeOK'
  OBVIOUS
<1> USE TunnelAssumption DEF TypeOK, objects, reconcile, Drop
<1>1. CASE Collect
  BY <1>1 DEF Collect
<1>2. ASSUME NEW t \in Tag, ProbeSucceeds(t)
      PROVE  TypeOK'
  BY <1>2 DEF ProbeSucceeds
<1>3. ASSUME NEW t \in Tag, RebuildFails(t)
      PROVE  TypeOK'
  BY <1>3 DEF RebuildFails
<1>4. ASSUME NEW t \in Tag, Rebuild(t)
      PROVE  TypeOK'
  <2>1. newTunnel \in Instance
    BY <1>4, NewTunnel DEF Rebuild
  <2> QED
    BY <1>4, <2>1 DEF Rebuild, OpenWith
<1>5. CASE Replace
  <2>1. config' \in [Instance -> Config \cup {NoConfig}] /\ suspect' \in SUBSET Instance
    BY <1>5 DEF Replace, Close
  <2>2. tunnels' \in [Tag -> Instance \cup {None}]
    BY <1>5 DEF Replace
  <2>3. stale' \in [Tag -> Instance \cup {None}] /\ staleCfg' \in [Tag -> Config \cup {NoConfig}]
    BY <1>5 DEF Replace
  <2> QED
    BY <1>5, <2>1, <2>2, <2>3 DEF Replace
<1> QED
  BY <1>1, <1>2, <1>3, <1>4, <1>5 DEF HealthStep

LEMMA EnvironmentType == TypeOK /\ Environment => TypeOK'
<1> SUFFICES ASSUME TypeOK, Environment
             PROVE  TypeOK'
  OBVIOUS
<1> USE TunnelAssumption DEF TypeOK, objects, reconcile, health, Event, Close
<1>1. ASSUME NEW r \in Reconciler, SyncFails(r)
      PROVE  TypeOK'
  BY <1>1 DEF SyncFails, CloseOutdated, Leave, NoOne
<1>2. ASSUME NEW r \in Reconciler, NEW t \in Tag, StartFails(r, t)
      PROVE  TypeOK'
  BY <1>2 DEF StartFails
<1>3. ASSUME NEW t \in Tag, ChangeAccount(t)
      PROVE  TypeOK'
  BY <1>3 DEF ChangeAccount
<1>4. ASSUME NEW t \in Tag, StopTunnel(t)
      PROVE  TypeOK'
  BY <1>4 DEF StopTunnel
<1>5. ASSUME NEW t \in Tag, DialsFail(t) \/ DialSucceeds(t)
      PROVE  TypeOK'
  BY <1>5 DEF DialsFail, DialSucceeds
<1>6. CASE Stop
  BY <1>6 DEF Stop, Nothing
<1> QED
  BY <1>1, <1>2, <1>3, <1>4, <1>5, <1>6 DEF Environment

LEMMA StepType == TypeOK /\ [Next]_vars => TypeOK'
<1>1. TypeOK /\ UNCHANGED vars => TypeOK'
  BY DEF vars, objects, reconcile, health, TypeOK
<1> QED
  BY <1>1, ReconcileType, HealthType, EnvironmentType DEF Next

\* The map of tunnels, and whatever holds a tunnel, keep their types.
THEOREM TypeCorrect == Spec => []TypeOK
BY InitType, StepType, PTL DEF Spec

-----------------------------------------------------------------------------
(* Who holds a tunnel.                                                      *)

InMap(i)    == \E t \in Tag : tunnels[t] = i
InResult(i) == \E r \in Reconciler, t \in Tag : results[r][t] = i

\* OpenIffHeld, place by place.
OpenInPlace == \A i \in Instance : Open(i) <=> (InMap(i) \/ InResult(i) \/ fresh = i)

\* A tunnel has one place at most.
OnePlace ==
    /\ \A t, u \in Tag : tunnels[t] # None /\ tunnels[t] = tunnels[u] => t = u
    /\ \A r, q \in Reconciler, t, u \in Tag :
          results[r][t] # None /\ results[r][t] = results[q][u] => r = q /\ t = u
    /\ \A t, u \in Tag, r \in Reconciler : tunnels[t] # None => tunnels[t] # results[r][u]
    /\ fresh # None => ~ InMap(fresh) /\ ~ InResult(fresh)

\* A tag waits for a tunnel that will be open, and has no other result; a rebuilt
\* tunnel has a candidate.
Pending ==
    /\ \A r \in Reconciler : pc[r] # "starting" =>
          toStart[r] = {} /\ \A t \in Tag : results[r][t] = None
    /\ \A r \in Reconciler : \A t \in toStart[r] : desired[r][t] # NoConfig /\ results[r][t] = None
    /\ \A t \in Tag : stale[t] # None => staleCfg[t] # NoConfig
    /\ fresh # None => checking \in Tag /\ stale[checking] # None

IInv == TypeOK /\ OpenInPlace /\ OnePlace /\ Pending

LEMMA InPlace ==
    ASSUME NEW i \in Instance
    PROVE  i \in Running \cup Held <=> (InMap(i) \/ InResult(i) \/ fresh = i)
BY TunnelAssumption DEF Running, Held, InMap, InResult

\* What newTunnel returns is closed and nobody's.
LEMMA NewIsFree ==
    ASSUME Unused # {}
    PROVE  /\ newTunnel \in Instance /\ newTunnel # None /\ ~ Open(newTunnel)
           /\ ~ InMap(newTunnel) /\ ~ InResult(newTunnel) /\ fresh # newTunnel
           /\ \A t \in Tag : stale[t] # newTunnel
<1>1. newTunnel \in Unused /\ newTunnel \in Instance /\ newTunnel # None
  BY NewTunnel
<1>2. newTunnel \notin Running /\ newTunnel \notin Held /\ newTunnel \notin Remembered
      /\ ~ Open(newTunnel)
  BY <1>1 DEF Unused
<1> QED
  BY <1>1, <1>2, InPlace DEF Remembered

LEMMA InitInv == Init => IInv
<1> SUFFICES ASSUME Init
             PROVE  OpenInPlace /\ OnePlace /\ Pending
  BY InitType DEF IInv
<1> QED
  BY TunnelAssumption DEF Init, OpenInPlace, OnePlace, Pending, InMap, InResult, Open, Nothing, NoOne

\* Steps that move no tunnel.
LEMMA NothingMoves ==
    ASSUME IInv, UNCHANGED <<tunnels, config, results, fresh>>
    PROVE  OpenInPlace' /\ OnePlace'
BY DEF IInv, OpenInPlace, OnePlace, InMap, InResult, Open

\* Tunnels are taken out of the map and closed.
LEMMA MapShrinks ==
    ASSUME IInv, NEW S \in SUBSET Tag,
           tunnels' = [t \in Tag |-> IF t \in S THEN None ELSE tunnels[t]],
           Close({tunnels[t] : t \in S}), UNCHANGED <<results, fresh>>
    PROVE  OpenInPlace' /\ OnePlace'
<1> USE TunnelAssumption DEF IInv, TypeOK
<1>1. OnePlace'
  BY DEF OnePlace, InMap, InResult
<1>2. ASSUME NEW i \in Instance
      PROVE  Open(i)' <=> (InMap(i) \/ InResult(i) \/ fresh = i)'
  <2>1. CASE \E t \in S : tunnels[t] = i
    <3>1. PICK t \in S : tunnels[t] = i
      BY <2>1
    <3>2. ~ Open(i)'
      BY <3>1 DEF Close, Open
    <3>3. ~ InMap(i)' /\ ~ InResult(i)' /\ fresh' # i
      BY <3>1 DEF OnePlace, InMap, InResult
    <3> QED
      BY <3>2, <3>3
  <2>2. CASE ~ \E t \in S : tunnels[t] = i
    <3>1. Open(i)' <=> Open(i)
      BY <2>2 DEF Close, Open
    <3>2. InMap(i)' <=> InMap(i)
      BY <2>2 DEF InMap
    <3> QED
      BY <3>1, <3>2 DEF OpenInPlace, InResult
  <2> QED
    BY <2>1, <2>2
<1> QED
  BY <1>1, <1>2 DEF OpenInPlace

-----------------------------------------------------------------------------
(* The invariant is inductive.                                              *)

LEMMA ReconcileInv ==
    ASSUME IInv, NEW r \in Reconciler, ReconcileStep(r)
    PROVE  OpenInPlace' /\ OnePlace' /\ Pending'
<1> USE TunnelAssumption DEF objects, health
<1>1. CASE ReadAccounts(r)
  <2>1. OpenInPlace' /\ OnePlace'
    BY <1>1, NothingMoves DEF ReadAccounts
  <2>2. Pending'
    BY <1>1 DEF ReadAccounts, IInv, TypeOK, Pending
  <2> QED
    BY <2>1, <2>2
<1>2. CASE Sync(r)
  <2>1. OpenInPlace' /\ OnePlace'
    BY <1>2, MapShrinks DEF Sync, CloseOutdated, Outdated
  <2>2. Pending'
    BY <1>2 DEF Sync, CloseOutdated, IInv, TypeOK, Pending
  <2> QED
    BY <2>1, <2>2
<1>3. ASSUME NEW t \in Tag, StartTunnel(r, t)
      PROVE  OpenInPlace' /\ OnePlace' /\ Pending'
  <2> DEFINE n == newTunnel
  <2>1. /\ n \in Instance /\ n # None /\ ~ Open(n)
        /\ ~ InMap(n) /\ ~ InResult(n) /\ fresh # n
    BY <1>3, NewIsFree DEF StartTunnel
  <2>2. /\ t \in toStart[r] /\ desired[r][t] # NoConfig /\ results[r][t] = None
        /\ results' = [results EXCEPT ![r][t] = n]
        /\ config' = [config EXCEPT ![n] = desired[r][t]]
        /\ toStart' = [toStart EXCEPT ![r] = @ \ {t}]
        /\ UNCHANGED <<tunnels, pc, desired, stale, staleCfg, checking, fresh>>
    BY <1>3 DEF StartTunnel, OpenWith, IInv, Pending
  <2>3. /\ results'[r][t] = n
        /\ \A q \in Reconciler, u \in Tag : q # r \/ u # t => results'[q][u] = results[q][u]
    BY <2>2 DEF IInv, TypeOK
  <2> HIDE DEF n
  <2>4. OpenInPlace'
    <3>1. ASSUME NEW i \in Instance
          PROVE  Open(i)' <=> (InMap(i) \/ InResult(i) \/ fresh = i)'
      <4>1. CASE i = n
        <5>1. Open(i)'
          BY <2>1, <2>2, <4>1 DEF Open, IInv, TypeOK
        <5>2. InResult(i)'
          BY <2>3, <4>1 DEF InResult
        <5> QED
          BY <5>1, <5>2
      <4>2. CASE i # n
        <5>1. Open(i)' <=> Open(i)
          BY <2>2, <4>2 DEF Open, IInv, TypeOK
        <5>2. InResult(i)' <=> InResult(i)
          BY <2>2, <2>3, <4>2 DEF InResult
        <5> QED
          BY <2>2, <5>1, <5>2 DEF IInv, OpenInPlace, InMap
      <4> QED
        BY <4>1, <4>2
    <3> QED
      BY <3>1 DEF OpenInPlace
  <2>5. OnePlace'
    BY <2>1, <2>2, <2>3 DEF OnePlace, InMap, InResult, IInv
  <2>6. Pending'
    BY <2>2, <2>3 DEF Pending, IInv, TypeOK
  <2> QED
    BY <2>4, <2>5, <2>6
<1>4. ASSUME NEW t \in Tag, Install(r, t)
      PROVE  OpenInPlace' /\ OnePlace' /\ Pending'
  <2>1. PICK n \in Instance :
           /\ results[r][t] = n
           /\ n # None /\ InResult(n) /\ Open(n) /\ ~ InMap(n) /\ fresh # n
           /\ results' = [results EXCEPT ![r][t] = None]
           /\ UNCHANGED <<pc, desired, toStart, stale, staleCfg, checking, fresh>>
    BY <1>4 DEF Install, IInv, TypeOK, OpenInPlace, OnePlace, InMap, InResult
  <2>2. /\ results'[r][t] = None
        /\ \A q \in Reconciler, u \in Tag : q # r \/ u # t => results'[q][u] = results[q][u]
    BY <2>1 DEF IInv, TypeOK
  <2>3. ~ InResult(n)'
    BY <2>1, <2>2 DEF InResult, OnePlace, IInv
  <2>4. \A i \in Instance \ {n} : InResult(i)' <=> InResult(i)
    BY <2>1, <2>2 DEF InResult
  <2>5. Pending'
    BY <2>1, <2>2 DEF Pending, IInv, TypeOK
  <2>6. CASE tunnels[t] = None
    <3>1. tunnels' = [tunnels EXCEPT ![t] = n] /\ config' = config
      BY <1>4, <2>1, <2>6 DEF Install
    <3>2. InMap(n)' /\ \A i \in Instance \ {n} : InMap(i)' <=> InMap(i)
      BY <2>6, <3>1 DEF InMap, IInv, TypeOK
    <3>3. OpenInPlace'
      BY <2>1, <2>4, <3>1, <3>2 DEF OpenInPlace, Open, IInv
    <3>4. OnePlace'
      <4>1. \A u \in Tag : tunnels'[u] = IF u = t THEN n ELSE tunnels[u]
        BY <3>1 DEF IInv, TypeOK
      <4> QED
        BY <2>1, <2>2, <2>3, <4>1 DEF OnePlace, InMap, InResult, IInv
    <3> QED
      BY <2>5, <3>3, <3>4
  <2>7. CASE tunnels[t] # None
    <3>1. Close({n}) /\ tunnels' = tunnels
      BY <1>4, <2>1, <2>7 DEF Install
    <3>2. OpenInPlace'
      BY <2>1, <2>3, <2>4, <3>1 DEF OpenInPlace, Open, Close, InMap, IInv
    <3>3. OnePlace'
      BY <2>1, <2>2, <3>1 DEF OnePlace, InMap, InResult, IInv
    <3> QED
      BY <2>5, <3>2, <3>3
  <2> QED
    BY <2>6, <2>7
<1>5. CASE Return(r)
  <2>1. OpenInPlace' /\ OnePlace'
    BY <1>5, NothingMoves DEF Return
  <2>2. Pending'
    BY <1>5 DEF Return, Finished, Leave, IInv, TypeOK, Pending, Nothing
  <2> QED
    BY <2>1, <2>2
<1> QED
  BY <1>1, <1>2, <1>3, <1>4, <1>5 DEF ReconcileStep

LEMMA HealthInv == IInv /\ HealthStep => OpenInPlace' /\ OnePlace' /\ Pending'
<1> SUFFICES ASSUME IInv, HealthStep
             PROVE  OpenInPlace' /\ OnePlace' /\ Pending'
  OBVIOUS
<1> USE TunnelAssumption DEF objects, reconcile
<1>1. CASE Collect
  <2>1. OpenInPlace' /\ OnePlace'
    BY <1>1, NothingMoves DEF Collect
  <2>2. \A t \in Tag : tunnels[t] # None => config[tunnels[t]] # NoConfig
    BY DEF IInv, TypeOK, OpenInPlace, InMap, Open
  <2>3. Pending'
    BY <1>1, <2>2 DEF Collect, Resting, IInv, TypeOK, Pending
  <2> QED
    BY <2>1, <2>3
<1>2. ASSUME NEW t \in Tag, ProbeSucceeds(t) \/ RebuildFails(t)
      PROVE  OpenInPlace' /\ OnePlace' /\ Pending'
  <2>1. /\ fresh = None
        /\ stale' = [stale EXCEPT ![t] = None]
        /\ staleCfg' = [staleCfg EXCEPT ![t] = NoConfig]
        /\ UNCHANGED <<tunnels, config, reconcile, checking, fresh>>
    BY <1>2 DEF ProbeSucceeds, RebuildFails, Drop
  <2>2. OpenInPlace' /\ OnePlace'
    BY <2>1, NothingMoves
  <2>3. Pending'
    BY <2>1 DEF IInv, TypeOK, Pending
  <2> QED
    BY <2>2, <2>3
<1>3. ASSUME NEW t \in Tag, Rebuild(t)
      PROVE  OpenInPlace' /\ OnePlace' /\ Pending'
  <2>1. PICK n \in Instance :
           /\ n # None /\ ~ Open(n) /\ ~ InMap(n) /\ ~ InResult(n)
           /\ stale[t] # None /\ staleCfg[t] # NoConfig /\ fresh = None
           /\ config' = [config EXCEPT ![n] = staleCfg[t]]
           /\ fresh' = n /\ checking' = t
           /\ UNCHANGED <<tunnels, reconcile, stale, staleCfg>>
    BY <1>3, NewIsFree DEF Rebuild, OpenWith, IInv, Pending
  <2>2. OpenInPlace'
    BY <2>1 DEF IInv, TypeOK, OpenInPlace, Open, InMap, InResult
  <2>3. OnePlace'
    BY <2>1 DEF IInv, OnePlace, InMap, InResult
  <2>4. Pending'
    BY <2>1 DEF IInv, TypeOK, Pending
  <2> QED
    BY <2>2, <2>3, <2>4
<1>4. CASE Replace
  <2>1. PICK n \in Instance, t \in Tag :
           /\ fresh = n /\ checking = t /\ n # None /\ stale[t] # None
           /\ Open(n) /\ ~ InMap(n) /\ ~ InResult(n)
           /\ fresh' = None /\ checking' = None
           /\ Drop(t)
           /\ UNCHANGED <<pc, desired, toStart, results>>
    BY <1>4 DEF Replace, IInv, TypeOK, OpenInPlace, OnePlace, Pending
  <2>2. Pending'
    BY <2>1 DEF Drop, IInv, TypeOK, Pending
  <2>3. CASE tunnels[t] = stale[t]
    <3>1. PICK m \in Instance :
             /\ tunnels[t] = m /\ m # None /\ m # n /\ ~ InResult(m)
             /\ tunnels' = [tunnels EXCEPT ![t] = n]
             /\ Close({m})
      <4>1. /\ tunnels[t] \in Instance /\ tunnels[t] # None /\ tunnels[t] # n
            /\ ~ InResult(tunnels[t])
        BY <2>1, <2>3 DEF IInv, TypeOK, OnePlace, InMap, InResult
      <4>2. tunnels' = [tunnels EXCEPT ![t] = n] /\ Close({tunnels[t]})
        BY <1>4, <2>1, <2>3 DEF Replace
      <4> QED
        BY <4>1, <4>2
    <3>2. \A u \in Tag : tunnels'[u] = IF u = t THEN n ELSE tunnels[u]
      BY <3>1 DEF IInv, TypeOK
    <3>3. OnePlace'
      BY <2>1, <3>1, <3>2 DEF IInv, OnePlace, InMap, InResult
    <3>4. \A i \in Instance : /\ InMap(i)' <=> (i = n \/ (InMap(i) /\ i # m))
                              /\ InResult(i)' <=> InResult(i)
                              /\ Open(i)' <=> (Open(i) /\ i # m)
      <4>1. \A i \in Instance : InMap(i)' <=> (i = n \/ (InMap(i) /\ i # m))
        BY <2>1, <3>1, <3>2 DEF IInv, OnePlace, InMap
      <4>2. \A i \in Instance : InResult(i)' <=> InResult(i)
        BY <2>1 DEF InResult
      <4>3. \A i \in Instance : Open(i)' <=> (Open(i) /\ i # m)
        BY <3>1 DEF Open, Close
      <4> QED
        BY <4>1, <4>2, <4>3
    <3>5. \A i \in Instance : Open(i)' <=> (InMap(i)' \/ InResult(i)')
      BY <2>1, <3>1, <3>4 DEF IInv, OpenInPlace
    <3>6. OpenInPlace'
      BY <2>1, <3>5, TunnelAssumption DEF OpenInPlace
    <3> QED
      BY <2>2, <3>3, <3>6
  <2>4. CASE tunnels[t] # stale[t]
    <3>1. Close({n}) /\ tunnels' = tunnels
      BY <1>4, <2>1, <2>4 DEF Replace
    <3>2. OnePlace'
      BY <2>1, <3>1 DEF IInv, OnePlace, InMap, InResult
    <3>3. OpenInPlace'
      BY <2>1, <3>1 DEF IInv, OpenInPlace, InMap, InResult, Open, Close
    <3> QED
      BY <2>2, <3>2, <3>3
  <2> QED
    BY <2>3, <2>4
<1> QED
  BY <1>1, <1>2, <1>3, <1>4 DEF HealthStep

LEMMA EnvironmentInv == IInv /\ Environment => OpenInPlace' /\ OnePlace' /\ Pending'
<1> SUFFICES ASSUME IInv, Environment
             PROVE  OpenInPlace' /\ OnePlace' /\ Pending'
  OBVIOUS
<1> USE TunnelAssumption DEF objects, reconcile, health, Event
<1>1. ASSUME NEW r \in Reconciler, SyncFails(r)
      PROVE  OpenInPlace' /\ OnePlace' /\ Pending'
  <2>1. OpenInPlace' /\ OnePlace'
    BY <1>1, MapShrinks DEF SyncFails, CloseOutdated, Outdated
  <2>2. Pending'
    BY <1>1 DEF SyncFails, CloseOutdated, Leave, IInv, TypeOK, Pending
  <2> QED
    BY <2>1, <2>2
<1>2. ASSUME NEW r \in Reconciler, NEW t \in Tag, StartFails(r, t)
      PROVE  OpenInPlace' /\ OnePlace' /\ Pending'
  <2>1. OpenInPlace' /\ OnePlace'
    BY <1>2, NothingMoves DEF StartFails
  <2>2. Pending'
    BY <1>2 DEF StartFails, IInv, TypeOK, Pending
  <2> QED
    BY <2>1, <2>2
<1>3. ASSUME NEW t \in Tag, ChangeAccount(t) \/ DialsFail(t) \/ DialSucceeds(t)
      PROVE  OpenInPlace' /\ OnePlace' /\ Pending'
  <2>1. UNCHANGED <<tunnels, config, reconcile, health>>
    BY <1>3 DEF ChangeAccount, DialsFail, DialSucceeds
  <2> QED
    BY <2>1, NothingMoves DEF IInv, Pending
<1>4. ASSUME NEW t \in Tag, StopTunnel(t)
      PROVE  OpenInPlace' /\ OnePlace' /\ Pending'
  <2>1. /\ tunnels' = [u \in Tag |-> IF u \in {t} THEN None ELSE tunnels[u]]
        /\ {tunnels[t]} = {tunnels[u] : u \in {t}}
    <3>1. tunnels' = [tunnels EXCEPT ![t] = None] /\ tunnels \in [Tag -> Instance \cup {None}]
      BY <1>4 DEF StopTunnel, IInv, TypeOK
    <3>2. {tunnels[t]} = {tunnels[u] : u \in {t}}
      OBVIOUS
    <3> QED
      BY <3>1, <3>2
  <2>2. OpenInPlace' /\ OnePlace'
    BY <1>4, <2>1, MapShrinks DEF StopTunnel
  <2>3. Pending'
    BY <1>4 DEF StopTunnel, IInv, Pending
  <2> QED
    BY <2>2, <2>3
<1>5. CASE Stop
  <2>1. tunnels' = [u \in Tag |-> IF u \in Tag THEN None ELSE tunnels[u]]
    BY <1>5 DEF Stop, Nothing
  <2>2. Close({tunnels[u] : u \in Tag})
    BY <1>5 DEF Stop, Running, Close, IInv, TypeOK
  <2>3. OpenInPlace' /\ OnePlace'
    BY <1>5, <2>1, <2>2, MapShrinks DEF Stop
  <2>4. Pending'
    BY <1>5 DEF Stop, IInv, Pending
  <2> QED
    BY <2>3, <2>4
<1> QED
  BY <1>1, <1>2, <1>3, <1>4, <1>5 DEF Environment

LEMMA StepInv == IInv /\ [Next]_vars => IInv'
<1> SUFFICES ASSUME IInv, [Next]_vars
             PROVE  IInv'
  OBVIOUS
<1>1. TypeOK'
  BY StepType DEF IInv
<1>2. CASE UNCHANGED vars
  BY <1>1, <1>2, NothingMoves DEF vars, objects, reconcile, health, IInv, Pending
<1> QED
  BY <1>1, <1>2, ReconcileInv, HealthInv, EnvironmentInv DEF Next, IInv

LEMMA Invariance == Spec => []IInv
BY InitInv, StepInv, PTL DEF Spec

\* No tunnel leaks and none that is in use is closed, whatever overlaps.
THEOREM AlwaysOpenIffHeld == Spec => []OpenIffHeld
<1>1. IInv => OpenIffHeld
  BY InPlace DEF IInv, OpenInPlace, OpenIffHeld
<1> QED
  BY <1>1, Invariance, PTL

-----------------------------------------------------------------------------
(* What a tunnel that is held, or remembered, was built from.               *)

\* A result was started from the snapshot its Reconcile still has.
ResultsFit ==
    \A r \in Reconciler, t \in Tag :
        results[r][t] # None => config[results[r][t]] = desired[r][t]

\* HealthCheck's candidate has the configuration it had when it was collected,
\* unless it has been closed since; the tunnel that may replace it was built from
\* that configuration.
RebuildsFit ==
    /\ \A t \in Tag : stale[t] # None => config[stale[t]] \in {staleCfg[t], NoConfig}
    /\ fresh # None => config[fresh] = staleCfg[checking]

Fit == ResultsFit /\ RebuildsFit

LEMMA InitFit == Init => Fit
BY DEF Init, Fit, ResultsFit, RebuildsFit, Nothing

\* Closing tunnels of the map, or none, breaks no promise about the others.
LEMMA FitAfterClose ==
    ASSUME IInv, Fit, NEW S \in SUBSET Instance,
           \A i \in S : ~ InResult(i) /\ fresh # i,
           config' = [i \in Instance |-> IF i \in S THEN NoConfig ELSE config[i]],
           \A r \in Reconciler, t \in Tag : results[r][t] # None => desired'[r][t] = desired[r][t],
           UNCHANGED <<results, health>>
    PROVE  Fit'
<1> USE TunnelAssumption DEF IInv, TypeOK, Fit, health
<1>1. ResultsFit'
  BY DEF ResultsFit, InResult
<1>2. RebuildsFit'
  BY DEF RebuildsFit
<1> QED
  BY <1>1, <1>2

LEMMA FitUntouched ==
    ASSUME IInv, Fit,
           \A r \in Reconciler, t \in Tag : results[r][t] # None => desired'[r][t] = desired[r][t],
           UNCHANGED <<config, results, health>>
    PROVE  Fit'
BY DEF Fit, ResultsFit, RebuildsFit, health

\* The tunnels of the map are nobody's results.
LEMMA MapIsApart ==
    ASSUME IInv, NEW t \in Tag, tunnels[t] # None
    PROVE  /\ tunnels[t] \in Instance /\ ~ InResult(tunnels[t]) /\ fresh # tunnels[t]
           /\ config[tunnels[t]] # NoConfig
BY TunnelAssumption DEF IInv, TypeOK, OnePlace, OpenInPlace, Open, InMap, InResult

\* CloseOutdated, StopTunnel and Stop take tunnels out of the map and close them.
LEMMA FitAfterShrink ==
    ASSUME IInv, Fit, NEW S \in SUBSET Tag,
           Close({tunnels[t] : t \in S}),
           \A t \in S : tunnels[t] # None,
           \A r \in Reconciler, t \in Tag : results[r][t] # None => desired'[r][t] = desired[r][t],
           UNCHANGED <<results, health>>
    PROVE  Fit'
<1> DEFINE C == {tunnels[t] : t \in S}
<1>1. C \in SUBSET Instance /\ \A i \in C : ~ InResult(i) /\ fresh # i
  BY MapIsApart
<1>2. config' = [i \in Instance |-> IF i \in C THEN NoConfig ELSE config[i]]
  BY DEF Close
<1> HIDE DEF C
<1> QED
  BY <1>1, <1>2, FitAfterClose

LEMMA ReconcileFit ==
    ASSUME IInv, Fit, NEW r \in Reconciler, ReconcileStep(r)
    PROVE  Fit'
<1> USE TunnelAssumption DEF objects
<1>1. CASE ReadAccounts(r)
  <2>1. \A q \in Reconciler, t \in Tag : results[q][t] # None => desired'[q][t] = desired[q][t]
    BY <1>1 DEF ReadAccounts, IInv, TypeOK, Pending
  <2> QED
    BY <1>1, <2>1, FitUntouched DEF ReadAccounts
<1>2. CASE Sync(r)
  <2>1. \A t \in Outdated(r) : tunnels[t] # None
    BY DEF Outdated
  <2> QED
    BY <1>2, <2>1, FitAfterShrink DEF Sync, CloseOutdated, Outdated
<1>3. ASSUME NEW t \in Tag, StartTunnel(r, t)
      PROVE  Fit'
  <2> DEFINE n == newTunnel
  <2>1. /\ n \in Instance /\ n # None /\ ~ InResult(n) /\ fresh # n
        /\ \A u \in Tag : stale[u] # n
    BY <1>3, NewIsFree DEF StartTunnel
  <2>2. /\ results' = [results EXCEPT ![r][t] = n]
        /\ config' = [config EXCEPT ![n] = desired[r][t]]
        /\ UNCHANGED <<desired, health>>
    BY <1>3 DEF StartTunnel, OpenWith
  <2> HIDE DEF n
  <2>3. /\ results'[r][t] = n
        /\ \A q \in Reconciler, u \in Tag : q # r \/ u # t => results'[q][u] = results[q][u]
    BY <2>2 DEF IInv, TypeOK
  <2>4. config'[n] = desired[r][t] /\ \A i \in Instance \ {n} : config'[i] = config[i]
    BY <2>1, <2>2 DEF IInv, TypeOK
  <2>5. ResultsFit'
    BY <2>1, <2>2, <2>3, <2>4 DEF Fit, ResultsFit, InResult, IInv, TypeOK
  <2>6. RebuildsFit'
    BY <2>1, <2>2, <2>4 DEF Fit, RebuildsFit, IInv, TypeOK, health
  <2> QED
    BY <2>5, <2>6 DEF Fit
<1>4. ASSUME NEW t \in Tag, Install(r, t)
      PROVE  Fit'
  <2>1. PICK n \in Instance :
           /\ results[r][t] = n /\ n # None /\ fresh # n
           /\ results' = [results EXCEPT ![r][t] = None]
           /\ config' = config \/ Close({n})
           /\ UNCHANGED <<desired, health>>
    <3>1. /\ results[r][t] \in Instance /\ results[r][t] # None /\ fresh # results[r][t]
          /\ results' = [results EXCEPT ![r][t] = None]
          /\ UNCHANGED <<desired, health>>
      BY <1>4 DEF Install, IInv, TypeOK, OnePlace, InResult
    <3>2. config' = config \/ Close({results[r][t]})
      BY <1>4 DEF Install
    <3> QED
      BY <3>1, <3>2
  <2>2. /\ results'[r][t] = None
        /\ \A q \in Reconciler, u \in Tag : q # r \/ u # t => results'[q][u] = results[q][u]
    BY <2>1 DEF IInv, TypeOK
  <2>3. \A q \in Reconciler, u \in Tag : results'[q][u] # None =>
           results[q][u] = results'[q][u] /\ results[q][u] # n
    BY <2>1, <2>2 DEF IInv, OnePlace
  <2>4. \A i \in Instance : config'[i] = config[i] \/ (i = n /\ config'[i] = NoConfig)
    BY <2>1 DEF Close
  <2>5. ResultsFit'
    BY <2>1, <2>3, <2>4 DEF Fit, ResultsFit, IInv, TypeOK
  <2>6. RebuildsFit'
    BY <2>1, <2>4 DEF Fit, RebuildsFit, IInv, TypeOK, health
  <2> QED
    BY <2>5, <2>6 DEF Fit
<1>5. CASE Return(r)
  <2>1. \A q \in Reconciler, t \in Tag : results[q][t] # None => desired'[q][t] = desired[q][t]
    BY <1>5 DEF Return, Finished, Leave, IInv, TypeOK, Nothing
  <2> QED
    BY <1>5, <2>1, FitUntouched DEF Return
<1> QED
  BY <1>1, <1>2, <1>3, <1>4, <1>5 DEF ReconcileStep

LEMMA HealthFit ==
    ASSUME IInv, Fit, HealthStep
    PROVE  Fit'
<1> USE TunnelAssumption DEF objects, reconcile
<1>1. CASE Collect
  BY <1>1 DEF Collect, Resting, Fit, ResultsFit, RebuildsFit, IInv, TypeOK
<1>2. ASSUME NEW t \in Tag, ProbeSucceeds(t) \/ RebuildFails(t)
      PROVE  Fit'
  <2>1. /\ fresh = None
        /\ stale' = [stale EXCEPT ![t] = None]
        /\ staleCfg' = [staleCfg EXCEPT ![t] = NoConfig]
        /\ UNCHANGED <<config, reconcile, checking, fresh>>
    BY <1>2 DEF ProbeSucceeds, RebuildFails, Drop
  <2> QED
    BY <2>1 DEF Fit, ResultsFit, RebuildsFit, IInv, TypeOK
<1>3. ASSUME NEW t \in Tag, Rebuild(t)
      PROVE  Fit'
  <2>1. PICK n \in Instance :
           /\ n # None /\ ~ InResult(n) /\ \A u \in Tag : stale[u] # n
           /\ config' = [config EXCEPT ![n] = staleCfg[t]]
           /\ fresh' = n /\ checking' = t
           /\ UNCHANGED <<reconcile, stale, staleCfg>>
    BY <1>3, NewIsFree DEF Rebuild, OpenWith
  <2>2. config'[n] = staleCfg[t] /\ \A i \in Instance \ {n} : config'[i] = config[i]
    BY <2>1 DEF IInv, TypeOK
  <2>3. ResultsFit'
    BY <2>1, <2>2 DEF Fit, ResultsFit, InResult, IInv, TypeOK
  <2>4. RebuildsFit'
    BY <2>1, <2>2 DEF Fit, RebuildsFit, IInv, TypeOK
  <2> QED
    BY <2>3, <2>4 DEF Fit
<1>4. CASE Replace
  <2>1. PICK n \in Instance, t \in Tag :
           /\ fresh = n /\ checking = t /\ n # None /\ stale[t] # None /\ ~ InResult(n)
           /\ fresh' = None /\ Drop(t)
           /\ UNCHANGED <<desired, results>>
    BY <1>4 DEF Replace, IInv, TypeOK, OnePlace, Pending
  <2>2. PICK m \in Instance : ~ InResult(m) /\ Close({m})
    <3>1. CASE tunnels[t] = stale[t]
      <4>1. tunnels[t] \in Instance /\ ~ InResult(tunnels[t])
        BY <2>1, <3>1, MapIsApart
      <4>2. Close({tunnels[t]})
        BY <1>4, <2>1, <3>1 DEF Replace
      <4> QED
        BY <4>1, <4>2
    <3>2. CASE tunnels[t] # stale[t]
      BY <1>4, <2>1, <3>2 DEF Replace
    <3> QED
      BY <3>1, <3>2
  <2>3. \A i \in Instance : config'[i] = IF i = m THEN NoConfig ELSE config[i]
    BY <2>2 DEF Close
  <2>4. ResultsFit'
    BY <2>1, <2>2, <2>3 DEF Fit, ResultsFit, InResult, IInv, TypeOK
  <2>5. RebuildsFit'
    BY <2>1, <2>3 DEF Fit, RebuildsFit, Drop, IInv, TypeOK
  <2> QED
    BY <2>4, <2>5 DEF Fit
<1> QED
  BY <1>1, <1>2, <1>3, <1>4 DEF HealthStep

LEMMA EnvironmentFit ==
    ASSUME IInv, Fit, Environment
    PROVE  Fit'
<1> USE TunnelAssumption DEF objects, reconcile, Event
<1>1. ASSUME NEW r \in Reconciler, SyncFails(r)
      PROVE  Fit'
  <2>1. \A q \in Reconciler, t \in Tag : results[q][t] # None => desired'[q][t] = desired[q][t]
    BY <1>1 DEF SyncFails, CloseOutdated, Leave, IInv, TypeOK, Pending
  <2>2. \A t \in Outdated(r) : tunnels[t] # None
    BY DEF Outdated
  <2> QED
    BY <1>1, <2>1, <2>2, FitAfterShrink DEF SyncFails, CloseOutdated, Outdated
<1>2. ASSUME NEW r \in Reconciler, NEW t \in Tag, StartFails(r, t)
      PROVE  Fit'
  BY <1>2, FitUntouched DEF StartFails
<1>3. ASSUME NEW t \in Tag, ChangeAccount(t) \/ DialsFail(t) \/ DialSucceeds(t)
      PROVE  Fit'
  BY <1>3, FitUntouched DEF ChangeAccount, DialsFail, DialSucceeds
<1>4. ASSUME NEW t \in Tag, StopTunnel(t)
      PROVE  Fit'
  <2> DEFINE S == {t}
  <2>1. S \in SUBSET Tag /\ {tunnels[t]} = {tunnels[u] : u \in S}
    OBVIOUS
  <2>2. \A u \in S : tunnels[u] # None
    BY <1>4 DEF StopTunnel
  <2>3. Close({tunnels[u] : u \in S}) /\ UNCHANGED <<desired, results, health>>
    BY <1>4, <2>1 DEF StopTunnel
  <2> HIDE DEF S
  <2> QED
    BY <2>1, <2>2, <2>3, FitAfterShrink
<1>5. CASE Stop
  <2> DEFINE S == {t \in Tag : tunnels[t] # None}
  <2>1. S \in SUBSET Tag /\ Running = {tunnels[t] : t \in S}
    BY DEF Running
  <2>2. \A t \in S : tunnels[t] # None
    OBVIOUS
  <2>3. Close({tunnels[t] : t \in S}) /\ UNCHANGED <<desired, results, health>>
    BY <1>5, <2>1 DEF Stop
  <2> HIDE DEF S
  <2> QED
    BY <2>1, <2>2, <2>3, FitAfterShrink
<1> QED
  BY <1>1, <1>2, <1>3, <1>4, <1>5 DEF Environment

LEMMA StepFit == IInv /\ Fit /\ [Next]_vars => Fit'
<1> SUFFICES ASSUME IInv, Fit, [Next]_vars
             PROVE  Fit'
  OBVIOUS
<1>1. CASE UNCHANGED vars
  BY <1>1, FitUntouched DEF vars, objects, reconcile
<1> QED
  BY <1>1, ReconcileFit, HealthFit, EnvironmentFit DEF Next

-----------------------------------------------------------------------------
(* A Reconcile that nothing overlaps.                                       *)

\* The tag has the tunnel the account calls for, or r still owes it one.
Met(r, t) ==
    IF tunnels[t] = None
    THEN want[t] # NoConfig => t \in toStart[r] \/ results[r][t] # None
    ELSE config[tunnels[t]] = want[t]

\* ReconcileExact, while the Reconcile is under way.
OnCourse ==
    \A r \in Reconciler : exact[r] =>
        /\ pc[r] # "idle" /\ \A q \in Others(r) : pc[q] = "idle"
        /\ desired[r] = want
        /\ pc[r] = "starting" => \A t \in Tag : Met(r, t)

XInv == IInv /\ Fit /\ OnCourse

LEMMA InitCourse == Init => OnCourse
BY DEF Init, OnCourse

LEMMA OnlyOneExact ==
    ASSUME IInv, OnCourse, NEW r \in Reconciler, NEW q \in Reconciler, pc[r] # "idle", exact[q]
    PROVE  q = r
BY DEF OnCourse, Others

\* After the start of tunnels: a tag without a tunnel that is wanted is awaited.
LEMMA SyncMeets ==
    ASSUME XInv, NEW r \in Reconciler, Sync(r), exact[r]
    PROVE  OnCourse'
<1> USE TunnelAssumption DEF XInv, IInv, TypeOK
<1>1. /\ pc' = [pc EXCEPT ![r] = "starting"]
      /\ toStart' = [toStart EXCEPT ![r] = {t \in Tag : desired[r][t] # NoConfig /\ tunnels'[t] = None}]
      /\ UNCHANGED <<want, desired, results, exact>>
  BY DEF Sync
<1>2. desired[r] = want /\ \A q \in Others(r) : pc[q] = "idle" /\ ~ exact[q]
  BY DEF OnCourse, Others
<1>3. ASSUME NEW t \in Tag
      PROVE  Met(r, t)'
  <2>1. CASE tunnels'[t] = None
    BY <1>1, <1>2, <2>1 DEF Met
  <2>2. CASE tunnels'[t] # None
    <3>1. t \notin Outdated(r) /\ tunnels'[t] = tunnels[t]
      BY <2>2 DEF Sync, CloseOutdated
    <3>2. config[tunnels[t]] = want[t]
      BY <1>2, <2>2, <3>1 DEF Outdated
    <3>3. tunnels[t] \in Instance /\ \A u \in Outdated(r) : tunnels[u] # tunnels[t]
      BY <2>2, <3>1 DEF OnePlace, Outdated
    <3>4. config'[tunnels[t]] = config[tunnels[t]]
      BY <3>3 DEF Sync, CloseOutdated, Close
    <3> QED
      BY <1>1, <2>2, <3>1, <3>2, <3>4 DEF Met
  <2> QED
    BY <2>1, <2>2
<1> QED
  BY <1>1, <1>2, <1>3 DEF OnCourse, Others

LEMMA StartMeets ==
    ASSUME XInv, NEW r \in Reconciler, NEW t \in Tag, StartTunnel(r, t), exact[r]
    PROVE  OnCourse'
<1> USE TunnelAssumption DEF XInv, IInv, TypeOK
<1> DEFINE n == newTunnel
<1>1. n \in Instance /\ n # None /\ ~ InMap(n)
  BY NewIsFree DEF StartTunnel
<1>2. /\ t \in toStart[r]
      /\ results' = [results EXCEPT ![r][t] = n]
      /\ toStart' = [toStart EXCEPT ![r] = @ \ {t}]
      /\ config' = [config EXCEPT ![n] = desired[r][t]]
      /\ UNCHANGED <<want, tunnels, pc, desired, exact>>
  BY DEF StartTunnel, OpenWith
<1> HIDE DEF n
<1>3. desired[r] = want /\ pc[r] = "starting" /\ \A q \in Others(r) : pc[q] = "idle" /\ ~ exact[q]
  BY <1>2 DEF OnCourse, Others, Pending
<1>4. ASSUME NEW u \in Tag
      PROVE  Met(r, u)'
  <2>1. Met(r, u)
    BY <1>3 DEF OnCourse
  <2>2. tunnels[u] # None => config'[tunnels[u]] = config[tunnels[u]]
    BY <1>1, <1>2 DEF InMap
  <2>3. u \in toStart[r] \/ results[r][u] # None => u \in toStart'[r] \/ results'[r][u] # None
    BY <1>1, <1>2
  <2> QED
    BY <1>2, <2>1, <2>2, <2>3 DEF Met
<1> QED
  BY <1>2, <1>3, <1>4 DEF OnCourse, Others

LEMMA InstallMeets ==
    ASSUME XInv, NEW r \in Reconciler, NEW t \in Tag, Install(r, t), exact[r]
    PROVE  OnCourse'
<1> USE TunnelAssumption DEF XInv, IInv, TypeOK
<1>1. /\ results[r][t] # None
      /\ results' = [results EXCEPT ![r][t] = None]
      /\ UNCHANGED <<want, pc, desired, toStart, exact>>
  BY DEF Install
<1>2. desired[r] = want /\ pc[r] = "starting" /\ \A q \in Others(r) : pc[q] = "idle" /\ ~ exact[q]
  BY <1>1 DEF OnCourse, Others, Pending
<1>3. config[results[r][t]] = want[t] /\ results[r][t] \in Instance
  BY <1>1, <1>2 DEF Fit, ResultsFit
<1>4. ASSUME NEW u \in Tag
      PROVE  Met(r, u)'
  <2>1. Met(r, u)
    BY <1>2 DEF OnCourse
  <2>2. CASE tunnels[t] = None
    <3>1. tunnels' = [tunnels EXCEPT ![t] = results[r][t]] /\ config' = config
      BY <2>2 DEF Install
    <3>2. CASE u = t
      BY <1>1, <1>3, <3>1, <3>2 DEF Met
    <3>3. CASE u # t
      BY <1>1, <2>1, <3>1, <3>3 DEF Met
    <3> QED
      BY <3>2, <3>3
  <2>3. CASE tunnels[t] # None
    <3>1. Close({results[r][t]}) /\ tunnels' = tunnels
      BY <2>3 DEF Install
    <3>2. tunnels[u] # None => config'[tunnels[u]] = config[tunnels[u]]
      BY <3>1 DEF Close, OnePlace
    <3>3. u # t => results'[r][u] = results[r][u]
      BY <1>1
    <3> QED
      BY <1>1, <2>1, <2>3, <3>1, <3>2, <3>3 DEF Met
  <2> QED
    BY <2>2, <2>3
<1> QED
  BY <1>1, <1>2, <1>4 DEF OnCourse, Others

LEMMA ReconcileCourse ==
    ASSUME XInv, NEW r \in Reconciler, ReconcileStep(r)
    PROVE  OnCourse'
<1> USE TunnelAssumption DEF XInv, IInv, TypeOK
<1>1. CASE ReadAccounts(r)
  BY <1>1 DEF ReadAccounts, OnCourse, Others
<1>2. CASE Return(r)
  <2>1. pc[r] # "idle"
    BY <1>2 DEF Return, Finished
  <2>2. \A q \in Reconciler : ~ exact'[q]
    BY <1>2, <2>1, OnlyOneExact DEF Return, Leave
  <2> QED
    BY <2>2 DEF OnCourse
<1>3. ASSUME Sync(r) \/ \E t \in Tag : StartTunnel(r, t) \/ Install(r, t)
      PROVE  OnCourse'
  <2>1. pc[r] # "idle" /\ exact' = exact
    BY <1>3 DEF Sync, CloseOutdated, StartTunnel, Install, Pending
  <2>2. CASE exact[r]
    BY <1>3, <2>2, SyncMeets, StartMeets, InstallMeets
  <2>3. CASE ~ exact[r]
    BY <2>1, <2>3, OnlyOneExact DEF OnCourse
  <2> QED
    BY <2>2, <2>3
<1> QED
  BY <1>1, <1>2, <1>3 DEF ReconcileStep

\* A step of HealthCheck keeps the configuration of every tag that has a tunnel.
LEMMA HealthKeepsConfigs ==
    ASSUME IInv, Fit, HealthStep, NEW t \in Tag
    PROVE  /\ tunnels'[t] = None <=> tunnels[t] = None
           /\ tunnels[t] # None => config'[tunnels'[t]] = config[tunnels[t]]
<1> USE TunnelAssumption DEF IInv, TypeOK, objects
<1>1. CASE Collect \/ \E u \in Tag : ProbeSucceeds(u) \/ RebuildFails(u)
  BY <1>1 DEF Collect, ProbeSucceeds, RebuildFails
<1>2. ASSUME NEW u \in Tag, Rebuild(u)
      PROVE  /\ tunnels'[t] = None <=> tunnels[t] = None
             /\ tunnels[t] # None => config'[tunnels'[t]] = config[tunnels[t]]
  <2>1. newTunnel \in Instance /\ ~ InMap(newTunnel)
    BY <1>2, NewIsFree DEF Rebuild
  <2> QED
    BY <1>2, <2>1 DEF Rebuild, OpenWith, InMap
<1>3. CASE Replace
  <2>1. PICK n \in Instance, u \in Tag :
           fresh = n /\ checking = u /\ n # None /\ ~ InMap(n) /\ stale[u] # None
    BY <1>3 DEF Replace, OnePlace, Pending
  <2>2. CASE tunnels[u] = stale[u]
    <3>1. tunnels' = [tunnels EXCEPT ![u] = n] /\ Close({tunnels[u]})
      BY <1>3, <2>1, <2>2 DEF Replace
    <3>2. config'[n] = config[tunnels[u]]
      <4>1. n # tunnels[u] /\ config'[n] = config[n]
        BY <2>1, <3>1 DEF Close, InMap
      <4>2. config[n] = staleCfg[u]
        BY <2>1 DEF Fit, RebuildsFit
      <4>3. config[tunnels[u]] = staleCfg[u]
        BY <2>1, <2>2, MapIsApart DEF Fit, RebuildsFit
      <4> QED
        BY <4>1, <4>2, <4>3
    <3>3. CASE t = u
      BY <2>1, <2>2, <3>1, <3>2, <3>3
    <3>4. CASE t # u
      <4>1. tunnels'[t] = tunnels[t]
        BY <3>1, <3>4
      <4>2. tunnels[t] # None => tunnels[t] \in Instance /\ tunnels[t] # tunnels[u]
        BY <3>4 DEF OnePlace
      <4> QED
        BY <3>1, <4>1, <4>2 DEF Close
    <3> QED
      BY <3>3, <3>4
  <2>3. CASE tunnels[u] # stale[u]
    <3>1. Close({n}) /\ tunnels' = tunnels
      BY <1>3, <2>1, <2>3 DEF Replace
    <3> QED
      BY <2>1, <3>1 DEF Close, InMap
  <2> QED
    BY <2>2, <2>3
<1> QED
  BY <1>1, <1>2, <1>3 DEF HealthStep

LEMMA HealthCourse == XInv /\ HealthStep => OnCourse'
<1> SUFFICES ASSUME XInv, HealthStep
             PROVE  OnCourse'
  OBVIOUS
<1>1. UNCHANGED <<want, reconcile, exact>>
  BY DEF HealthStep, Collect, ProbeSucceeds, RebuildFails, Rebuild, Replace
<1>2. ASSUME NEW r \in Reconciler, NEW t \in Tag, Met(r, t)
      PROVE  Met(r, t)'
  BY <1>1, <1>2, HealthKeepsConfigs DEF XInv, Met, reconcile
<1> QED
  BY <1>1, <1>2 DEF XInv, OnCourse, Others, reconcile

LEMMA EnvironmentCourse == XInv /\ Environment => OnCourse'
<1> SUFFICES ASSUME XInv, Environment
             PROVE  OnCourse'
  OBVIOUS
<1> USE DEF XInv, IInv, TypeOK
<1>1. ASSUME NEW r \in Reconciler, SyncFails(r) \/ \E t \in Tag : StartFails(r, t)
      PROVE  OnCourse'
  <2>1. pc[r] # "idle" /\ exact' = [exact EXCEPT ![r] = FALSE]
    BY <1>1 DEF SyncFails, CloseOutdated, StartFails, Leave, Pending
  <2>2. \A q \in Reconciler : ~ exact'[q]
    BY <2>1, OnlyOneExact
  <2> QED
    BY <2>2 DEF OnCourse
<1>2. ASSUME NEW t \in Tag, DialsFail(t) \/ DialSucceeds(t)
      PROVE  OnCourse'
  BY <1>2 DEF DialsFail, DialSucceeds, OnCourse, Others, Met, reconcile
<1>3. CASE Stop \/ \E t \in Tag : ChangeAccount(t) \/ StopTunnel(t)
  <2>1. \A q \in Reconciler : ~ exact'[q]
    BY <1>3 DEF Stop, ChangeAccount, StopTunnel, Event
  <2> QED
    BY <2>1 DEF OnCourse
<1> QED
  BY <1>1, <1>2, <1>3 DEF Environment

LEMMA ExactInvariance == Spec => []XInv
<1>1. Init => XInv
  BY InitInv, InitFit, InitCourse DEF XInv
<1>2. XInv /\ [Next]_vars => XInv'
  <2> SUFFICES ASSUME XInv, [Next]_vars
               PROVE  XInv'
    OBVIOUS
  <2>1. IInv' /\ Fit'
    BY StepInv, StepFit DEF XInv
  <2>2. CASE UNCHANGED vars
    BY <2>1, <2>2 DEF XInv, OnCourse, Others, Met, vars, objects, reconcile
  <2> QED
    BY <2>1, <2>2, ReconcileCourse, HealthCourse, EnvironmentCourse DEF Next, XInv
<1> QED
  BY <1>1, <1>2, PTL DEF Spec

\* A Reconcile that read the accounts while no other one was under way, and during
\* which nothing but HealthCheck moved and every tunnel started, leaves exactly the
\* tunnels the accounts call for, each with the account's configuration.
THEOREM AlwaysReconcileExact == Spec => []ReconcileExact
<1>1. XInv => ReconcileExact
  <2> SUFFICES ASSUME XInv, NEW r \in Reconciler, Finished(r), exact[r], NEW t \in Tag
               PROVE  want[t] = IF tunnels[t] = None THEN NoConfig ELSE config[tunnels[t]]
    BY DEF ReconcileExact, Aligned
  <2>1. Met(r, t)
    BY DEF XInv, OnCourse, Finished
  <2> QED
    BY <2>1 DEF Met, Finished, Nothing
<1> QED
  BY <1>1, ExactInvariance, PTL

\* A tag gets a tunnel only from a Reconcile whose snapshot held the account active
\* with the very configuration the tunnel has; HealthCheck replaces a tunnel only
\* by one of the same configuration.
THEOREM RestartsAlwaysJustified == Spec => RestartsJustified
<1> DEFINE Justified(t) ==
      tunnels'[t] \notin {tunnels[t], None} =>
          IF tunnels[t] = None
          THEN \E r \in Reconciler : desired[r][t] = config'[tunnels'[t]]
          ELSE config'[tunnels'[t]] = config[tunnels[t]]
<1>1. ASSUME IInv, Fit, [Next]_vars, NEW t \in Tag
      PROVE  Justified(t)
  <2> USE <1>1, TunnelAssumption DEF IInv, TypeOK, objects
  <2>1. ASSUME NEW r \in Reconciler, ReconcileStep(r)
        PROVE  Justified(t)
    <3>1. CASE ReadAccounts(r) \/ Return(r) \/ \E u \in Tag : StartTunnel(r, u)
      BY <3>1 DEF ReadAccounts, Return, StartTunnel
    <3>2. CASE Sync(r)
      BY <3>2 DEF Sync, CloseOutdated
    <3>3. ASSUME NEW u \in Tag, Install(r, u)
          PROVE  Justified(t)
      <4>1. CASE tunnels[u] = None
        <5>1. tunnels' = [tunnels EXCEPT ![u] = results[r][u]] /\ config' = config
          BY <3>3, <4>1 DEF Install
        <5>2. results[r][u] # None
          BY <3>3 DEF Install
        <5>3. config[results[r][u]] = desired[r][u]
          BY <5>2 DEF Fit, ResultsFit
        <5> QED
          BY <4>1, <5>1, <5>3
      <4>2. CASE tunnels[u] # None
        BY <3>3, <4>2 DEF Install
      <4> QED
        BY <4>1, <4>2
    <3> QED
      BY <2>1, <3>1, <3>2, <3>3 DEF ReconcileStep
  <2>2. CASE HealthStep
    <3>1. /\ tunnels'[t] = None <=> tunnels[t] = None
          /\ tunnels[t] # None => config'[tunnels'[t]] = config[tunnels[t]]
      BY <2>2, HealthKeepsConfigs
    <3> QED
      BY <3>1
  <2>3. CASE Environment
    <3>1. ASSUME NEW r \in Reconciler, SyncFails(r)
          PROVE  Justified(t)
      BY <3>1 DEF SyncFails, CloseOutdated
    <3>2. ASSUME NEW r \in Reconciler, NEW u \in Tag, StartFails(r, u)
          PROVE  Justified(t)
      BY <3>2 DEF StartFails
    <3>3. ASSUME NEW u \in Tag,
                 ChangeAccount(u) \/ StopTunnel(u) \/ DialsFail(u) \/ DialSucceeds(u)
          PROVE  Justified(t)
      BY <3>3 DEF ChangeAccount, StopTunnel, DialsFail, DialSucceeds
    <3>4. CASE Stop
      BY <3>4 DEF Stop, Nothing
    <3> QED
      BY <2>3, <3>1, <3>2, <3>3, <3>4 DEF Environment
  <2>4. CASE UNCHANGED vars
    BY <2>4 DEF vars
  <2> QED
    BY <2>1, <2>2, <2>3, <2>4 DEF Next
<1>2. XInv /\ [Next]_vars => [\A t \in Tag : Justified(t)]_vars
  BY <1>1 DEF XInv
<1> QED
  BY <1>2, ExactInvariance, PTL DEF Spec, RestartsJustified
=============================================================================
