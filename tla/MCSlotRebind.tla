---------------------------- MODULE MCSlotRebind ----------------------------
(***************************************************************************)
(* Instances of SlotRebind for TLC.  A behaviour starts from the tables as *)
(* a running installation may leave them on disk: every account has been   *)
(* tested or is yet to be registered, a slot may share its account or its  *)
(* pin with another (a pass cut short by a crash), a counter is zero or at *)
(* its threshold, and every tunnel is up until SetTunnels says otherwise.  *)
(***************************************************************************)
EXTENDS SlotRebind, TLC

\* TLC enumerates these rows instead of all of AccountRow and SlotRow.
PersistedAccount == [status : {"active"}, ip : IP, good : BOOLEAN] \cup {AbsentAccount}

PersistedSlot ==
    {row \in [status : {"active"}, account : Account \cup {NoAccount}, pin : IP \cup {NoIP},
              probe : {0, RebindAfter}, drift : {0}, err : BOOLEAN] :
        /\ row.err = (row.probe > 0)
        /\ (row.account = NoAccount) = (row.pin = NoIP)
        /\ row.account = NoAccount => row.probe = 0}

\* n slots are in use, the others have never been.  Which account and which
\* address the first slot has does not matter.
Installation(n) ==
    /\ accounts \in [Account -> PersistedAccount]
    /\ \E rows \in [1 .. n -> PersistedSlot] :
          /\ rows[1].account \in {NoAccount, CHOOSE a \in Account : TRUE}
          /\ rows[1].pin \in {NoIP, CHOOSE i \in IP : TRUE}
          /\ slots = [s \in Slot |-> IF s <= n THEN rows[s] ELSE EmptySlot]
    /\ running = {a \in Account : accounts[a].status = "active"}
    /\ target = n
    /\ Init

MCInit == Installation(SlotCount)

MCSpec == MCInit /\ [][Next]_vars
MCFairSpec == MCSpec /\ \A w \in Worker : WF_vars(PassStep(w))

\* All slots in use and no events left, or one slot less and all the events.
TwoSizesInit ==
    \/ Installation(SlotCount) /\ events = MaxEvents
    \/ Installation(SlotCount - 1) /\ events = 0

TwoSizesSpec == TwoSizesInit /\ [][Next]_vars

\* Nothing wrong on disk: bindings and addresses are unique.
SoundInit == MCInit /\ AccountsDistinct /\ EgressesDistinct

SoundSpec == SoundInit /\ [][Next]_vars

Symmetry == Permutations(Account) \cup Permutations(IP)
=============================================================================
