----------------------------- MODULE MCAccounts -----------------------------
(***************************************************************************)
(* AccountCare for TLC: one slot and two accounts, besides one that the    *)
(* operator has disabled.  Or two slots and three accounts, when the panel *)
(* has asked for all the tests it will.  Which account and which address   *)
(* the first slot has does not matter: a1 and i1.                          *)
(***************************************************************************)
EXTENDS AccountCare

CONSTANTS a1, a2, i1

MCInit ==
    /\ \/ /\ Pool({a1, a2})
          /\ slots = [s \in Slot |-> IF s = 1 THEN BoundSlot(a1) ELSE EmptySlot]
          /\ tests = 0
       \/ /\ Pool(Account)
          /\ slots \in [Slot -> {BoundSlot(a) : a \in Account}]
          /\ slots[1].account = a1
          /\ \A s, t \in Slot : s # t => slots[s].pin # slots[t].pin
          /\ tests = MaxTests
    /\ world[a1].ip = i1
    /\ events = 0

MCSpec == MCInit /\ [][Next]_vars /\ Fairness
=============================================================================
