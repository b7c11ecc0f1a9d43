----------------------------- MODULE SlotStore -----------------------------
(***************************************************************************)
(* The rows of the tables warp_accounts and proxy_slots, and the effect of *)
(* every SQL statement of backend/internal/db/db.go that writes a row of   *)
(* proxy_slots, as an operator from a row to a row.  Slots are numbered in *)
(* username order, the order in which ListProxySlots returns them.         *)
(*                                                                         *)
(* An account row keeps what the binding code tells apart: its status, its *)
(* last public IP and whether its last measurements pass the quality       *)
(* thresholds.  A slot row keeps every column but the credentials and the  *)
(* time stamps; of last_error only "empty or not" is kept.  The failure    *)
(* counters are compared with zero and with their threshold only, so they  *)
(* saturate at the threshold: that is exact, not a bound of the model.     *)
(***************************************************************************)
EXTENDS Integers

CONSTANTS Account,     \* every account that may ever exist
          IP,          \* public egress addresses
          NoAccount,   \* account_id IS NULL
          NoIP,        \* an empty address
          SlotCount,   \* rows of proxy_slots
          RebindAfter, \* slotProbeRebindAfter
          DriftAfter   \* slotIPDriftRebindAfter

ASSUME StoreAssumption ==
    /\ NoAccount \notin Account
    /\ NoIP \notin IP
    /\ SlotCount \in Nat \ {0}
    /\ RebindAfter \in Nat \ {0}
    /\ DriftAfter \in Nat \ {0}

Slot == 1..SlotCount

AccountRow == [status : {"absent", "active", "disabled", "error"},
               ip     : IP \cup {NoIP},
               good   : BOOLEAN]

SlotRow == [status  : {"active", "disabled"},
            account : Account \cup {NoAccount},
            pin     : IP \cup {NoIP},
            probe   : 0..RebindAfter,
            drift   : 0..DriftAfter,
            err     : BOOLEAN]

AbsentAccount == [status |-> "absent", ip |-> NoIP, good |-> FALSE]
NewAccount    == [status |-> "active", ip |-> NoIP, good |-> FALSE]

\* A slot never created yet behaves as a disabled one: no pass visits it, and
\* EnsureProxySlots turns both into the same active, unbound row.
EmptySlot == [status |-> "disabled", account |-> NoAccount, pin |-> NoIP,
              probe |-> 0, drift |-> 0, err |-> FALSE]

-----------------------------------------------------------------------------
(* The statements.                                                          *)

AssignProxySlotAccount(row, a, ip) ==
    [row EXCEPT !.account = a, !.pin = ip, !.probe = 0, !.drift = 0, !.err = FALSE]

\* UnassignProxySlot, and the slot half of DeleteAccount: both reset the whole
\* binding and leave a message.
UnassignProxySlot(row) ==
    [row EXCEPT !.account = NoAccount, !.pin = NoIP, !.probe = 0, !.drift = 0, !.err = TRUE]

ClearProxySlotError(row) == [row EXCEPT !.probe = 0, !.drift = 0, !.err = FALSE]

MarkProxySlotError(row) == [row EXCEPT !.err = TRUE]

SetProxySlotPinnedIP(row, ip) == [row EXCEPT !.pin = ip, !.drift = 0]

MarkProxySlotIPDrift(row) ==
    [row EXCEPT !.drift = IF @ < DriftAfter THEN @ + 1 ELSE @, !.err = TRUE]

MarkProxySlotProbeFailure(row) ==
    [row EXCEPT !.probe = IF @ < RebindAfter THEN @ + 1 ELSE @, !.err = TRUE]

\* EnsureProxySlots on the slot in position s for a target of n slots.
EnsureProxySlot(row, s, n) ==
    IF s <= n
    THEN IF row.status = "active" THEN row
         ELSE [row EXCEPT !.status = "active", !.err = FALSE]
    ELSE IF row.status = "disabled" THEN row ELSE EmptySlot

\* Mutant: only the account's row is deleted.
FreeSlotsOf_Forgotten(a, rows) == rows

\* DeleteAccount frees every slot bound to the account.
FreeSlotsOf(a, rows) ==
    [s \in Slot |-> IF rows[s].account = a THEN UnassignProxySlot(rows[s]) ELSE rows[s]]

-----------------------------------------------------------------------------
(* The predicates of scheduler.go on rows.                                  *)

accountUsable(acct) ==
    /\ acct.status = "active"
    /\ acct.ip # NoIP
    /\ acct.good

\* The counters have reached a threshold: the binding may be given up.
Failing(row) == row.probe >= RebindAfter \/ row.drift >= DriftAfter

slotEffectiveIP(row, a, accts) ==
    IF row.pin # NoIP THEN row.pin
    ELSE IF a # NoAccount THEN accts[a].ip
    ELSE NoIP
=============================================================================
