---------------------------- MODULE OrderedPipe ----------------------------
(***************************************************************************)
(* What a relay direction owes its client: the bytes read upstream reach   *)
(* the client in order, none missing and none twice, until the client's    *)
(* connection breaks; the direction is closed only when every byte it read *)
(* is out or the connection is broken, and then it stays silent.           *)
(* The i-th byte of the stream is the number i.                            *)
(***************************************************************************)
EXTENDS Naturals, Sequences

VARIABLES taken,   \* how many bytes were read upstream
          out,     \* the bytes the client's connection accepted
          broken,  \* that connection failed
          closed   \* the direction is over

vars == <<taken, out, broken, closed>>

Init ==
    /\ taken = 0
    /\ out = <<>>
    /\ broken = FALSE
    /\ closed = FALSE

Take ==
    /\ ~ closed
    /\ taken' \in Nat
    /\ taken' > taken
    /\ UNCHANGED <<out, broken, closed>>

Deliver ==
    /\ ~ broken /\ ~ closed
    /\ \E n \in (Len(out) + 1) .. taken : out' = [i \in 1 .. n |-> i]
    /\ UNCHANGED <<taken, broken, closed>>

Break ==
    /\ ~ broken /\ ~ closed
    /\ broken' = TRUE
    /\ UNCHANGED <<taken, out, closed>>

Close ==
    /\ ~ closed
    /\ broken \/ Len(out) = taken
    /\ closed' = TRUE
    /\ UNCHANGED <<taken, out, broken>>

Next == Take \/ Deliver \/ Break \/ Close

Spec == Init /\ [][Next]_vars
=============================================================================
