------------------------------ MODULE Traffic ------------------------------
(***************************************************************************)
(* The traffic accounting of backend/internal/scheduler/scheduler.go:      *)
(* trafficLoop reads the byte counters of every tunnel every two seconds,  *)
(* adds what they have grown by to the account and to the address, and     *)
(* every 15 seconds stores the throughput of the whole pool as a sample.   *)
(* A tunnel that is started again begins at zero.                          *)
(*                                                                         *)
(* Only one direction is counted, and speeds are kept as the bytes they    *)
(* are computed from.  The maps of the loop are lost with the process, the *)
(* tables are not.                                                         *)
(***************************************************************************)
EXTENDS Integers, FiniteSetsExt

CONSTANTS Tag,       \* accounts
          IP,        \* public addresses
          MaxBytes,  \* bound on the bytes carried
          MaxEvents  \* bound on starts, stops, restarts and new addresses

None == -1           \* no counter, no entry

VARIABLES
    counter,   \* bytes of each running tunnel since it was started
    address,   \* last_public_ip of each account
    traffic,   \* traffic_up of each account
    pool,      \* ip_pool: total and current speed of each address
    samples,   \* the last row of traffic_samples
    lastTag, lastIP, lastTotal,   \* what the loop remembers
    since,     \* history: bytes of each account since the last round
    whole,     \* history: accounts whose tunnel has run since then
    passed,    \* history: bytes of all accounts since the last sample
    budget

tables == <<traffic, pool, samples>>
loop == <<lastTag, lastIP, lastTotal>>
history == <<since, whole, passed>>
vars == <<counter, address, tables, loop, history, budget>>

Forgotten ==
    /\ lastTag' = [t \in Tag |-> None]
    /\ lastIP' = [i \in IP |-> None]
    /\ lastTotal' = None

Init ==
    /\ counter = [t \in Tag |-> 0]
    /\ address \in [Tag -> IP]
    /\ traffic = [t \in Tag |-> 0]
    /\ pool = [i \in IP |-> [total |-> 0, current |-> 0]]
    /\ samples = None
    /\ lastTag = [t \in Tag |-> None] /\ lastIP = [i \in IP |-> None] /\ lastTotal = None
    /\ since = [t \in Tag |-> 0] /\ whole = {} /\ passed = 0
    /\ budget = [bytes |-> MaxBytes, events |-> MaxEvents]

-----------------------------------------------------------------------------
(* The tunnels and the accounts.                                            *)

Carry(t) ==
    /\ counter[t] # None
    /\ budget.bytes > 0
    /\ counter' = [counter EXCEPT ![t] = @ + 1]
    /\ since' = [since EXCEPT ![t] = @ + 1]
    /\ passed' = passed + 1
    /\ budget' = [budget EXCEPT !.bytes = @ - 1]
    /\ UNCHANGED <<address, tables, loop, whole>>

Event == budget.events > 0 /\ budget' = [budget EXCEPT !.events = @ - 1]

Stop(t) ==
    /\ Event
    /\ counter[t] # None
    /\ counter' = [counter EXCEPT ![t] = None]
    /\ whole' = whole \ {t}
    /\ UNCHANGED <<address, tables, loop, since, passed>>

\* A tunnel is started, or replaced by a new one.
Restart(t) ==
    /\ Event
    /\ counter' = [counter EXCEPT ![t] = 0]
    /\ whole' = whole \ {t}
    /\ UNCHANGED <<address, tables, loop, since, passed>>

\* A test finds another address.
Moves(t, i) ==
    /\ Event
    /\ address[t] # i
    /\ address' = [address EXCEPT ![t] = i]
    /\ UNCHANGED <<counter, tables, loop, history>>

\* The program is started again.
PanelRestarts ==
    /\ Event
    /\ counter' = [t \in Tag |-> 0]
    /\ Forgotten
    /\ whole' = {} /\ passed' = 0
    /\ UNCHANGED <<address, tables, since>>

-----------------------------------------------------------------------------
(* trafficLoop.                                                             *)

Snapshot == {t \in Tag : counter[t] # None}

\* Mutant: a counter that has fallen counts for nothing less than before.
deltaBytes_Keep(cur, prev) == IF cur < prev THEN prev ELSE cur - prev

\* A counter that has fallen was started again.
deltaBytes(cur, prev) == IF cur < prev THEN cur ELSE cur - prev

Grown(t) == IF lastTag[t] = None THEN 0 ELSE deltaBytes(counter[t], lastTag[t])

\* A tunnel that is not running keeps its entry.
RememberTags == lastTag' = [t \in Tag |-> IF t \in Snapshot THEN counter[t] ELSE lastTag[t]]

\* ipAgg: the counters of the tunnels of each address, added up.
Tags(i) == {t \in Snapshot : address[t] = i}
Total(tags) == MapThenSumSet(LAMBDA t : counter[t], tags)

IPRow(i) ==
    LET grown == IF Tags(i) = {} \/ lastIP[i] = None THEN 0
                 ELSE deltaBytes(Total(Tags(i)), lastIP[i])
    IN [total |-> pool[i].total + grown,
        current |-> IF Tags(i) # {} \/ lastIP[i] # None THEN grown ELSE pool[i].current]

\* The sample of the round, when it is time for one.
Sample ==
    \/ UNCHANGED <<samples, lastTotal, passed>>
    \/ /\ samples' = IF lastTotal = None THEN samples
                     ELSE deltaBytes(Total(Snapshot), lastTotal)
       /\ lastTotal' = Total(Snapshot)
       /\ passed' = 0

\* One round; the rows that cannot be written are skipped.
Round ==
    /\ \E written \in SUBSET Tag :
          traffic' = [t \in Tag |-> IF t \in Snapshot \cap written
                                    THEN traffic[t] + Grown(t) ELSE traffic[t]]
    /\ RememberTags
    /\ \E written \in {{}, IP} :
          pool' = [i \in IP |-> IF i \in written THEN IPRow(i) ELSE pool[i]]
    /\ lastIP' = [i \in IP |-> IF Tags(i) = {} THEN None ELSE Total(Tags(i))]
    /\ Sample
    /\ since' = [t \in Tag |-> 0]
    /\ whole' = Snapshot
    /\ UNCHANGED <<counter, address, budget>>

Next ==
    \/ \E t \in Tag : Carry(t) \/ Stop(t) \/ Restart(t) \/ (\E i \in IP : Moves(t, i))
    \/ PanelRestarts
    \/ Round

Spec == Init /\ [][Next]_vars

-----------------------------------------------------------------------------
TypeOK ==
    /\ \A t \in Tag : counter[t] >= None /\ traffic[t] >= 0 /\ since[t] >= 0
    /\ whole \subseteq Snapshot
    /\ \A i \in IP : pool[i].total >= pool[i].current

\* A round credits an account with no byte that was credited before, however
\* often its tunnel was replaced or the program restarted in between; and a
\* tunnel that ran since the last round is credited with every byte since, or
\* with none if its row could not be written (trafficLoop, AddTrafficByTag).
CreditedOnce ==
    [][\A t \in Tag :
          LET credit == traffic'[t] - traffic[t]
          IN /\ credit >= 0 /\ credit <= since[t]
             /\ t \in whole => credit \in {0, since[t]}]_vars

\* A sample of the throughput ("累计当前所有隧道的 tx/rx 总量，按采样间隔差分成
\* bps 落库", scheduler.go:1560) is no more than what passed since the sample
\* before it.
SampleIsThroughput == [][samples' # samples => samples' <= passed]_vars
=============================================================================
