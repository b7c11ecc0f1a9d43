# ProxyForge: TLA+ models and proofs

ProxyForge is a Go program that turns a pool of WARP accounts into a proxy service.
Each active account gets a userspace tunnel (WireGuard or MASQUE); customers connect
to one mixed HTTP/SOCKS5 listener (or to a Trojan endpoint inside the panel's web
server) and leave through a tunnel: through a fixed one when they log in as a *slot*,
through a changing one otherwise.  A scheduler registers, tests, deduplicates and prunes
accounts and keeps every slot bound to a healthy account with an address of its own.

This directory holds TLA+ models of the parts whose correctness depends on order and
concurrency, the TLC configurations that check them, and TLAPS proofs of the most
important theorems.  `PROJECT.json` lists the components, the runs, the correspondence
between definitions and source lines, the hazards the properties are aimed at, and the
theorems.  Paths below are relative to `src/backend/internal/` unless they say otherwise.

## 1. Inventory of the system

| component | state it keeps | operations | what is hard |
|---|---|---|---|
| slot binding (`scheduler/scheduler.go` 719-1040, `db/db.go`) | tables `proxy_slots` and `warp_accounts` | `rebindProxySlots`, `EnsureProxySlots`, the statements on a slot row, `DeleteAccount` | a pass works on snapshots, writes row by row without a transaction, and is entered by several goroutines of which only some hold the scheduler's flag; crashes |
| usage accounting (`proxy/manager.go` 104-124, 665-730) | `usageQueue`, `usageDone`, `usageStopped`, `usageMu`, `usageStopOnce` | `recordUsage`, `runUsageWriter`, `persistUsage`, the end of `Stop` | a bounded queue that blocks senders inside a read lock; the last records of a shutdown; two callers of `Stop`; a Reconcile after it |
| proxy listener (`proxy/mixed.go`) | listening socket, `conns`, `closed`, `wg`; per connection two sockets and two copying goroutines | `acceptLoop`, `handle`, `relay`, `Close` | accept racing with close, half-closed relays, waiting for handlers with `Manager.mu` held |
| tunnel manager (`proxy/manager.go` 498-615, 705-815) | `tunnels`, `slots`, `meta`, `server`, under `mu` | `Reconcile`, `startTunnels`, `HealthCheck`, `StopTunnel`, `Stop` | snapshots read before the lock, tunnels started and probed outside it, overlapping Reconciles, failing starts |
| egress selection (`proxy/manager.go` 190-497) | pick counters, last picks, scores | `resolve`, `rotateCandidatesLocked`, `slotCandidatesLocked` | stale slot bindings, fail-over order, wrap-around of the rotation |
| slot probe (`scheduler/scheduler.go` 138-262) | failure and drift counters of a slot row | `probeProxySlots`, `acceptSlotPublicIP` | the verdict is written to a row that may have been bound anew meanwhile |
| scheduler jobs (`scheduler/scheduler.go` 67-156, 363-450, 586-607) | `running`, `manualCh`, `lastRunAt` | `Run`, `Trigger`, `execute`, `Reconcile`, the loops | one flag shared by four loops, an accepted job that is dropped |
| account generation (`scheduler/scheduler.go` 264-360, 609-717) | `generationGate`, `refillBackoffUntil` | `autoRefill`, `GenerateAccounts`, `healProxySlots` | numbers computed before the gate is entered; back-off |
| testing, pruning, deduplication (`scheduler/scheduler.go` 446-584, 1086-1312, `test/`) | account columns | `runDedup`, `runTest`, `TestOne`, `applyDedup`, `prune...` | which account of several is kept, bound accounts, failed reads |
| traffic accounting (`scheduler/scheduler.go` 1470-, `db/db.go`) | last counters per tunnel | `trafficLoop` | counters that restart with a tunnel |
| agent hub and protocol (`agenthub/hub.go`, `agentproto/proto.go`, `src/backend/cmd/pfagent`) | map of agents, a multiplexed session each; per stream the request, the status and two directions | `Accept`, `pingLoop`, `DialContext`, `serveStream`, framing | reconnection racing with the old session's clean-up; dials that are given up while the agent dials; two versions of the protocol; half-closes |
| WebSocket batch writer (`proxy/websocket_relay.go`) | buffer, timer, generation | `Write`, `Flush`, the timer's callback | a timer that has fired but does not yet hold the lock |
| Trojan front end (`proxy/trojan.go`, `proxy/trojan_udp.go`) | UDP associations per session, each with a lock and counters | request parsing, UDP relay | three ways to close an association while packets are in flight, the limit, waiting for every reader |
| dial policy (`proxy/dial_policy.go`, `proxy/mixed.go` 458-518) | - | order and time limits of dial attempts | which failure counts against a tunnel |
| tunnel construction (`proxy/tunnel.go`, `masque.go`, `endpoint.go`, `reserved_bind*.go`) | WireGuard or MASQUE device | `newTunnel`, probing of endpoints | network input and output |
| live log (`applog/store.go`, `src/backend/server/handlers/logs.go`, `src/frontend/src/pages/Logs.svelte`) | the file of the day, the page's date and offset | `Write`, `Read`, `rotate`, `LiveLogsJSON`, `refresh` | midnight, restarts and lost requests between two reads; chunks cut inside a character |
| panel (`src/backend/server`, `auth/`), database, main program, agent distribution, user interface | - | request handlers | see `PROJECT.json` |

Interactions.  The scheduler and the panel change the tables; `Manager.Reconcile` turns
the tables into tunnels, slot passwords and a listener; a session asks `Manager.resolve`
for an ordered list of tunnels, dials, relays, reports its dials to the tunnel
(`noteDial`) and its bytes to `recordUsage`.  `HealthCheck`, the slot probe and the
refill loop run beside the jobs.  Agents connect to the panel, which registers them in
the hub; tunnels that run on an agent dial through it.  On exit `main` cancels the
scheduler's context, calls `Manager.Stop`, shuts the panel's server down (5 s) and closes
the database; it does not wait for a job of the scheduler that is under way.

What makes each component correct is stated as properties of its module below; for the
components without a module, section 5 says why.

## 2. Modules

| module | models | size of its state |
|---|---|---|
| `SlotStore` | rows of the two tables and the SQL statements as operators from row to row | - |
| `SlotRebind` (EXTENDS `SlotStore`) | the rebind pass and, as its environment, everything else that writes the tables | tables, one pass per worker |
| `MCSlotRebind` | initial states and symmetry for TLC | |
| `SlotRebind_proofs` | theorems about `SlotRebind` | |
| `UsageLedger` | what the usage accounting promises (abstract) | one status per session |
| `UsageWriter` | queue, lock, writer and `Stop`; implements `UsageLedger` | |
| `ProxyListener` | accept loop, handlers, relays, `Close`, and `Manager.mu` around it | per connection: its handler, two sockets, two directions |
| `ProxyListener_proofs` | theorems about `ProxyListener` | |
| `TunnelManager` | the map of tunnels and everything that writes it | map, one Reconcile per goroutine, one health check |
| `TunnelManager_proofs` | theorems about `TunnelManager` | |
| `Scheduler` | the goroutines of the scheduler and the requests beside them | the calls each has still to make, settings, pool |
| `Scheduler_proofs` | theorems about `Scheduler` | |
| `AccountCare` (EXTENDS `SlotStore`) | the jobs that measure, judge, keep and delete accounts, and the slot probe | tables, the world, one plan per actor |
| `AccountCare_proofs` | theorems about `AccountCare` | |
| `MCAccounts` | initial states for TLC, some of those of `AccountCare` | |
| `AgentHub` | connections of agents and the map they are registered in | per node: its connections at both ends |
| `AgentStreams` (EXTENDS `AgentHub`) | dials and relays over the sessions that `AgentHub` keeps | per stream: its two ends |
| `AgentStreams_proofs` | theorems about `AgentHub` and `AgentStreams` | |
| `MCAgents` | initial states for TLC | |
| `PacketFrames` | datagrams over a byte stream | bytes on the wire, what a read is in the middle of |
| `Selection` | which egress a connection gets, in which order egresses are tried, and for how long | one dial, the rotation |
| `TrojanUdp` | one UDP session of the Trojan front end | its associations |
| `Traffic` | the traffic loop: counters of tunnels into tables | counters, tables, three memories |
| `LogFeed` | the store of the live log and the page that follows it | files of the days, one page, one request |
| `OrderedPipe` | what a relay direction owes its client (abstract) | bytes taken, bytes out |
| `BatchWriter` | buffer, mutex and timers of the WebSocket batch writer and the relay that feeds it; implements `OrderedPipe` | |
| `Writers_proofs` | theorems about `UsageWriter` and `BatchWriter`, both refinements included | |
| `MCParts` | the components that share no state with any other, in one instance for TLC | |
| `Parts_proofs` (EXTENDS `Writers_proofs`) | theorems about `Traffic`, `TrojanUdp`, `LogFeed`, `PacketFrames` and `Selection`, and about `MCParts` | |

How they compose.  `SlotRebind` and `AccountCare` act on the tables of `SlotStore` with
the same operators, each with the other's effects in its environment (`SlotRebind`) or as
its own steps (`AccountCare`).  `AgentStreams` extends `AgentHub`: a stream lives on a
session that registration, faults and restarts may take away at any step.  `Selection`
uses what `TunnelManager` and `AgentHub` provide (which tunnels run, which agents are
online) as sets that change under it.  `UsageWriter` relies on
`ProxyListener.NothingLeft`.  `MCParts` composes nothing: it starts one component
(`focus`) and lets that one move, so that seven independent state spaces are searched by
one run.  `UsageWriter` and `BatchWriter` come into it by EXTENDS, which is why the
definitions of `UsageWriter` carry the prefix `Usage`.

An operator that starts with `\* Mutant:` in the line before it is the definition after
it with a plausible mistake in it.  It is used by no specification: each property of a
passing run has one, with which TLC finds the property violated, so that the property is
known to depend on the code it is about.

### SlotStore and SlotRebind

A slot row keeps `status`, `account`, `pin` (`pinned_public_ip`), the counters `probe`
and `drift`, and `err` (whether `last_error` is empty).  The counters are only compared
with zero and with their thresholds, so they saturate at the thresholds; the condition
of `KeepBinding` that clears an error needs the comparison with zero.  An account row
keeps its status, its last public address and one bit for "its measurements pass
`accountUsable`"; a deleted account is `absent`.

Each worker is a goroutine that may be in a pass.  `Begin` enters through
`healProxySlots` (with `EnsureProxySlots` first) or directly; `ListProxySlots`,
`ListAccounts` and `RunningTags` are the three reads, in the code's order and each a step
of its own; then `Visit` handles one slot per step, by the branch the loop body takes
(`SkipDisabled`, `KeepBinding`, `AssignCandidate`, `ReleaseConflict`, `HoldFailing`,
`LeaveUnbound`), computing from the snapshots and writing to the tables of now.
`AssignCandidate` reads the pin from the current account row because the SQL statement
does; `AssignFails` is its foreign-key error, after which the code returns at once.
Between any two steps the environment may register, delete, test or disable accounts,
start and stop tunnels, change the number of slots, record a probe's verdict, or crash
the process (which keeps the tables and loses every pass).

Abstractions: the ranking of candidates is left open (any candidate may be first), so
results hold for every ranking; `EnsureProxySlots` is one step although it writes row
by row; database errors other than the foreign key are not modelled; a probe's verdict
may come at any time and for any slot, which covers verdicts formed on old rows.

Properties.  `BindingsExist`: no slot points at a deleted account.
`PassSeparatesAccounts`: a pass that no other pass overlapped (`solo`) ends with
distinct accounts, whatever else happened meanwhile.  `PassSeparatesEgresses`: if
nothing else happened either (`quiet`), the egress addresses are distinct as well.
`NoneWasted`: no slot stays unbound while a usable account is free.
`MovedOnlyForCause`: the step that takes a slot off its account has one of the code's
reasons.  `SeparationRepaired`: what crashes and overlaps left is repaired once passes
no longer overlap.

`RebindsOnlyFailing` is what `README.md:13` of the repository says ("It only rebinds
after repeated failures or drift").  The code does not keep it: the candidates of an
earlier slot include accounts bound to later slots, so that a slot in good order may be
moved.  `MovedOnlyForCause` says what holds instead.

### UsageLedger and UsageWriter

A session's goroutine goes from `relay` to `reporting` (in `recordUsage`), `sending`
(inside the read lock, at the `select`) and `sent` or `refused`.  `Enter` is the read
lock and the test of `usageStopped`; it waits while a `Stop` waits for the write lock, as
Go's `RWMutex` does.  `Send` is the `select`, which may take either case when both are
ready.  The writer's two loops are `select` and `drain`.  `Stop` is split where other
goroutines may run: the listener's close, `usageStopOnce`, the locked section, the wait
for the writer.  `Awaited` are the sessions of the mixed listener, which are accepted while
it listens; whoever closes it waits for their handlers (`HandlersGone`;
`ProxyListener.NothingLeft` is what justifies that step).  `ReconcileServer` opens and
closes the listener whenever a Reconcile has `mu`, also after a `Stop`:
`reconcileServerLocked` does not ask whether the manager was stopped, and `main` waits for
no job.  Trojan sessions may report at any time, also after `Stop`.

`StopFlushes`: what was accepted before `Stop` is in the database when it returns.
`ListenerUsageKept`: no session accepted before a `Stop` first closed the listener has its
record refused.  Sessions accepted later (`late`), by a listener that a Reconcile opened
again, may lose it, and the runs have such sessions.

`UsageReturns`: whoever reports gets on, and every `Stop` that has closed the listener returns.

The refinement maps a session's status to the ledger's by where its record is; `open` is
`~ usageStopped` and `flushed` is the end of `usageStopOnce`.  Abstraction: a failed
database write is logged and dropped by the code, and counts as written here.

### ProxyListener

One listener is followed from the time it serves, with the manager's mutex.  A
connection is in the backlog, accepted, reading its request, in `resolve`, dialling,
answering, relaying, or on its way out; `up` and `down` are the copying goroutines.
`Lock` to `WaitHandlers` are `Stop` or a `Reconcile` that has to restart the listener;
they hold `mu` throughout.  `DownEnds` needs the target: it ends at the target's end of
stream, or when the target sends something that cannot be written to the closed client
socket; a member of `Silent` does neither.

`NothingLeft`: nothing of the listener survives a close that returns.  `SweptForGood`: a
connection accepted while `Close` sweeps is refused or swept.  `CloseEndsRelays`: when
the handlers that are left are past `resolve` and none relays to a silent target, the
close returns.

`CloseReturns` is what the comment at `proxy/mixed.go:118-119` says of `Close`: closing
the existing connections keeps a reload or a graceful exit from being blocked for ever.
It fails: a handler that has read its request waits in `resolve` for the mutex that the
closing goroutine holds while it waits for the handler.  The same property fails in a
second way that `CloseEndsRelays` excludes: `Close` closes the clients' sockets only,
`relay` waits for both directions, and with a target that stays silent and ignores the
half-close the direction from the target never ends.

### TunnelManager

Tunnels are objects with an identity.  `ReadAccounts` is the snapshot before the lock,
`Sync` the locked section (close what is outdated, decide what to start), `StartTunnel`
and `StartFails` the concurrent `newTunnel` calls, `Install` one result under the lock,
`Return` the end.  `SyncFails` is the early return when the listener cannot be opened.
`HealthCheck` is `Collect`, then per candidate `ProbeSucceeds`, `RebuildFails` or
`Rebuild` followed by `Replace`.  The environment changes accounts and settings, stops
tunnels (`StopTunnel`, `Stop`) and lets dials fail and succeed.

The comparison `desired[r.tag] != r.cfg` at `proxy/manager.go:602` is between a snapshot
and a copy of itself and never true, so that `Install` has no such branch: a Reconcile
that was overtaken installs a tunnel for an account that has been disabled since.  The
properties say what is left.  `OpenIffHeld`: a tunnel is open exactly while it is in the
map or in the hands of a goroutine that will put it there or close it, so that none leaks
and nobody closes one that others can still use.  `RestartsJustified`: a tag gets a tunnel only from a
Reconcile that saw it active with that configuration, and a rebuilt tunnel replaces only
one of the same configuration.  `ReconcileExact`: an undisturbed Reconcile leaves exactly
the wanted tunnels.  `Converges`: repeated Reconciles bring the tunnels into line.

Abstractions: `m.slots`, `m.meta` and the listener are not part of this module; the
three tunnel settings read under the lock after the accounts are folded into `Config`, as
if read together with them; a close outside the lock is part of the step that decides it,
since no other goroutine can reach the tunnel any more; dial failures are "below" or "at"
the threshold.

### Scheduler

`todo[p]` is the list of calls goroutine `p` has still to make: the loop of `Run`, the
refill loop, a caller of `Reconcile` (`Saver`), a request for `TestOne` or
`GenerateAccounts` (`Asker`).  A job is the constant list of its calls that meet other
goroutines, and each call is a step: `ReadSettings` and `ApplySettings` are the two
halves of `reconcileManager`, which reads the settings before it takes the manager's
mutex; `Heal` and `Mend` are `healProxySlots` with and without registration; `Plan` is
the head of `autoRefill`; `EnterGate`, `Register`, `BatchOver`, `TestNew`, `LeaveGate`
are `GenerateAccounts`.  `Start` is `tryStartWork` when it gets the flag, `Finish` is
`finishWork`.  All settings together are a version number, and the pool is the number of
usable accounts; what the calls do to rows and tunnels is in the other modules.

Facts of the code that shape the module.  `Trigger` looks at the flag and then sends to
`manualCh`; a job it has accepted is dropped without notice when another goroutine got the
flag by the time `Run` takes it.  When `execute` is refused by the flag, `lastRunAt` is
not set, so that the timer of `Run` is due again at once and the loop spins until the
flag is free (hence strong fairness of `TimerFires`).  How many accounts are needed is
computed before the gate is waited for, so that two callers may together register more
than the target; nothing in the code promises otherwise, and no property does.
`noteRefillError` writes the back-off without a lock.  The end of the
context at exit, when the loops return, is not modelled.

`OneAtATime`: the flag excludes jobs, the gate excludes registrations, and both are given
back on every path.  `SettingsSettle`: although a `Reconcile` that finds the flag set
goes away without doing anything, and although `TestOne` and `GenerateAccounts` run
outside the flag and may hand the manager settings read long ago, what was saved last is
what the manager ends up with; it is the reconciliation at the start and the end of every
periodic job that brings this about, and without it the property fails.  `PoolFills`:
failed batches, back-offs, outages and lost accounts do not keep the pool below its
target, and nobody waits at the gate for ever.

### AgentHub

The connections of a node are numbered by its dials.  A connection has an agent's end, a
panel's end and a link between them, each of which may be gone while the others have not
noticed.  The goroutine at the panel is `accepted` (before `Hub.Accept` takes `h.mu`),
`serving` (in `pingLoop`), `leaving`, `closing`, `done`.  `Register` closes the session
that was registered inside the lock, as the code does; `Deregister` removes the entry
only if it is still the goroutine's own.  `DialAnsweredLate` leaves a connection the
panel has accepted and the agent has given up; `HubRestarts` empties the map.  The older
of two connections may register after the newer one, and then closes it; the agent dials
again, and the older one ends when its link is found dead.

`MapIsExact`: what the map names is served, and a session that is not named is closed
(or not yet registered, or about to be closed by its own goroutine).  `BackOnline`: after
any finite number of faults each node is registered over the connection its agent has.

Abstractions: the token of a node and the table row written at `Accept` are not modelled; yamux's keep-alive and the panel's pings are the
two ways a dead link is noticed.  `pingLoop` ends at the first ping that fails.

### AgentStreams

A stream is one dial over an agent, from `Resolve`, which keeps the session that was
registered then, to the end of the relay.  Its panel end is `resolved`, `asked`, `relay`,
`over` or `failed`; its agent end is `serveStream`: reading the request, dialling, writing
the status, copying two directions.  A session has an end at each side and a link between
them, taken from `AgentHub`, and a step that needs one asks for it (`AtPanel`, `Carried`,
`AtAgent`), so that every fault of `AgentHub` may come between any two steps.  `Request`
writes the message of the version that was announced, and refuses UDP for an agent of
version 1; `ReadRequest` reads with the agent's own version.  `DialFailed` is the refusal,
the end of the session and the deadline; the agent's dial knows nothing of it and goes on.
Bytes are left out: what is told apart is which end of which direction is closed.

`RelayHasRemote`: a relay at the panel has a connection of the right network behind it at
the agent.  `AgentLetsGo`: whatever the panel does with a dial, the agent closes its
connection once the panel is done with the stream.  `EndOfInputArrives` is what
`agenthub/hub.go:280` says of the stream after the status: that it is the pipe to the
target in both directions.  It fails for the end of the client's input, which `relay` passes
on only to connections with `CloseWrite`; a stream of the session has none.

### AccountCare

Two actors work off a plan, a sequence of phases: the holder of the running flag (slot
probe, test or deduplication job) and `TestOne`, which asks for no flag.  A phase reads in
one step and acts in the next (`Reads`, `Over`), with what it has read: the probe's
snapshot of the slots, the results of tests, `boundAccountIDs`, the groups of
`applyDedup`.  Measuring takes `world` as it is, which moves between steps: tunnels fail
and recover, addresses and qualities change; the panel deletes accounts; readings fail.
A probe's verdict is therefore written to a row that may have been bound anew since.

`OneKeeper`: a deduplication that nothing disturbs leaves each address with exactly one
keeper, and deletes only accounts that no slot uses.  `JobSparesBindings`: when every slot
works, no probe, test or deduplication that nothing disturbs moves one, however bad the
measurements are.  `DeadSlotMoves`: a slot does not stay for ever on an account that no
longer works while a spare one with an address of its own is there.  "Undisturbed" is
`before`, which keeps the slots as they were when the actor began and is given up at the
first step of anybody else.

Abstractions: the score is any order; all accounts that `GenerateAccounts` registers are
one step; the rebinding pass visits each slot on the tables as they are (`SlotRebind` has
its snapshots).

### Selection

`resolve` holds the manager's mutex and is one step that computes the chain of egresses:
for the credentials of a slot, of a fixed agent, of the automatic choice and of the
rotation, for TCP and UDP.  `Attempt` then dials one egress after the other, each for at
most `AttemptTTL` of the `TotalTTL` that is left and `MaxAttempts` in number, skipping those
that cannot carry datagrams.  An egress answers quickly, slowly, never, or says that it
does not reach the target (`Denied`).  Of a tunnel (its resolver knows no such name or no
address of the family, or the target refuses it) that is a permanent error and ends the
dial; of an agent it is one text for every reason, and the next candidate is tried
(`Permanent`).  Agents and tunnels come and go meanwhile.  The constants of time and number
are the code's.

`SpreadsEvenly`: while the list of nodes stays as it is, no node is given two turns more
than another; a client that comes back within its window takes nobody's turn.
`ServedIfReachable`: one agent that answers quickly is enough for the automatic choice,
unless a tunnel tried before it ends the dial with a permanent error.
`SlotKeepsAddress`: a slot leaves through its own account whenever that answers.

A permanent error is the one egress's, while `proxy/dial_policy.go:19-20` takes it for the
destination's and `dial_policy_test.go:71-88` asserts that the fallback is not tried: an agent
behind the tunnel in the chain might have connected.  The model ends the dial as the code does, and
the property promises nothing for it.

### TrojanUdp

The session's goroutine (`relayTrojanUDP`) reads packets and sends each over the
association of its target, dialling one where there is none, up to the limit; a reader per
association copies answers back, in pieces when they are longer than a frame.  Associations
are closed by a send that fails, by a reader's timeout and by the end of the session;
`useMu` keeps `close` out while somebody sends or answers, and `close` reports the usage.

`ReportedInFull`: what an association has carried is what it reported, once, whoever closed
it and whatever was in flight.  `WithinLimit`: the map forgets only what is closed.
`SessionEnds`: a client that is gone gets its session to return.

### Traffic

A round of `trafficLoop` (`Round`) reads the counters of the tunnels that run, credits the
account and the address with what they have grown by since the loop last looked, and
samples the total.  Tunnels start, stop and start again at zero; accounts change their
address; a row cannot be written; the process restarts and forgets what it remembered.

`CreditedOnce`: a round credits no byte twice, and credits a tunnel that ran since the last
round with every byte or with none.  `SampleIsThroughput` is what `scheduler.go:1560` says
of a sample; it fails when a tunnel stops, because a total that has become smaller is taken
for one that began at zero.

### LogFeed

`Write` and `Read` of the store are one step each under its mutex, and the first of either
after midnight starts the file of the new day.  The handler of the page reads up to twice;
the page adds what it gets to what it shows, or starts again when the date has changed.
Midnights, restarts and lost requests may come between any two steps.

A line has several bytes and a character may have several (`Inner` are the offsets inside
one).  A chunk is cut at `Limit` bytes wherever that is, and the conversion to JSON makes
U+FFFD of each byte of a character it has only a part of (`Chunk`, `Damaged`), which the
other part in the next chunk does not mend.  `ShowsTheFile` therefore says: the page shows
the beginning of one day's file, byte for byte, but for characters that were replaced, and
two of these are more than `Limit` bytes apart.  `CatchesUp`: in the end it shows all of the
last day, up to its size.

When the file of the old day cannot be closed, `rotateLocked` leaves `Store.file` as it is
and every later rotation fails in the same way (`open = "stuck"`): lines are lost and requests
fail until the program is started again.  `CatchesUp` excludes it.

### PacketFrames

A datagram is written as a length of two bytes and a payload, byte by byte onto a stream
that may hand over any number of bytes at a time; `Read` reads a header, as much of the
payload as its buffer holds, and discards the rest.  `DatagramsWhole`: datagrams come out
one for one, in order, none with bytes of another.

### OrderedPipe and BatchWriter

`OrderedPipe` is the promise: what is read upstream comes out in order, without gaps and
once, until the client's connection fails, and a direction is over only when nothing is
left.  `BatchWriter` is the copying goroutine of `relay`, `timedBatchWriter` and its
timers.  `LockWrite`, `Fill`, `FlushFull`, `WriteReturns` are `Write`; `LockFlush`,
`FlushReturns` are the `Flush` at the end of the relay; `TimerFires` starts a callback
and `Callback` is that callback when it gets the mutex, which may be long after its timer
was cancelled: `generation` tells it apart.  `DstWrite` and `DstFails` are the loop of
`flushLocked` for whoever is inside; a short write is a `DstWrite` of less than the batch.
The byte in position `i` is the number `i`, so that a lost, repeated or overtaken byte is
a different sequence.

`BytesHaveTimer`: bytes in the buffer have a running timer, or a callback under way, that
will flush them, and no timer runs unknown to the writer.  `AllDelivered`: every byte
arrives although the remote falls silent in the middle of a batch.

## 3. Runs

| run | instance | shows |
|---|---|---|
| `slots` | 3 slots, 3 accounts, 3 addresses, 1 worker: all slots in use and nothing happening beside the pass, or two in use and 1 environment step; any tables | `BindingsExist`, `PassSeparatesAccounts`, `PassSeparatesEgresses`, `NoneWasted`, `MovedOnlyForCause` |
| `slots_overlap` | 2 slots, 2 accounts, 2 workers, no environment step, any tables | `SeparationRepaired` |
| `slots_steal` | 2 slots, tables without duplicates | violation of `RebindsOnlyFailing` |
| `listener` | 3 connections, one established at the start and one with a silent target, 2 closes | `NothingLeft`, `SweptForGood`, `CloseEndsRelays` |
| `listener_lock` | 1 connection, 2 closes | violation of `CloseReturns` |
| `tunnels` | 1 tag, 2 configurations, 2 Reconciles, 2 environment steps, 6 tunnel objects | `OpenIffHeld`, `RestartsJustified`, `ReconcileExact`, `Converges` |
| `agents` | 1 node, 5 dials, 2 faults; a stream over the last three connections and the last fault | `MapIsExact`, `RelayHasRemote`, `BackOnline`, `AgentLetsGo` |
| `agents_halfclose` | the same | violation of `EndOfInputArrives` |
| `scheduler` | 1 caller of `Reconcile`, 1 request, 1 slot, a reserve of 2, batches of 2, a queue of 1, 1 fault | `OneAtATime`, `SettingsSettle`, `PoolFills` |
| `accounts` | 1 slot and 2 accounts with 1 test by the panel, or 2 slots and 3 accounts without; 2 addresses, 1 move of the world | `OneKeeper`, `JobSparesBindings`, `DeadSlotMoves` |
| `parts` | the seven components of `MCParts`, one at a time | their properties, `Typed`, and the refinements `ImplementsLedger` and `ImplementsPipe` |
| `traffic_sample` | 2 accounts, 2 addresses, 3 bytes, 2 starts or stops | violation of `SampleIsThroughput` |

Why these bounds are enough to be interesting.  The initial tables of the slot runs are
all tables a running installation may leave (`MCSlotRebind.PersistedSlot`): shared
accounts, shared pins, failing slots, so that one pass meets every branch.  Three slots in
use give chains (slot 1 takes from slot 2, which takes from slot 3); with two, one
environment step falls between any two steps of the pass, and more are covered by the
proofs, which bound nothing.  The two sizes are two sets of initial states of one run.
Which account and address slot 1 has does not matter, and one stands for all.
`RebindAfter = DriftAfter = 1`: the thresholds are compared, never counted up to within a
pass (`AccountCare`, where they are counted, has 2).  In `tunnels` two environment
steps allow "disabled and enabled again" and "changed while stopped"; tags interact only
through the loop over the map, each lock section treats them independently, and one tag
therefore shows the races; `Instance` is large enough that `Unused` is never empty, which
bounds nothing (each Reconcile holds one result, `HealthCheck` one new tunnel and one
remembered, the map one).

In `accounts` the first instance has every plan of the job beside `TestOne`; the second has
two slots that compete for three accounts, two of which share an address, as there are two
only.  Deleting, pruning and rebinding meet in both.  The world moves once: the
properties speak of undisturbed actors, or of what holds in the end.

In `parts`, of the batch writer: a read is larger than the buffer, so that one `Write` flushes in its middle and
leaves a rest for the timer, and nine bytes are three full buffers: old callbacks meet
younger timers.  In `agents` two faults and five dials allow an old connection, a late one and
a new one at once, and a restart between them; five dials are enough for a
node wherever the two faults fall (`BackOnline` would fail otherwise).  The registration is followed alone from its
beginning, and together with a stream where agents of both versions and one fault are
left (`MCAgents`).  In `scheduler` the target (3) is more than a batch, so that the
pool takes several; the four goroutines meet at the flag, and the refill loop, the loop
and the request meet at the gate; one fault is enough for each error path, an outage being
a fault that makes any number of registrations fail.

Of the other parts: in the usage accounting a queue of one is full with two senders behind
it, two Stops meet in `usageStopOnce`, and of the two sessions of the listener one may be
accepted before and one after it was opened again, beside one Trojan session.  In `TrojanUdp` two targets compete for one
association, and the second is dialled after the first was closed in any of the three ways.
In `Selection` two agents, one of them without UDP, and two tunnels make chains longer than
the attempts allowed; one egress answers quickly and the others slowly, never or
with a denial (`FewEgresses`); four dials go more than once
around the three nodes.  In `Traffic` two tunnels share or
change an address.  In `LogFeed` three days have a midnight in each refresh of two chunks,
with one fault; three lines of one or two bytes, with offsets 2 and 4 inside characters and
chunks of two bytes, make chunks that end inside a line, between lines and inside a character.  In `PacketFrames` datagrams of 0 to 2 bytes meet a buffer of 1.

Symmetry over accounts and addresses is used only in runs without liveness.
`CHECK_DEADLOCK FALSE` is set where the system ends: after `Stop`, all sessions over.

Fairness.  `FairSpec` of each module assumes weak fairness of what a goroutine does by
itself: database calls return, lock sections end, dials, probes and `newTunnel` have
timeouts, tickers start passes and Reconciles again.  Nothing is assumed of clients,
except that a read or a copy from a socket we have closed ends, and that a WebSocket
client's connection takes bytes or fails in the end (`BatchWriter`); of targets, except that
one outside `Silent` sends or hangs up sooner or later; or of when `Stop` is called.
`StreamsFairness` has the steps of the panel's and the agent's goroutines and the deadlines
of both; a target that got a half-close ends in the end, any other target and the client owe
nothing.  In `LogFeed` the page asks again every few
seconds for ever (`Live`).
Strong fairness is assumed three times: `TimerFires`, because a refused `execute`
is tried again at once, and `RefillTick`, because the refill loop looks at the flag every
90 seconds for ever; it says that who looks at a flag again and again, which is free again
and again, finds it free some time; and in `AccountCare` `StartProbe`, whose ticker finds the flag
free again and again.  Outages and back-offs end.

### Disagreements the runs show

Four runs expect a violation; `PROJECT.json` quotes both sides of each under `findings`.

* `slots_steal`: an earlier slot takes the account of a later one in good order
  (`scheduler/scheduler.go:793`), while `README.md:13` says that a slot is moved after
  failures or drift only.
* `listener_lock`: `Stop` and `Reconcile` wait for handlers with the mutex held that a
  handler needs in `resolve` (`proxy/manager.go:708`), while `proxy/mixed.go:118-119` says
  that the close keeps them from being blocked for ever.
* `agents_halfclose`: the end of a client's input is not passed on to a target behind an
  agent (`proxy/mixed.go:539`).
* `traffic_sample`: a sample shows bytes that passed long before, whenever a tunnel stops
  (`scheduler/scheduler.go:1571`).

## 4. Proofs

`SlotRebind_proofs` proves for any number of slots, accounts, addresses and workers, any
thresholds and any number of environment steps: `TypeCorrect`, `BindingsAlwaysExist`,
`PassesSeparateAccounts`, `PassesSeparateEgresses`, `NeverWasted` and the action property
`AlwaysMovedForCause`.  `PassSeparatesAccounts` is not inductive.  The invariant behind it, `IInv`,
adds for every worker in a pass that has been alone from its beginning (`SoloAlone`):

* what a slot not yet visited holds in the table is what the snapshot holds, or nothing,
  because only this pass binds slots (`StillCurrent`), and statuses have not changed
  (`SnapshotStatus`); a deletion may unbind a slot but never binds one;
* an account deleted since is no slot's (`StillListed`);
* every visited active slot is unbound or bound to a member of `usedAccount`
  (`VisitedUsed`), and no two visited slots share one (`VisitedDistinct`).

Each branch of `Visit` then keeps `VisitedDistinct` because the account it leaves the slot
on was not in `usedAccount`, and at the end of the pass every slot is visited.

The three properties of a pass that nothing at all disturbs need more, because addresses
change with every measurement: `QInv` adds that what such a pass has read is still what the
tables hold, of slots as far as it has not visited them (`AsRead`); that each account and
each address it has marked as used belongs to a slot it has visited (`UsedTraced`), and each
visited slot's address is marked (`EgressUsed`) and no other's (`EgressApart`); and that a
visited slot is unbound only where every usable account was already taken (`NoneLeft`),
which stays so because the sets of what is used only grow.  `UndisturbedVisit` says of the
loop's body that it keeps, moves or unbinds the slot, and why; the theorems follow from it.

`AccountCare_proofs` proves for any slots, accounts and addresses, any thresholds, and any
number of events and of tests the panel asks for: `TypeCorrect`, `BindingsNeverDangle`,
`AlwaysOneKeeper` and `JobAlwaysSparesBindings`.  Its `Inv` has four parts.

* The types, which say of a plan what may follow what (`Orderly`): verdicts come after a
  test, and only a deduplication begins by pruning.
* `Bindings`: a slot is bound to an account that exists, and an active account that a slot
  uses runs, unless the probe has just taken it out of service (`BoundRuns`).
* `Remembers`: what an actor that nothing disturbs has read and not yet acted on still is
  what the tables hold.
* `Spared`: such an actor either finds every slot where it was, with whatever it has read
  saying so (`Kept`), or some slot's account was lost from its pool before it began, and no
  phase of its plan will bring it back (`Lost`).

`Lost` is what makes the last one inductive: `JobSparesBindings` is about slots that work,
which is judged by what the actor found when it began and by the world, while an account
may have been given up by an earlier test that is still in the tables.  `OneKeeper` follows
from `Remembers` and `KeepsOne`, a lemma about what one phase of `applyDedup` leaves.

`Writers_proofs` proves of `UsageWriter`, for any sessions, callers of `Stop` and queue size:
`UsageTypeCorrect`, `StopAlwaysFlushes`, `ListenerUsageAlwaysKept`, `AlwaysChargedOnce`,
`AlwaysQuietAfterStop`, and `UsageRefinement`: `UsageSpec => Ledger!Spec`.  Its `UsageInv` says
where a record can be (`RecordsInPlace`: in the queue, in the writer's hands or written,
exactly once and exactly for the sessions that sent), how far `Stop` has come for a given state of
`once`, the flag and the channel (`StopPhases`), that no reader is inside once the flag is
set and every session of the listener that is not `late` is through with its report once a
`Stop` has closed (`ReportsOver`) and that the writer has left only with an empty queue after that
(`WriterPhases`).

Of `BatchWriter` it proves, for any sizes: `BatchTypeCorrect`, `AlwaysHaveTimer` and
`BatchRefinement`: `Spec => Pipe!Spec`.  Its `BatchInv` has three parts beside the types.
`Control`: who holds the mutex, and where the relay is.  `Positions`: `out`, `batch`, `buf` and
`todo` follow each other in the stream without a gap, up to the number of bytes taken, unless
the connection failed.  `Timers`: `BytesHaveTimer`, and that the timer the writer knows is the
newest and not yet over, so that only its own callback can pass the test of the generation.
Four lemmas say what joining and cutting pieces of the stream gives.

`AgentStreams_proofs` proves of the registration, for any nodes and any number of dials and
faults: `TypeCorrect` and `MapAlwaysExact`.  `MapIsExact` becomes inductive with
`OnlyDialled`: the map and the handlers name only connections that were dialled.  Of the
streams over it: `StreamsKeepTheHub`, that `AgentStreams` implements `AgentHub` (each step
of a stream leaves the registration alone, and each step of the registration is one of
`AgentHub`), so that the map is exact there too (`MapExactUnderStreams`); and
`RelayAlwaysHasRemote`.  Its invariant, `Exchange`, follows a request through the stream:
the panel asks once, an older request is only ever for TCP, an agent that is connected has
dialled what was asked, and "ok" is answered only by one that relays or has closed.

`ProxyListener_proofs` proves for any connections, closers and silent targets:
`TypeCorrect`, `AlwaysNothingLeft` and `AlwaysSweptForGood`.  The invariant behind them
has five parts beside the types: the mutex is held by the call that closes, and a later
call finds the listener closed (`OneCloses`); `conns` names what is served (`Tracked`); an open
socket has a goroutine that will close it (`SocketsOwned`); `SweptForGood` itself; and
after a close has returned nothing is served and the accepting goroutine is gone (`Quiet`).

`TunnelManager_proofs` proves for any tags, configurations, Reconciles and environment:
`TypeCorrect`, `AlwaysOpenIffHeld`, `AlwaysReconcileExact` and the action property
`RestartsAlwaysJustified`.  `OpenIffHeld` becomes inductive with two more: a
tunnel has one place, in the map, in one result of one Reconcile, or in the hands of the
health check (`OnePlace`); and whoever has a tunnel still to start or to replace has no
other for the same tag (`Pending`).  The other two need `XInv`, which adds what a goroutine
that has let go of the mutex may still rely on: a tunnel a Reconcile has started has the
configuration it was asked for (`ResultsFit`), and one the health check has rebuilt that of
the tunnel it replaces (`RebuildsFit`), although the map may have changed since.  For
`ReconcileExact`, a Reconcile that has met no other and lost no tunnel still wants what the
accounts call for, and every tag either has its tunnel or is still owed one (`OnCourse`);
when nothing is owed any more, the map is aligned.

`Scheduler_proofs` proves for any savers, askers, sizes and number of faults: `TypeCorrect`
and `AlwaysOneAtATime`.  The invariant, `Exclusion`, reads a goroutine's place off the list
of calls it has still to make: it is between `tryStartWork` and `finishWork` exactly if its
list ends in `finish`, and inside the gate exactly if a `register` is next or a `leave` is
to come (`Place`).  `Shape` says which lists can occur: a registration follows its entry,
and what precedes the way out of the gate is what `GenerateAccounts` does inside it.  Three
lemmas follow the lists through the calls: `Advance` for a call that begins and ends
nothing, `Entered`, `Registered` and `Departed` for the gate.

`Parts_proofs` proves of five components, each by its own specification, the type
correctness and:

* `AlwaysCreditedOnce` of `Traffic`, for any tags and addresses.  `TrafficInv`: the counter
  of a tunnel that has run since the last round is what the loop remembers of it plus what
  it carried since; that of one started since is at most what it carried.  `Grown` is then
  no more than what is owed, whichever of the two it meets (`GrownBounds`).  The types of
  the rows of the addresses (`PoolTypes`) need to know of `Total`, a fold, that it is a natural
  number: `TotalType`, by induction over the number of tunnels that are added up.  The induction
  principle is `LeastOne`, stated for a set of numbers rather than a predicate, and
  `SumsExist` shows that the recursion of the fold has a solution.
* `AlwaysReportedInFull` and `AlwaysWithinLimit` of `TrojanUdp`, for any targets, packets and
  answers.  `UdpInv` has three parts beside the types: whoever is in the middle of a datagram
  keeps its association open (`Places`); the bytes carried are the bytes counted but for
  those the session or the reader is about to count, and a closed association has reported
  all that is counted (`Books`); and the map names every open association under exactly one
  target (`Mapped`).  The limit follows by counting: `LiveIsOpen`
  maps open associations one to one to entries of the map.
* `AlwaysShowsTheFile` of `LogFeed`, for any number of days, lines and faults, lines and
  chunks of any length and characters of any encoding (`Inner`).  `ShowsTheFile` is taken apart: a byte
  the page shows is the file's or replaced (`Kept`), replaced characters are more than a chunk
  apart (`Sparse`), and, which makes this inductive, a page that ends inside a character has
  the others at least one chunk before its end (`Spaced`).  `RequestFits` says what a
  request carries: the page's day and offset on its way out; on its way back, a chunk that
  follows the page if it is of the page's day and begins its file if it is of a later one.
  `ChunkFollows` is the lemma that a page and such a chunk make a longer page.
* `AlwaysDatagramsWhole` of `PacketFrames`, for datagrams of any length and any buffer.
  `GoesOn`: the bytes on the wire and those still to be written follow each other without a
  gap (`Unbroken`), from the byte the reader is due to the end of the last frame; `OneFrame`:
  what the reader has so far is the beginning of one frame.  No step looks at more than the
  first byte, so that no sum over the datagrams is needed.
* `AlwaysSpreadsEvenly`, `AlwaysServedIfReachable` and `AlwaysSlotKeepsAddress` of
  `Selection`, for any clients, agents, tunnels, dials and changes.  `Even`: of the nodes in
  the order of the list, those from some `first` on up to the cursor have had one turn more
  than all others (`Laps`), so that the next turn goes to one that is behind, or begins a new
  lap (`NextTurn`, `GivenStep`).  `Coming`: an agent that will answer is in the chain, at a
  place that the attempts made so far leave within three; `Spends`: an attempt takes no more
  than its time, so that the total lasts for three of them.  `DialEnds` says how a dial can
  end: at the end of the chain, the attempts or the time, served, or denied by a tunnel.  `Direct`: the tunnel
  of a slot is the first of its chain.  `NodeList`, `RotateList` and `SlotList` say what the
  lists hold, each node once; agents are listed by rank (`OnlineEgresses`), which is why
  `Ranks` numbers the elements of a finite set of integers.

`PartsTypeCorrect` and `PartsKeepTheirWord` put them together with the theorems of
`Writers_proofs`: in `MCSpec` a step of one component is a stutter of the others, so the
composition that TLC runs has all its types (`Typed`) and implies every safety property and
both refinements that the run `parts` checks.

The assumptions on constants are the named ASSUMEs of the modules; TLC evaluates them in
the runs of the modules that declare them.  `PartsAssumption` says that there is a target
(`TrojanUdp` starts with one in hand), at least one day, that a chunk of the log has at least one byte and no character begins
before the file does, and that sizes are natural numbers;
`SelectionAssumption` that agents are named by integers (the keys of their rows, by which
they are sorted) and that agents and tunnels are finite in number; `TrafficAssumption` that
accounts are; `CareAssumption` that an account fails after one error at the earliest, and
that the bounds on events and tests are natural numbers.

Proved but not a property of a run, for the sake of its time: the types of `SlotRebind`,
`ProxyListener`, `TunnelManager`, `Scheduler`, `AgentHub` and `AccountCare`,
`BindingsNeverDangle`, `AlwaysChargedOnce`, `AlwaysQuietAfterStop` and `AlwaysHaveTimer`.

Every invariant and every action property that a passing run checks is a theorem.  Only
model-checked: every liveness property (`SeparationRepaired`, `DeadSlotMoves`, `Converges` and
the others that say what must happen in the end), because the prover has no ENABLED.  The
violations are TLC's counterexamples.

## 5. Not modelled

Network input and output (WireGuard, MASQUE, TLS, packet rewriting), the registration
service, migrations and parsing of configuration, login and sessions of the panel, its
rendering, export formats, the user interface except the page of the live log, and build
files.  Of modelled parts: `m.slots` and `m.meta` of the manager, the deadline under which
the Trojan relay reads the frames of an agent (`agentproto/proto.go:141`), failed or short writes of the log file and lines that are not UTF-8, the row that
`Accept` writes for a node, and the throughput figures of the hub.  `PROJECT.json` gives the reason for each component.

## 6. Plan

In this order.

1. The manager's `m.slots` and `m.meta` beside its map of tunnels.
2. The panel's login and its rate limit.
3. The row that `Accept` writes for a node after the hub's mutex was released
   (`agenthub/hub.go:123`), with two connections of one node overlapping.
