---------------------------- MODULE UsageWriter ----------------------------
(***************************************************************************)
(* The usage accounting of backend/internal/proxy/manager.go: the          *)
(* goroutine that serves a proxy session reports the session's traffic     *)
(* with recordUsage when the relay is over, one goroutine writes what is   *)
(* queued to the database (runUsageWriter), and Stop flushes the queue     *)
(* before the program exits.  usageMu is a sync.RWMutex: a Lock that waits *)
(* keeps new readers out.                                                  *)
(*                                                                         *)
(* Stop closes the mixed listener before it touches the accounting, and    *)
(* mixedServer.Close waits for every handler (module ProxyListener).  A    *)
(* Reconcile does not ask whether the manager was stopped and opens the    *)
(* listener again, so that a session accepted after a Stop's Close is on   *)
(* its own.  The Trojan sessions run inside the panel's HTTP server and    *)
(* may end at any time.                                                    *)
(*                                                                         *)
(* Init, Next and their like have the prefix Usage here, so that MCParts   *)
(* can extend this module beside another.                                  *)
(***************************************************************************)
EXTENDS Integers, Sequences, Functions

CONSTANTS Awaited,   \* sessions of the mixed listener with traffic to record
          Upgraded,  \* Trojan sessions with traffic to record
          Stopper,   \* goroutines that call Stop
          QueueSize  \* capacity of usageQueue

Session == Awaited \cup Upgraded

VARIABLES
    session,      \* where each session's goroutine is
    listening,    \* Manager.server is there
    late,         \* history: sessions accepted after a Stop closed the listener
    usageQueue,   \* channel, the oldest record first
    usageDone,    \* the channel is closed
    usageStopped, \* the flag under usageMu
    writer,       \* where runUsageWriter is
    persisting,   \* the record it has received and not yet written
    written,      \* records handed to AddClientUsage, in order
    once,         \* usageStopOnce
    stopper       \* where each Stop is

listener  == <<listening, late>>
reporting == <<session, listener>>
stopping  == <<usageDone, usageStopped, once, stopper>>
writing   == <<usageQueue, writer, persisting, written>>
usageVars == <<reporting, stopping, writing>>

UsageInit ==
    /\ session = [u \in Session |-> IF u \in Awaited THEN "new" ELSE "relay"]
    /\ listening = FALSE
    /\ late = {}
    /\ usageQueue = <<>>
    /\ usageDone = FALSE
    /\ usageStopped = FALSE
    /\ writer = "select"
    /\ persisting = {}
    /\ written = <<>>
    /\ once = "new"
    /\ stopper = [p \in Stopper |-> "out"]

-----------------------------------------------------------------------------
(* usageMu: the readers are the sessions that are sending.                  *)

Readers == {u \in Session : session[u] = "sending"}

LockWanted == \E p \in Stopper : stopper[p] = "locking"

-----------------------------------------------------------------------------
(* The session's goroutine.                                                 *)

\* The listener hands the session to its handler.
AcceptSession(u) ==
    /\ session[u] = "new"
    /\ listening
    /\ session' = [session EXCEPT ![u] = "relay"]
    /\ late' = IF \E p \in Stopper : stopper[p] # "out" THEN late \cup {u} ELSE late
    /\ UNCHANGED <<listening, stopping, writing>>

\* A Trojan session in "relay" runs or has not begun.
EndRelay(u) ==
    /\ session[u] = "relay"
    /\ session' = [session EXCEPT ![u] = "reporting"]
    /\ UNCHANGED <<listener, stopping, writing>>

\* Mutant: usageStopped is not looked at.
Enter_Unchecked(u) ==
    /\ session[u] = "reporting"
    /\ ~ LockWanted
    /\ session' = [session EXCEPT ![u] = "sending"]
    /\ UNCHANGED <<listener, stopping, writing>>

\* recordUsage up to the select: RLock, and usageStopped, which nobody changes
\* while a reader is inside.
Enter(u) ==
    /\ session[u] = "reporting"
    /\ ~ LockWanted
    /\ session' = [session EXCEPT ![u] = IF usageStopped THEN "refused" ELSE "sending"]
    /\ UNCHANGED <<listener, stopping, writing>>

\* The select of recordUsage takes any case that is ready; then RUnlock.
Ready == (IF Len(usageQueue) < QueueSize THEN {"sent"} ELSE {})
         \cup (IF usageDone THEN {"refused"} ELSE {})

Send(u) ==
    /\ session[u] = "sending"
    /\ \E case \in Ready :
          /\ session' = [session EXCEPT ![u] = case]
          /\ usageQueue' = IF case = "sent" THEN Append(usageQueue, u) ELSE usageQueue
    /\ UNCHANGED <<listener, stopping, writer, persisting, written>>

-----------------------------------------------------------------------------
(* runUsageWriter.                                                          *)

\* Either select receives a record.
Receive ==
    /\ writer \in {"select", "drain"}
    /\ persisting = {}
    /\ usageQueue # <<>>
    /\ persisting' = {Head(usageQueue)}
    /\ usageQueue' = Tail(usageQueue)
    /\ UNCHANGED <<reporting, stopping, writer, written>>

\* persistUsage: a failed AddClientUsage is logged and the record is gone, so
\* the model does not tell it from a stored one.
PersistUsage ==
    /\ \E u \in persisting : written' = Append(written, u)
    /\ persisting' = {}
    /\ UNCHANGED <<reporting, stopping, usageQueue, writer>>

SeeDone ==
    /\ writer = "select"
    /\ persisting = {}
    /\ usageDone
    /\ writer' = "drain"
    /\ UNCHANGED <<reporting, stopping, usageQueue, persisting, written>>

\* Mutant: usageDone ends the writer at once.
Exit_Undrained ==
    /\ writer = "drain"
    /\ persisting = {}
    /\ writer' = "exited"
    /\ UNCHANGED <<reporting, stopping, usageQueue, persisting, written>>

Exit ==
    /\ writer = "drain"
    /\ persisting = {}
    /\ usageQueue = <<>>
    /\ writer' = "exited"
    /\ UNCHANGED <<reporting, stopping, usageQueue, persisting, written>>

-----------------------------------------------------------------------------
(* The listener, under Manager.mu.                                          *)

\* mixedServer.Close returns when no handler of the listener is left.
HandlersGone == \A u \in Awaited : session[u] \notin {"relay", "reporting", "sending"}

\* reconcileServerLocked of any Reconcile, also one that gets the mutex after a
\* Stop: it closes a listener whose settings have changed and opens one when
\* there is none.
ReconcileServer ==
    /\ listening => HandlersGone
    /\ listening' = ~ listening
    /\ UNCHANGED <<session, late, stopping, writing>>

-----------------------------------------------------------------------------
(* Stop.                                                                    *)

\* Mutant: Close does not wait for the handlers.
CloseServer_NoWait(p) ==
    /\ stopper[p] = "out"
    /\ listening' = FALSE
    /\ stopper' = [stopper EXCEPT ![p] = "closed"]
    /\ UNCHANGED <<session, late, usageDone, usageStopped, once, writing>>

\* The section of Stop under Manager.mu.
CloseServer(p) ==
    /\ stopper[p] = "out"
    /\ HandlersGone
    /\ listening' = FALSE
    /\ stopper' = [stopper EXCEPT ![p] = "closed"]
    /\ UNCHANGED <<session, late, usageDone, usageStopped, once, writing>>

\* usageStopOnce.Do: the first caller runs the function.
EnterOnce(p) ==
    /\ stopper[p] = "closed"
    /\ once = "new"
    /\ once' = "running"
    /\ stopper' = [stopper EXCEPT ![p] = "locking"]
    /\ UNCHANGED <<reporting, usageDone, usageStopped, writing>>

\* Mutant: the flag is set and the channel is not closed.
CloseUsage_FlagOnly(p) ==
    /\ stopper[p] = "locking"
    /\ Readers = {}
    /\ usageStopped' = TRUE
    /\ stopper' = [stopper EXCEPT ![p] = "waiting"]
    /\ UNCHANGED <<reporting, usageDone, once, writing>>

\* usageMu.Lock is granted when the last reader has left.
CloseUsage(p) ==
    /\ stopper[p] = "locking"
    /\ Readers = {}
    /\ usageStopped' = TRUE
    /\ usageDone' = TRUE
    /\ stopper' = [stopper EXCEPT ![p] = "waiting"]
    /\ UNCHANGED <<reporting, once, writing>>

WaitWriter(p) ==
    /\ stopper[p] = "waiting"
    /\ writer = "exited"
    /\ once' = "done"
    /\ stopper' = [stopper EXCEPT ![p] = "returned"]
    /\ UNCHANGED <<reporting, usageDone, usageStopped, writing>>

\* The other callers of Do wait for the first and then return.
SkipOnce(p) ==
    /\ stopper[p] = "closed"
    /\ once = "done"
    /\ stopper' = [stopper EXCEPT ![p] = "returned"]
    /\ UNCHANGED <<reporting, usageDone, usageStopped, once, writing>>

Report(u) == Enter(u) \/ Send(u)

Writer == Receive \/ PersistUsage \/ SeeDone \/ Exit

Flush(p) == EnterOnce(p) \/ CloseUsage(p) \/ WaitWriter(p) \/ SkipOnce(p)

UsageNext ==
    \/ \E u \in Awaited : AcceptSession(u)
    \/ \E u \in Session : EndRelay(u) \/ Report(u)
    \/ Writer
    \/ ReconcileServer
    \/ \E p \in Stopper : CloseServer(p) \/ Flush(p)

UsageSpec == UsageInit /\ [][UsageNext]_usageVars

\* Goroutines that can run do run.  Nothing is assumed of when a relay ends or
\* of whether Stop is called.
UsageFairness ==
    /\ WF_usageVars(Writer)
    /\ \A u \in Session : WF_usageVars(Report(u))
    /\ \A p \in Stopper : WF_usageVars(Flush(p))

UsageFairSpec == UsageSpec /\ UsageFairness

-----------------------------------------------------------------------------
UsageTypeOK ==
    /\ session \in [Session -> {"new", "relay", "reporting", "sending", "sent", "refused"}]
    /\ listening \in BOOLEAN
    /\ late \in SUBSET Awaited
    /\ usageQueue \in Seq(Session)
    /\ usageDone \in BOOLEAN
    /\ usageStopped \in BOOLEAN
    /\ writer \in {"select", "drain", "exited"}
    /\ persisting \in SUBSET Session
    /\ written \in Seq(Session)
    /\ once \in {"new", "running", "done"}
    /\ stopper \in [Stopper -> {"out", "closed", "locking", "waiting", "returned"}]

\* What was accepted before Stop is in the database when Stop returns, however
\* full the queue was and whichever caller of Stop it is.
StopFlushes ==
    (\E p \in Stopper : stopper[p] = "returned") =>
        \A u \in Session : session[u] \in {"sending", "sent"} => u \in Range(written)

\* No session that the mixed listener accepted before the first Stop closed it
\* loses its traffic to the shutdown, whatever Reconciles open and close
\* meanwhile: its report comes before usageStopped.  A session of a listener
\* that a late Reconcile has opened again may lose it.
ListenerUsageKept == \A u \in Awaited : session[u] = "refused" => u \in late

\* Nothing is written once a Stop has returned: main closes the database next.
QuietAfterStop ==
    [][(\E p \in Stopper : stopper[p] = "returned") => UNCHANGED written]_written

\* A record is charged once.
ChargedOnce == IsInjective(written)

\* A session that reports gets away, even through a full queue and a Stop, and
\* a Stop that has closed the listener returns, whoever else is stopping.
UsageReturns ==
    /\ \A u \in Session : session[u] = "reporting" ~> session[u] \in {"sent", "refused"}
    /\ \A p \in Stopper : stopper[p] = "closed" ~> stopper[p] = "returned"

\* The abstract accounting.
usageStatus == [u \in Session |->
    IF session[u] \in {"new", "relay", "reporting"} THEN "none"
    ELSE IF session[u] = "refused" THEN "refused"
    ELSE IF u \in Range(written) THEN "written"
    ELSE "accepted"]

Ledger == INSTANCE UsageLedger
          WITH status <- usageStatus, open <- ~ usageStopped, flushed <- once = "done"

ImplementsLedger == Ledger!Spec
=============================================================================
