---------------------------- MODULE BatchWriter ----------------------------
(***************************************************************************)
(* The downstream direction of a relay to a Trojan client over WebSocket:  *)
(* the goroutine of mixedServer.relay copies what it reads from the remote *)
(* into a timedBatchWriter (backend/internal/proxy/websocket_relay.go) and *)
(* flushes it at the end; a timer flushes a partial batch when the remote  *)
(* falls silent.  Writers and timer callbacks exclude each other by mu,    *)
(* but a callback that was started before its timer was stopped still      *)
(* takes its turn, and is told apart by its generation.                    *)
(*                                                                         *)
(* The i-th byte the remote sends is the number i.                         *)
(***************************************************************************)
EXTENDS Integers, Sequences

CONSTANTS MaxSize,  \* webSocketRelayBatchSize
          MaxRead,  \* the size of the copy buffer
          MaxTaken  \* how much the remote sends at most: a bound of the model

ASSUME BatchAssumption ==
    /\ MaxSize \in Nat \ {0}
    /\ MaxRead \in Nat \ {0}
    /\ MaxTaken \in Nat

VARIABLES
    relay,      \* where the copying goroutine is
    taken,      \* bytes read from the remote
    todo,       \* p: what Write has still to take over
    mu,         \* who holds the mutex: nobody, the relay, a timer's callback
    buf,        \* w.buf
    batch,      \* what flushLocked has still to write
    generation, \* w.generation
    timer,      \* w.timer, named by its generation; 0 is nil
    armed,      \* timers that run, whether or not w knows them
    fired,      \* timers whose callback waits for mu
    err,        \* w.err is set
    out         \* what the client's connection accepted

copying == <<relay, taken, todo>>
timing  == <<generation, timer, armed, fired>>
vars == <<copying, mu, buf, batch, timing, err, out>>

Init ==
    /\ relay = "reading"
    /\ taken = 0
    /\ todo = <<>>
    /\ mu = "free"
    /\ buf = <<>>
    /\ batch = <<>>
    /\ generation = 0
    /\ timer = 0
    /\ armed = {}
    /\ fired = {}
    /\ err = FALSE
    /\ out = <<>>

-----------------------------------------------------------------------------
(* Timers.                                                                  *)

\* A new timer, unless one is known.
scheduleFlushLocked ==
    IF timer # 0
    THEN UNCHANGED timing
    ELSE /\ generation' = generation + 1
         /\ timer' = generation + 1
         /\ armed' = armed \cup {generation + 1}
         /\ UNCHANGED fired

\* Mutant: the stopped timer is kept.
cancelFlushLocked_Keeps ==
    /\ generation' = generation + 1
    /\ armed' = armed \ {timer}
    /\ UNCHANGED <<timer, fired>>

\* Stop has no effect on a timer that fired already.
cancelFlushLocked ==
    /\ generation' = generation + 1
    /\ timer' = 0
    /\ armed' = armed \ {timer}
    /\ UNCHANGED fired

TimerFires ==
    \E g \in armed :
       /\ armed' = armed \ {g}
       /\ fired' = fired \cup {g}
       /\ UNCHANGED <<copying, mu, buf, batch, generation, timer, err, out>>

-----------------------------------------------------------------------------
(* The relay.                                                               *)

Read ==
    /\ relay = "reading"
    /\ \E n \in 1 .. MaxRead :
          /\ taken + n =< MaxTaken
          /\ taken' = taken + n
          /\ todo' = [i \in 1 .. n |-> taken + i]
    /\ relay' = "locking"
    /\ UNCHANGED <<mu, buf, batch, timing, err, out>>

\* The remote is at its end, or failed.
EndOfInput ==
    /\ relay = "reading"
    /\ relay' = "ended"
    /\ UNCHANGED <<taken, todo, mu, buf, batch, timing, err, out>>

\* Write up to the loop.
LockWrite ==
    /\ relay = "locking"
    /\ mu = "free"
    /\ relay' = IF err THEN "ended" ELSE "writing"
    /\ mu' = IF err THEN "free" ELSE "relay"
    /\ todo' = IF err THEN <<>> ELSE todo
    /\ UNCHANGED <<taken, buf, batch, timing, err, out>>

\* Mutant: the room left in the buffer is not looked at.
space_All == Len(todo)

\* How much of p the buffer takes.
space == IF Len(todo) < MaxSize - Len(buf) THEN Len(todo) ELSE MaxSize - Len(buf)

\* The loop body of Write, up to the test for a full buffer.
Fill ==
    /\ relay = "writing"
    /\ batch = <<>> /\ ~ err
    /\ todo # <<>> /\ Len(buf) < MaxSize
    /\ buf' = buf \o SubSeq(todo, 1, space)
    /\ todo' = SubSeq(todo, space + 1, Len(todo))
    /\ IF buf = <<>> THEN scheduleFlushLocked ELSE UNCHANGED timing
    /\ UNCHANGED <<relay, taken, mu, batch, err, out>>

\* The loop body from there: flushLocked takes the buffer over.
FlushFull ==
    /\ relay = "writing"
    /\ ~ err
    /\ Len(buf) = MaxSize
    /\ cancelFlushLocked
    /\ batch' = buf
    /\ buf' = <<>>
    /\ UNCHANGED <<copying, mu, err, out>>

\* Write returns; an error ends copyRelay.
WriteReturns ==
    /\ relay = "writing"
    /\ batch = <<>>
    /\ err \/ (todo = <<>> /\ Len(buf) < MaxSize)
    /\ relay' = IF err THEN "ended" ELSE "reading"
    /\ todo' = <<>>
    /\ mu' = "free"
    /\ UNCHANGED <<taken, buf, batch, timing, err, out>>

\* Mutant: the rest is left to the timer.
LockFlush_Leaves ==
    /\ relay = "ended"
    /\ mu = "free"
    /\ relay' = "done"
    /\ UNCHANGED <<taken, todo, mu, buf, batch, timing, err, out>>

\* Flush at the end of the relay.
LockFlush ==
    /\ relay = "ended"
    /\ mu = "free"
    /\ cancelFlushLocked
    /\ IF err \/ buf = <<>>
       THEN relay' = "done" /\ UNCHANGED <<mu, buf, batch>>
       ELSE relay' = "flushing" /\ mu' = "relay" /\ batch' = buf /\ buf' = <<>>
    /\ UNCHANGED <<taken, todo, err, out>>

FlushReturns ==
    /\ relay = "flushing"
    /\ batch = <<>>
    /\ relay' = "done"
    /\ mu' = "free"
    /\ UNCHANGED <<taken, todo, buf, batch, timing, err, out>>

-----------------------------------------------------------------------------
(* The callback of a timer.                                                 *)

\* A callback that was overtaken by a cancel does nothing.
Callback ==
    /\ mu = "free"
    /\ \E g \in fired :
          /\ fired' = fired \ {g}
          /\ timer' = IF g = generation THEN 0 ELSE timer
          /\ IF g = generation /\ ~ err /\ buf # <<>>
             THEN mu' = "timer" /\ batch' = buf /\ buf' = <<>>
             ELSE UNCHANGED <<mu, buf, batch>>
    /\ UNCHANGED <<copying, generation, armed, err, out>>

CallbackReturns ==
    /\ mu = "timer"
    /\ batch = <<>>
    /\ mu' = "free"
    /\ UNCHANGED <<copying, buf, batch, timing, err, out>>

-----------------------------------------------------------------------------
(* The loop of flushLocked, for whoever holds the mutex.                    *)

\* The client's connection takes some of the batch.
DstWrite ==
    /\ batch # <<>>
    /\ \E n \in 1 .. Len(batch) :
          /\ out' = out \o SubSeq(batch, 1, n)
          /\ batch' = SubSeq(batch, n + 1, Len(batch))
    /\ UNCHANGED <<copying, mu, buf, timing, err>>

\* It fails, or takes nothing.
DstFails ==
    /\ batch # <<>>
    /\ err' = TRUE
    /\ batch' = <<>>
    /\ UNCHANGED <<copying, mu, buf, timing, out>>

-----------------------------------------------------------------------------
Next ==
    \/ Read \/ EndOfInput
    \/ LockWrite \/ Fill \/ FlushFull \/ WriteReturns
    \/ LockFlush \/ FlushReturns
    \/ TimerFires \/ Callback \/ CallbackReturns
    \/ DstWrite \/ DstFails

Spec == Init /\ [][Next]_vars

(***************************************************************************)
(* The goroutines run, timers fire, and the client's connection takes      *)
(* bytes or fails in the end; the remote may stay silent for ever.         *)
(***************************************************************************)
Fairness ==
    /\ WF_vars(LockWrite)
    /\ WF_vars(Fill)
    /\ WF_vars(FlushFull)
    /\ WF_vars(WriteReturns)
    /\ WF_vars(LockFlush)
    /\ WF_vars(FlushReturns)
    /\ WF_vars(TimerFires)
    /\ WF_vars(Callback)
    /\ WF_vars(CallbackReturns)
    /\ WF_vars(DstWrite \/ DstFails)

FairSpec == Spec /\ Fairness

-----------------------------------------------------------------------------
(* Properties.                                                              *)

\* Every variable has its type, and the buffer never outgrows the size it was
\* allocated for.
TypeOK ==
    /\ relay \in {"reading", "locking", "writing", "ended", "flushing", "done"}
    /\ taken \in Nat
    /\ todo \in Seq(Nat)
    /\ mu \in {"free", "relay", "timer"}
    /\ buf \in Seq(Nat) /\ Len(buf) =< MaxSize
    /\ batch \in Seq(Nat)
    /\ generation \in Nat
    /\ timer \in Nat
    /\ armed \subseteq 1 .. generation
    /\ fired \subseteq 1 .. generation
    /\ err \in BOOLEAN
    /\ out \in Seq(Nat)

\* Bytes in the buffer are never without a timer that will flush them: the one
\* timedBatchWriter knows, the newest, runs or its callback is about to take
\* the mutex; and no timer runs that it does not know.
BytesHaveTimer ==
    /\ buf # <<>> => timer = generation /\ timer \in armed \cup fired
    /\ armed \subseteq {timer}

Pipe == INSTANCE OrderedPipe WITH broken <- err, closed <- relay = "done"

\* relay and timedBatchWriter implement the pipe: timer and relay between them
\* write the stream in order, once, and a relay that is over left nothing.
ImplementsPipe == Pipe!Spec

\* Every byte read from the remote reaches the client, unless its connection
\* breaks, even when the remote falls silent in the middle of a batch.
AllDelivered ==
    \A i \in 1 .. MaxTaken : taken >= i ~> (Len(out) >= i \/ err)
=============================================================================
