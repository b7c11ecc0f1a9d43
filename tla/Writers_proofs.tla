--------------------------- MODULE Writers_proofs ---------------------------
(***************************************************************************)
(* Theorems of the two writers that hand bytes and records on from a       *)
(* buffer: BatchWriter, for any batch size, copy buffer and stream, and    *)
(* UsageWriter, for any sessions, queue capacity and number of concurrent  *)
(* calls of Stop.  They share no state; each part uses its own             *)
(* specification only.                                                     *)
(***************************************************************************)
EXTENDS BatchWriter, UsageWriter, SequenceTheorems, TLAPS

-----------------------------------------------------------------------------
(* Pieces of the stream.                                                    *)

\* s holds the bytes that follow the k-th.
Follows(s, k) == \A i \in 1 .. Len(s) : s[i] = k + i

LEMMA EmptyPiece == <<>> \in Seq(Nat) /\ Len(<<>>) = 0 /\ \A k : Follows(<<>>, k)
<1>1. <<>> \in Seq(Nat) /\ Len(<<>>) = 0
  BY EmptySeq
<1> QED
  BY <1>1 DEF Follows

LEMMA JoinPieces ==
    ASSUME NEW s \in Seq(Nat), NEW t \in Seq(Nat)
    PROVE  /\ s \o t \in Seq(Nat)
           /\ Len(s \o t) = Len(s) + Len(t)
           /\ \A k \in Nat : Follows(s, k) /\ Follows(t, k + Len(s)) => Follows(s \o t, k)
<1>1. /\ s \o t \in Seq(Nat)
      /\ Len(s \o t) = Len(s) + Len(t)
      /\ \A i \in 1 .. Len(s) + Len(t) : (s \o t)[i] = IF i =< Len(s) THEN s[i] ELSE t[i - Len(s)]
      /\ Len(s) \in Nat /\ Len(t) \in Nat
  BY ConcatProperties, LenProperties
<1>2. ASSUME NEW k \in Nat, Follows(s, k), Follows(t, k + Len(s)), NEW i \in 1 .. Len(s) + Len(t)
      PROVE  (s \o t)[i] = k + i
  <2>1. CASE i =< Len(s)
    BY <1>1, <1>2, <2>1 DEF Follows
  <2>2. CASE ~ (i =< Len(s))
    <3>1. i - Len(s) \in 1 .. Len(t)
      BY <1>1, <2>2
    <3>2. t[i - Len(s)] = (k + Len(s)) + (i - Len(s))
      BY <1>2, <3>1 DEF Follows
    <3> QED
      BY <1>1, <2>2, <3>2
  <2> QED
    BY <2>1, <2>2
<1> QED
  BY <1>1, <1>2 DEF Follows

LEMMA CutPiece ==
    ASSUME NEW s \in Seq(Nat), NEW n \in 0 .. Len(s)
    PROVE  /\ SubSeq(s, 1, n) \in Seq(Nat)
           /\ Len(SubSeq(s, 1, n)) = n
           /\ SubSeq(s, n + 1, Len(s)) \in Seq(Nat)
           /\ Len(SubSeq(s, n + 1, Len(s))) = Len(s) - n
           /\ \A k \in Nat : Follows(s, k) => /\ Follows(SubSeq(s, 1, n), k)
                                              /\ Follows(SubSeq(s, n + 1, Len(s)), k + n)
<1>1. /\ Len(s) \in Nat
      /\ \A i \in 1 .. Len(s) : s[i] \in Nat
  BY LenProperties, ElementOfSeq
<1>2. /\ SubSeq(s, 1, n) \in Seq(Nat)
      /\ Len(SubSeq(s, 1, n)) = n
      /\ \A i \in 1 .. n : SubSeq(s, 1, n)[i] = s[i]
  BY <1>1, SubSeqProperties
<1>3. /\ SubSeq(s, n + 1, Len(s)) \in Seq(Nat)
      /\ Len(SubSeq(s, n + 1, Len(s))) = Len(s) - n
      /\ \A i \in 1 .. Len(s) - n : SubSeq(s, n + 1, Len(s))[i] = s[n + i]
  BY <1>1, SubSeqProperties
<1>4. ASSUME NEW k \in Nat, Follows(s, k)
      PROVE  /\ Follows(SubSeq(s, 1, n), k)
             /\ Follows(SubSeq(s, n + 1, Len(s)), k + n)
  BY <1>1, <1>2, <1>3, <1>4 DEF Follows
<1> QED
  BY <1>2, <1>3, <1>4

\* A piece that starts the stream is the start of the stream.
LEMMA Prefix ==
    ASSUME NEW s \in Seq(Nat), Follows(s, 0)
    PROVE  s = [i \in 1 .. Len(s) |-> i]
<1>1. s = [i \in 1 .. Len(s) |-> s[i]]
  BY LenProperties
<1>2. \A i \in 1 .. Len(s) : s[i] = i
  BY LenProperties DEF Follows
<1> QED
  BY <1>1, <1>2

-----------------------------------------------------------------------------
(* Type correctness.                                                        *)

\* What a pass of the loop of Write takes over fits.
LEMMA SpaceFits ==
    ASSUME TypeOK
    PROVE  /\ space \in 0 .. Len(todo)
           /\ Len(buf) + space =< MaxSize
           /\ todo # <<>> /\ Len(buf) < MaxSize => space > 0
<1>1. Len(todo) \in Nat /\ Len(buf) \in Nat /\ MaxSize \in Nat /\ Len(buf) =< MaxSize
  BY LenProperties, BatchAssumption DEF TypeOK
<1>2. todo # <<>> => Len(todo) > 0
  BY EmptySeq, LenProperties DEF TypeOK
<1> QED
  BY <1>1, <1>2 DEF space

LEMMA BatchInitType == Init => TypeOK
<1>1. <<>> \in Seq(Nat) /\ Len(<<>>) =< MaxSize
  BY EmptySeq, BatchAssumption
<1> SUFFICES ASSUME Init
             PROVE  TypeOK
  OBVIOUS
<1>2. /\ todo \in Seq(Nat) /\ batch \in Seq(Nat) /\ out \in Seq(Nat)
      /\ buf \in Seq(Nat) /\ Len(buf) =< MaxSize
  BY <1>1 DEF Init
<1>3. armed \subseteq 1 .. generation /\ fired \subseteq 1 .. generation
  BY DEF Init
<1> QED
  BY <1>2, <1>3 DEF Init, TypeOK

LEMMA ScheduleType ==
    ASSUME TypeOK, scheduleFlushLocked
    PROVE  /\ generation' \in Nat /\ timer' \in Nat
           /\ armed' \subseteq 1 .. generation' /\ fired' \subseteq 1 .. generation'
<1>1. generation \in Nat /\ 1 .. generation \subseteq 1 .. (generation + 1)
  BY DEF TypeOK
<1>2. CASE timer # 0
  BY <1>2 DEF TypeOK, scheduleFlushLocked, timing
<1>3. CASE timer = 0
  <2>1. /\ generation' = generation + 1 /\ timer' = generation + 1
        /\ armed' = armed \cup {generation + 1} /\ fired' = fired
    BY <1>3 DEF scheduleFlushLocked
  <2>2. generation + 1 \in 1 .. (generation + 1)
    BY <1>1
  <2> QED
    BY <1>1, <2>1, <2>2 DEF TypeOK
<1> QED
  BY <1>2, <1>3

LEMMA CancelType ==
    ASSUME TypeOK, cancelFlushLocked
    PROVE  /\ generation' \in Nat /\ timer' \in Nat
           /\ armed' \subseteq 1 .. generation' /\ fired' \subseteq 1 .. generation'
<1>1. generation \in Nat /\ 1 .. generation \subseteq 1 .. (generation + 1)
  BY DEF TypeOK
<1> QED
  BY <1>1 DEF TypeOK, cancelFlushLocked

LEMMA BatchStepType == TypeOK /\ [Next]_vars => TypeOK'
<1> SUFFICES ASSUME TypeOK, [Next]_vars
             PROVE  TypeOK'
  OBVIOUS
<1> USE DEF copying
<1>1. CASE Read
  <2>1. ASSUME NEW n \in 1 .. MaxRead
        PROVE  [i \in 1 .. n |-> taken + i] \in Seq(Nat)
    <3>1. n \in Nat /\ \A i \in 1 .. n : taken + i \in Nat
      BY BatchAssumption DEF TypeOK
    <3> QED
      BY <3>1
  <2> QED
    BY <1>1, <2>1, BatchAssumption DEF Read, TypeOK, timing
<1>2. CASE EndOfInput
  BY <1>2 DEF EndOfInput, TypeOK, timing
<1>3. CASE LockWrite
  BY <1>3, EmptyPiece DEF LockWrite, TypeOK, timing
<1>4. CASE Fill
  <2>1. /\ SubSeq(todo, 1, space) \in Seq(Nat) /\ Len(SubSeq(todo, 1, space)) = space
        /\ SubSeq(todo, space + 1, Len(todo)) \in Seq(Nat)
    BY SpaceFits, CutPiece DEF TypeOK
  <2>2. buf' \in Seq(Nat) /\ Len(buf') = Len(buf) + space
    BY <1>4, <2>1, JoinPieces DEF Fill, TypeOK
  <2>3. /\ generation' \in Nat /\ timer' \in Nat
        /\ armed' \subseteq 1 .. generation' /\ fired' \subseteq 1 .. generation'
    BY <1>4, ScheduleType DEF Fill, TypeOK, timing
  <2> QED
    BY <1>4, <2>1, <2>2, <2>3, SpaceFits DEF Fill, TypeOK
<1>5. CASE FlushFull
  BY <1>5, CancelType, EmptyPiece, BatchAssumption DEF FlushFull, TypeOK
<1>6. CASE WriteReturns
  BY <1>6, EmptyPiece DEF WriteReturns, TypeOK, timing
<1>7. CASE LockFlush
  <2>1. buf' \in Seq(Nat) /\ batch' \in Seq(Nat)
    BY <1>7, EmptySeq DEF LockFlush, TypeOK
  <2>2. Len(buf') =< MaxSize
    BY <1>7, EmptySeq, BatchAssumption DEF LockFlush, TypeOK
  <2> QED
    BY <1>7, <2>1, <2>2, CancelType DEF LockFlush, TypeOK
<1>8. CASE FlushReturns
  BY <1>8 DEF FlushReturns, TypeOK, timing
<1>9. CASE TimerFires
  BY <1>9 DEF TimerFires, TypeOK
<1>10. CASE Callback
  <2>1. buf' \in Seq(Nat) /\ batch' \in Seq(Nat)
    BY <1>10, EmptySeq DEF Callback, TypeOK
  <2>2. Len(buf') =< MaxSize
    BY <1>10, EmptySeq, BatchAssumption DEF Callback, TypeOK
  <2>3. timer' \in Nat /\ fired' \subseteq 1 .. generation'
    BY <1>10 DEF Callback, TypeOK
  <2> QED
    BY <1>10, <2>1, <2>2, <2>3 DEF Callback, TypeOK
<1>11. CASE CallbackReturns
  BY <1>11 DEF CallbackReturns, TypeOK, timing
<1>12. CASE DstWrite
  <2>1. PICK n \in 1 .. Len(batch) : /\ out' = out \o SubSeq(batch, 1, n)
                                     /\ batch' = SubSeq(batch, n + 1, Len(batch))
    BY <1>12 DEF DstWrite
  <2>2. n \in 0 .. Len(batch)
    BY LenProperties DEF TypeOK
  <2>3. out' \in Seq(Nat) /\ batch' \in Seq(Nat)
    BY <2>1, <2>2, CutPiece, JoinPieces DEF TypeOK
  <2> QED
    BY <1>12, <2>3 DEF DstWrite, TypeOK, timing
<1>13. CASE DstFails
  BY <1>13, EmptyPiece DEF DstFails, TypeOK, timing
<1>14. CASE UNCHANGED vars
  BY <1>14 DEF vars, TypeOK, timing
<1> QED
  BY <1>1, <1>2, <1>3, <1>4, <1>5, <1>6, <1>7, <1>8, <1>9, <1>10, <1>11, <1>12, <1>13, <1>14 DEF Next

\* The writer keeps its types, and the buffer stays within its capacity.
THEOREM BatchTypeCorrect == Spec => []TypeOK
BY BatchInitType, BatchStepType, PTL DEF Spec

-----------------------------------------------------------------------------
(* The inductive invariant.                                                 *)

\* Who holds the mutex and what is under way: a batch is out of the buffer
\* only under the mutex, nothing is held back once the connection failed, and
\* a relay that is over holds nothing.
Control ==
    /\ mu = "relay" <=> relay \in {"writing", "flushing"}
    /\ mu = "free" => batch = <<>>
    /\ buf # <<>> => batch = <<>>
    /\ err => buf = <<>> /\ batch = <<>>
    /\ relay \notin {"locking", "writing"} => todo = <<>>
    /\ relay \in {"flushing", "done"} => buf = <<>>
    /\ relay = "done" => batch = <<>>

\* The stream in its pieces: out, being written, in the buffer, not taken over.
Positions ==
    /\ Follows(out, 0)
    /\ ~ err => /\ Follows(batch, Len(out))
                /\ Follows(buf, Len(out) + Len(batch))
                /\ Follows(todo, Len(out) + Len(batch) + Len(buf))
                /\ Len(out) + Len(batch) + Len(buf) + Len(todo) = taken

\* The timer the writer knows is the newest and not yet over; a callback that
\* waits with the newest generation is that timer's.
Timers ==
    /\ BytesHaveTimer
    /\ timer # 0 => timer = generation /\ timer \in armed \cup fired
    /\ generation \in armed \cup fired => timer = generation
    /\ armed \cap fired = {}

BatchInv == TypeOK /\ Control /\ Positions /\ Timers

LEMMA BatchInitInv == Init => BatchInv
<1> SUFFICES ASSUME Init
             PROVE  BatchInv
  OBVIOUS
<1>1. Control
  BY DEF Init, Control
<1>2. Positions
  <2>1. Len(out) = 0 /\ Len(batch) = 0 /\ Len(buf) = 0 /\ Len(todo) = 0 /\ taken = 0
    BY EmptyPiece DEF Init
  <2> QED
    BY <2>1 DEF Positions, Follows
<1>3. Timers
  BY DEF Init, Timers, BytesHaveTimer
<1> QED
  BY <1>1, <1>2, <1>3, BatchInitType DEF BatchInv

LEMMA StepControl == BatchInv /\ [Next]_vars => Control'
<1> SUFFICES ASSUME BatchInv, [Next]_vars
             PROVE  Control'
  OBVIOUS
<1> USE DEF BatchInv, TypeOK, Control, copying
<1>1. CASE Read
  BY <1>1 DEF Read
<1>2. CASE EndOfInput
  BY <1>2 DEF EndOfInput
<1>3. CASE LockWrite
  BY <1>3 DEF LockWrite
<1>4. CASE Fill
  BY <1>4 DEF Fill
<1>5. CASE FlushFull
  BY <1>5 DEF FlushFull
<1>6. CASE WriteReturns
  BY <1>6 DEF WriteReturns
<1>7. CASE LockFlush
  BY <1>7 DEF LockFlush
<1>8. CASE FlushReturns
  BY <1>8 DEF FlushReturns
<1>9. CASE TimerFires
  BY <1>9 DEF TimerFires
<1>10. CASE Callback
  BY <1>10 DEF Callback
<1>11. CASE CallbackReturns
  BY <1>11 DEF CallbackReturns
<1>12. CASE DstWrite
  BY <1>12 DEF DstWrite
<1>13. CASE DstFails
  BY <1>13 DEF DstFails
<1>14. CASE UNCHANGED vars
  BY <1>14 DEF vars
<1> QED
  BY <1>1, <1>2, <1>3, <1>4, <1>5, <1>6, <1>7, <1>8, <1>9, <1>10, <1>11, <1>12, <1>13, <1>14 DEF Next

LEMMA StepTimers == BatchInv /\ [Next]_vars => Timers'
<1> SUFFICES ASSUME BatchInv, [Next]_vars
             PROVE  Timers'
  OBVIOUS
<1> USE DEF BatchInv, TypeOK, Timers, BytesHaveTimer, timing
<1>1. CASE Read
  BY <1>1 DEF Read
<1>2. CASE EndOfInput
  BY <1>2 DEF EndOfInput
<1>3. CASE LockWrite
  BY <1>3 DEF LockWrite
<1>4. CASE Fill
  <2>1. CASE buf = <<>> /\ timer = 0
    <3>1. /\ generation' = generation + 1 /\ timer' = generation + 1
          /\ armed' = armed \cup {generation + 1} /\ fired' = fired
      BY <1>4, <2>1 DEF Fill, scheduleFlushLocked
    <3>2. generation + 1 \notin fired /\ generation + 1 # 0
      OBVIOUS
    <3>3. armed = {}
      <4>1. \A g \in armed : g # 0
        OBVIOUS
      <4> QED
        BY <2>1, <4>1
    <3> QED
      BY <3>1, <3>2, <3>3
  <2>2. CASE ~ (buf = <<>> /\ timer = 0)
    <3>1. UNCHANGED timing
      BY <1>4, <2>2 DEF Fill, scheduleFlushLocked
    <3>2. timer = generation /\ timer \in armed \cup fired
      BY <2>2
    <3> QED
      BY <3>1, <3>2
  <2> QED
    BY <2>1, <2>2
<1>5. CASE FlushFull
  BY <1>5 DEF FlushFull, cancelFlushLocked
<1>6. CASE WriteReturns
  BY <1>6 DEF WriteReturns
<1>7. CASE LockFlush
  BY <1>7 DEF LockFlush, cancelFlushLocked, Control
<1>8. CASE FlushReturns
  BY <1>8 DEF FlushReturns
<1>9. CASE TimerFires
  BY <1>9 DEF TimerFires
<1>10. CASE Callback
  BY <1>10 DEF Callback, Control
<1>11. CASE CallbackReturns
  BY <1>11 DEF CallbackReturns
<1>12. CASE DstWrite
  BY <1>12 DEF DstWrite
<1>13. CASE DstFails
  BY <1>13 DEF DstFails
<1>14. CASE UNCHANGED vars
  BY <1>14 DEF vars
<1> QED
  BY <1>1, <1>2, <1>3, <1>4, <1>5, <1>6, <1>7, <1>8, <1>9, <1>10, <1>11, <1>12, <1>13, <1>14 DEF Next

LEMMA StepPositions == BatchInv /\ [Next]_vars => Positions'
<1> SUFFICES ASSUME BatchInv, [Next]_vars
             PROVE  Positions'
  OBVIOUS
<1>0. /\ Len(out) \in Nat /\ Len(batch) \in Nat /\ Len(buf) \in Nat /\ Len(todo) \in Nat
      /\ taken \in Nat
  BY LenProperties DEF BatchInv, TypeOK
<1>1. CASE Read
  <2>1. PICK n \in 1 .. MaxRead : taken' = taken + n /\ todo' = [i \in 1 .. n |-> taken + i]
    BY <1>1 DEF Read
  <2>2. n \in Nat /\ Len(todo') = n
    BY <2>1, BatchAssumption
  <2>3. UNCHANGED <<out, batch, buf, err>> /\ todo = <<>>
    BY <1>1 DEF Read, BatchInv, Control
  <2>4. Follows(todo', taken)
    BY <2>1, <2>2 DEF Follows
  <2>5. ~ err => Len(out) + Len(batch) + Len(buf) = taken
    BY <1>0, <2>3, EmptyPiece DEF BatchInv, Positions
  <2> QED
    BY <1>0, <2>1, <2>2, <2>3, <2>4, <2>5 DEF BatchInv, Positions
<1>2. CASE EndOfInput
  BY <1>2 DEF EndOfInput, BatchInv, Positions
<1>3. CASE LockWrite
  BY <1>3 DEF LockWrite, BatchInv, Positions
<1>4. CASE Fill
  <2> DEFINE k == Len(out) + Len(batch)
             piece == SubSeq(todo, 1, space)
  <2>1. /\ UNCHANGED <<out, batch, err, taken>>
        /\ buf' = buf \o piece
        /\ todo' = SubSeq(todo, space + 1, Len(todo))
        /\ ~ err
    BY <1>4 DEF Fill
  <2>2. /\ Follows(batch, Len(out)) /\ Follows(buf, k) /\ Follows(todo, k + Len(buf))
        /\ k + Len(buf) + Len(todo) = taken
        /\ k \in Nat /\ k + Len(buf) \in Nat
    BY <1>0, <2>1 DEF BatchInv, Positions
  <2>3. /\ piece \in Seq(Nat) /\ Len(piece) = space /\ space \in Nat
        /\ Len(todo') = Len(todo) - space
        /\ Follows(piece, k + Len(buf))
        /\ Follows(todo', k + Len(buf) + space)
    <3>1. space \in 0 .. Len(todo) /\ todo \in Seq(Nat)
      BY SpaceFits DEF BatchInv, TypeOK
    <3>2. /\ piece \in Seq(Nat) /\ Len(piece) = space
          /\ Len(todo') = Len(todo) - space
          /\ \A j \in Nat : Follows(todo, j) => Follows(piece, j) /\ Follows(todo', j + space)
      BY <2>1, <3>1, CutPiece
    <3> QED
      BY <1>0, <2>2, <3>1, <3>2
  <2>4. Len(buf') = Len(buf) + space /\ Follows(buf', k)
    <3>1. /\ Len(buf \o piece) = Len(buf) + Len(piece)
          /\ \A j \in Nat : Follows(buf, j) /\ Follows(piece, j + Len(buf)) => Follows(buf \o piece, j)
      BY <2>3, JoinPieces DEF BatchInv, TypeOK
    <3> QED
      BY <2>1, <2>2, <2>3, <3>1
  <2>5. k + Len(buf') = k + Len(buf) + space /\ k + Len(buf') + Len(todo') = taken
    BY <1>0, <2>2, <2>3, <2>4, SMTT(30)
  <2> QED
    BY <2>1, <2>2, <2>3, <2>4, <2>5 DEF BatchInv, Positions
<1>5. CASE FlushFull
  <2>1. /\ UNCHANGED <<out, todo, err, taken>> /\ ~ err
        /\ batch' = buf /\ buf' = <<>>
        /\ buf # <<>> /\ batch = <<>>
    BY <1>0, <1>5, EmptySeq, BatchAssumption DEF FlushFull, copying, BatchInv, Control
  <2>2. Len(batch) = 0 /\ Len(buf') = 0 /\ \A k : Follows(buf', k)
    BY <2>1, EmptyPiece
  <2> QED
    BY <1>0, <2>1, <2>2 DEF BatchInv, Positions
<1>6. CASE WriteReturns
  <2>1. UNCHANGED <<out, batch, buf, err, taken>> /\ (~ err => UNCHANGED todo)
    BY <1>6 DEF WriteReturns
  <2> QED
    BY <2>1 DEF BatchInv, Positions
<1>7. CASE LockFlush
  <2>1. UNCHANGED <<out, todo, err, taken>> /\ batch = <<>>
    BY <1>7 DEF LockFlush, BatchInv, Control
  <2>2. UNCHANGED <<buf, batch>> \/ (batch' = buf /\ buf' = <<>>)
    BY <1>7 DEF LockFlush
  <2>3. Len(batch) = 0 /\ Len(<<>>) = 0 /\ \A k : Follows(<<>>, k)
    BY <2>1, EmptyPiece
  <2> QED
    BY <1>0, <2>1, <2>2, <2>3 DEF BatchInv, Positions
<1>8. CASE FlushReturns
  BY <1>8 DEF FlushReturns, BatchInv, Positions
<1>9. CASE TimerFires
  BY <1>9 DEF TimerFires, copying, BatchInv, Positions
<1>10. CASE Callback
  <2>1. UNCHANGED <<out, todo, err, taken>> /\ batch = <<>>
    BY <1>10 DEF Callback, copying, BatchInv, Control
  <2>2. UNCHANGED <<buf, batch>> \/ (batch' = buf /\ buf' = <<>>)
    BY <1>10 DEF Callback
  <2>3. Len(batch) = 0 /\ Len(<<>>) = 0 /\ \A k : Follows(<<>>, k)
    BY <2>1, EmptyPiece
  <2> QED
    BY <1>0, <2>1, <2>2, <2>3 DEF BatchInv, Positions
<1>11. CASE CallbackReturns
  BY <1>11 DEF CallbackReturns, copying, BatchInv, Positions
<1>12. CASE DstWrite
  <2>1. PICK n \in 1 .. Len(batch) : /\ out' = out \o SubSeq(batch, 1, n)
                                     /\ batch' = SubSeq(batch, n + 1, Len(batch))
    BY <1>12 DEF DstWrite
  <2>2. UNCHANGED <<buf, todo, err, taken>> /\ batch # <<>> /\ ~ err
    BY <1>12 DEF DstWrite, copying, BatchInv, Control
  <2>3. n \in 0 .. Len(batch) /\ n \in Nat
    BY <1>0
  <2>4. /\ SubSeq(batch, 1, n) \in Seq(Nat) /\ Len(SubSeq(batch, 1, n)) = n
        /\ Len(batch') = Len(batch) - n
        /\ Follows(SubSeq(batch, 1, n), 0 + Len(out)) /\ Follows(batch', Len(out) + n)
    BY <1>0, <2>1, <2>2, <2>3, CutPiece DEF BatchInv, TypeOK, Positions
  <2>5. Len(out') = Len(out) + n /\ Follows(out', 0)
    <3> DEFINE piece == SubSeq(batch, 1, n)
    <3>1. /\ Len(out \o piece) = Len(out) + Len(piece)
          /\ \A j \in Nat : Follows(out, j) /\ Follows(piece, j + Len(out)) => Follows(out \o piece, j)
      BY <2>4, JoinPieces DEF BatchInv, TypeOK
    <3>2. 0 \in Nat /\ Follows(out, 0)
      BY DEF BatchInv, Positions
    <3> QED
      BY <2>1, <2>4, <3>1, <3>2
  <2>6. Len(out') + Len(batch') = Len(out) + Len(batch)
    BY <1>0, <2>3, <2>4, <2>5
  <2> QED
    BY <2>2, <2>4, <2>5, <2>6 DEF BatchInv, Positions
<1>13. CASE DstFails
  BY <1>13 DEF DstFails, BatchInv, Positions
<1>14. CASE UNCHANGED vars
  BY <1>14 DEF vars, copying, BatchInv, Positions
<1> QED
  BY <1>1, <1>2, <1>3, <1>4, <1>5, <1>6, <1>7, <1>8, <1>9, <1>10, <1>11, <1>12, <1>13, <1>14 DEF Next

LEMMA BatchInvariance == Spec => []BatchInv
<1>1. BatchInv /\ [Next]_vars => BatchInv'
  BY BatchStepType, StepControl, StepPositions, StepTimers DEF BatchInv
<1> QED
  BY <1>1, BatchInitInv, PTL DEF Spec

\* What the buffer holds always has the newest timer, running or about to
\* flush, and the writer knows every timer that runs.
THEOREM AlwaysHaveTimer == Spec => []BytesHaveTimer
<1>1. BatchInv => BytesHaveTimer
  BY DEF BatchInv, Timers
<1> QED
  BY <1>1, BatchInvariance, PTL

-----------------------------------------------------------------------------
(* The writer implements the pipe.                                          *)

LEMMA PipeInit == Init => Pipe!Init
BY DEF Init, Pipe!Init

LEMMA PipeStutter ==
    ASSUME UNCHANGED <<taken, out, err>>, (relay = "done") = (relay' = "done")
    PROVE  UNCHANGED Pipe!vars
BY DEF Pipe!vars

LEMMA PipeStep == BatchInv /\ [Next]_vars => [Pipe!Next]_Pipe!vars
<1> SUFFICES ASSUME BatchInv, [Next]_vars
             PROVE  Pipe!Next \/ UNCHANGED Pipe!vars
  OBVIOUS
<1>0. /\ Len(out) \in Nat /\ Len(batch) \in Nat /\ Len(buf) \in Nat /\ Len(todo) \in Nat
      /\ taken \in Nat
  BY LenProperties DEF BatchInv, TypeOK
<1>1. CASE Read
  <2>1. taken' \in Nat /\ taken' > taken
    BY <1>0, <1>1, BatchAssumption DEF Read
  <2>2. relay # "done" /\ relay' # "done" /\ UNCHANGED <<out, err>>
    BY <1>1 DEF Read
  <2>3. Pipe!Take
    BY <2>1, <2>2 DEF Pipe!Take
  <2> QED
    BY <2>3 DEF Pipe!Next
<1>2. CASE EndOfInput \/ LockWrite \/ WriteReturns
  <2>1. UNCHANGED <<taken, out, err>> /\ relay # "done" /\ relay' # "done"
    BY <1>2 DEF EndOfInput, LockWrite, WriteReturns
  <2> QED
    BY <2>1, PipeStutter
<1>3. CASE Fill \/ FlushFull \/ TimerFires \/ Callback \/ CallbackReturns
  <2>1. UNCHANGED <<taken, out, err, relay>>
    BY <1>3 DEF Fill, FlushFull, TimerFires, Callback, CallbackReturns, copying
  <2> QED
    BY <2>1, PipeStutter
<1>4. ASSUME relay # "done", relay' = "done", UNCHANGED <<taken, out, err>>,
             buf = <<>>, batch = <<>>, todo = <<>>
      PROVE  Pipe!Next
  <2>1. ~ err => Len(out) = taken
    BY <1>0, <1>4, EmptyPiece DEF BatchInv, Positions
  <2>2. Pipe!Close
    BY <1>4, <2>1 DEF Pipe!Close, BatchInv, TypeOK
  <2> QED
    BY <2>2 DEF Pipe!Next
<1>5. CASE LockFlush
  <2>1. UNCHANGED <<taken, out, err>> /\ relay # "done"
    BY <1>5 DEF LockFlush
  <2>2. CASE relay' = "done"
    <3>1. buf = <<>> /\ batch = <<>> /\ todo = <<>>
      BY <1>5, <2>2 DEF LockFlush, BatchInv, Control
    <3> QED
      BY <1>4, <2>1, <2>2, <3>1
  <2>3. CASE relay' # "done"
    BY <2>1, <2>3, PipeStutter
  <2> QED
    BY <2>2, <2>3
<1>6. CASE FlushReturns
  <2>1. /\ UNCHANGED <<taken, out, err>> /\ relay # "done" /\ relay' = "done"
        /\ buf = <<>> /\ batch = <<>> /\ todo = <<>>
    BY <1>6 DEF FlushReturns, BatchInv, Control
  <2> QED
    BY <1>4, <2>1
<1>7. CASE DstWrite
  <2>1. PICK n \in 1 .. Len(batch) : out' = out \o SubSeq(batch, 1, n)
    BY <1>7 DEF DstWrite
  <2>2. UNCHANGED <<taken, err, relay>> /\ ~ err /\ relay # "done"
    BY <1>7 DEF DstWrite, copying, BatchInv, Control
  <2>3. n \in 0 .. Len(batch) /\ n \in Nat /\ n >= 1
    BY <1>0
  <2>4. out' \in Seq(Nat) /\ Len(out') = Len(out) + n
    BY <2>1, <2>3, CutPiece, JoinPieces DEF BatchInv, TypeOK
  <2>5. Len(out') \in (Len(out) + 1) .. taken
    BY <1>0, <2>2, <2>3, <2>4 DEF BatchInv, Positions
  <2>6. out' = [i \in 1 .. Len(out') |-> i]
    BY <1>7, <2>4, StepPositions, Prefix DEF Positions, Next
  <2>7. Pipe!Deliver
    BY <2>2, <2>5, <2>6 DEF Pipe!Deliver
  <2> QED
    BY <2>7 DEF Pipe!Next
<1>8. CASE DstFails
  <2>1. /\ UNCHANGED <<taken, out, relay>> /\ err' = TRUE
        /\ ~ err /\ relay # "done"
    BY <1>8 DEF DstFails, copying, BatchInv, Control
  <2>2. Pipe!Break
    BY <2>1 DEF Pipe!Break
  <2> QED
    BY <2>2 DEF Pipe!Next
<1>9. CASE UNCHANGED vars
  <2>1. UNCHANGED <<taken, out, err, relay>>
    BY <1>9 DEF vars, copying
  <2> QED
    BY <2>1, PipeStutter
<1> QED
  BY <1>1, <1>2, <1>3, <1>5, <1>6, <1>7, <1>8, <1>9 DEF Next

\* Relay, buffer and timer together do what OrderedPipe says.
THEOREM BatchRefinement == Spec => ImplementsPipe
BY PipeInit, PipeStep, BatchInvariance, PTL DEF Spec, ImplementsPipe, Pipe!Spec

-----------------------------------------------------------------------------
(* Queues of records.                                                       *)

LEMMA AppendRange ==
    ASSUME NEW S, NEW q \in Seq(S), NEW e \in S
    PROVE  /\ Append(q, e) \in Seq(S)
           /\ Range(Append(q, e)) = Range(q) \cup {e}
           /\ IsInjective(q) /\ e \notin Range(q) => IsInjective(Append(q, e))
<1>1. /\ Append(q, e) \in Seq(S)
      /\ Len(Append(q, e)) = Len(q) + 1
      /\ \A i \in 1..Len(q) : Append(q, e)[i] = q[i]
      /\ Append(q, e)[Len(q) + 1] = e
      /\ DOMAIN q = 1..Len(q)
      /\ DOMAIN Append(q, e) = 1..(Len(q) + 1)
      /\ Len(q) \in Nat
  OBVIOUS
<1>2. Range(Append(q, e)) = Range(q) \cup {e}
  BY <1>1 DEF Range
<1>3. IsInjective(q) /\ e \notin Range(q) => IsInjective(Append(q, e))
  BY <1>1 DEF Range, IsInjective
<1> QED
  BY <1>1, <1>2, <1>3

LEMMA TailRange ==
    ASSUME NEW S, NEW q \in Seq(S), q # <<>>, IsInjective(q)
    PROVE  /\ Head(q) \in S
           /\ Tail(q) \in Seq(S)
           /\ Range(q) = Range(Tail(q)) \cup {Head(q)}
           /\ Head(q) \notin Range(Tail(q))
           /\ IsInjective(Tail(q))
<1>1. /\ Head(q) \in S /\ Tail(q) \in Seq(S)
      /\ Head(q) = q[1]
      /\ Len(q) \in Nat /\ Len(q) >= 1
      /\ Len(Tail(q)) = Len(q) - 1
      /\ \A i \in 1..(Len(q) - 1) : Tail(q)[i] = q[i + 1]
      /\ DOMAIN q = 1..Len(q)
      /\ DOMAIN Tail(q) = 1..(Len(q) - 1)
  BY EmptySeq, HeadTailProperties, LenProperties
<1>2. \A i \in 1..Len(q) : i = 1 \/ (i - 1 \in 1..(Len(q) - 1) /\ q[i] = Tail(q)[i - 1])
  BY <1>1
<1>3. Range(q) = Range(Tail(q)) \cup {Head(q)}
  <2>1. ASSUME NEW i \in 1..Len(q)
        PROVE  q[i] \in Range(Tail(q)) \cup {Head(q)}
    BY <1>1, <1>2 DEF Range
  <2>2. Range(Tail(q)) \cup {Head(q)} \subseteq Range(q)
    BY <1>1 DEF Range
  <2> QED
    BY <1>1, <2>1, <2>2 DEF Range
<1>4. Head(q) \notin Range(Tail(q))
  BY <1>1 DEF Range, IsInjective
<1>5. IsInjective(Tail(q))
  BY <1>1 DEF IsInjective
<1> QED
  BY <1>1, <1>3, <1>4, <1>5

LEMMA EmptyRange == Range(<<>>) = {} /\ IsInjective(<<>>)
<1>1. DOMAIN <<>> = {}
  <2>1. <<>> \in Seq({}) /\ Len(<<>>) = 0
    BY EmptySeq
  <2> QED
    BY <2>1, LenProperties
<1> QED
  BY <1>1 DEF Range, IsInjective

-----------------------------------------------------------------------------
(* Type correctness.                                                        *)

LEMMA UsageInitType == UsageInit => UsageTypeOK
<1>1. <<>> \in Seq(Session)
  BY EmptySeq
<1> QED
  BY <1>1 DEF UsageInit, UsageTypeOK

LEMMA UsageStepType == UsageTypeOK /\ [UsageNext]_usageVars => UsageTypeOK'
<1> SUFFICES ASSUME UsageTypeOK, [UsageNext]_usageVars
             PROVE  UsageTypeOK'
  OBVIOUS
<1> USE DEF UsageTypeOK, listener, reporting, stopping, writing
<1>1. ASSUME NEW u \in Session, EndRelay(u)
      PROVE  UsageTypeOK'
  BY <1>1 DEF EndRelay
<1>2. ASSUME NEW u \in Awaited, AcceptSession(u)
       PROVE  UsageTypeOK'
  BY <1>2 DEF AcceptSession, Session
<1>3. CASE ReconcileServer
  BY <1>3 DEF ReconcileServer
<1>4. ASSUME NEW u \in Session, Enter(u)
      PROVE  UsageTypeOK'
  BY <1>4 DEF Enter
<1>5. ASSUME NEW u \in Session, Send(u)
      PROVE  UsageTypeOK'
  BY <1>5, AppendRange DEF Send, Ready
<1>6. CASE Receive
  <2>1. Head(usageQueue) \in Session /\ Tail(usageQueue) \in Seq(Session)
    BY <1>6, HeadTailProperties DEF Receive
  <2> QED
    BY <1>6, <2>1 DEF Receive
<1>7. CASE PersistUsage
  BY <1>7, AppendRange DEF PersistUsage
<1>8. CASE SeeDone
  BY <1>8 DEF SeeDone
<1>9. CASE Exit
  BY <1>9 DEF Exit
<1>10. ASSUME NEW p \in Stopper, CloseServer(p)
      PROVE  UsageTypeOK'
  BY <1>10 DEF CloseServer
<1>11. ASSUME NEW p \in Stopper, EnterOnce(p)
      PROVE  UsageTypeOK'
  BY <1>11 DEF EnterOnce
<1>12. ASSUME NEW p \in Stopper, CloseUsage(p)
       PROVE  UsageTypeOK'
  BY <1>12 DEF CloseUsage
<1>13. ASSUME NEW p \in Stopper, WaitWriter(p)
       PROVE  UsageTypeOK'
  BY <1>13 DEF WaitWriter
<1>14. ASSUME NEW p \in Stopper, SkipOnce(p)
       PROVE  UsageTypeOK'
  BY <1>14 DEF SkipOnce
<1>15. CASE UNCHANGED usageVars
  BY <1>15 DEF usageVars
<1> QED
  BY <1>1, <1>2, <1>3, <1>4, <1>5, <1>6, <1>7, <1>8, <1>9, <1>10, <1>11, <1>12, <1>13, <1>14,
     <1>15
  DEF UsageNext, Report, Writer, Flush

\* The accounting keeps its types.
THEOREM UsageTypeCorrect == UsageSpec => []UsageTypeOK
BY UsageInitType, UsageStepType, PTL DEF UsageSpec

-----------------------------------------------------------------------------
(* The inductive invariant.                                                 *)

\* Stop's phases: at most one caller is inside the Once, and what it has done
\* so far is what the flags say.
StopPhases ==
    /\ usageStopped = usageDone
    /\ \A p, q \in Stopper : stopper[p] \in {"locking", "waiting"} /\ stopper[q] \in {"locking", "waiting"} => p = q
    /\ once = "new" => /\ ~ usageStopped
                       /\ \A p \in Stopper : stopper[p] \in {"out", "closed"}
    /\ \A p \in Stopper : stopper[p] = "locking" => ~ usageStopped
    /\ \A p \in Stopper : stopper[p] = "waiting" => usageStopped
    /\ \A p \in Stopper : stopper[p] = "returned" => once = "done"
    /\ \A p \in Stopper : stopper[p] \in {"locking", "waiting"} => once = "running"
    /\ usageStopped => \E p \in Stopper : stopper[p] # "out"
    /\ once = "done" => usageStopped /\ writer = "exited"

\* A session accepted before any Stop closed the listener is through with its
\* report when one has, and no session is under the read lock once usageStopped
\* is set.
ReportsOver ==
    /\ \A u \in Awaited : session[u] \in {"relay", "reporting", "sending"} /\ u \notin late
                            => \A p \in Stopper : stopper[p] = "out"
    /\ usageStopped => \A u \in Session : session[u] # "sending"
    /\ \A u \in Awaited : session[u] = "refused" => u \in late

WriterPhases ==
    /\ writer # "select" => usageStopped
    /\ writer = "exited" => usageQueue = <<>> /\ persisting = {}

\* A record that was sent is in one place only: queued, in the writer's hands
\* or written; no other record is anywhere.
RecordsInPlace ==
    /\ \A u \in Session : session[u] = "sent" <=> u \in Range(usageQueue) \cup persisting \cup Range(written)
    /\ IsInjective(usageQueue)
    /\ IsInjective(written)
    /\ Range(usageQueue) \cap persisting = {}
    /\ Range(usageQueue) \cap Range(written) = {}
    /\ persisting \cap Range(written) = {}
    /\ \A u, v \in persisting : u = v

UsageInv ==
    /\ UsageTypeOK
    /\ StopPhases
    /\ ReportsOver
    /\ WriterPhases
    /\ RecordsInPlace

LEMMA UsageInitInv == UsageInit => UsageInv
<1> SUFFICES ASSUME UsageInit
             PROVE  UsageInv
  OBVIOUS
<1>1. UsageTypeOK
  BY UsageInitType
<1>2. StopPhases
  BY DEF UsageInit, StopPhases
<1>3. ReportsOver /\ WriterPhases
  BY DEF Session, UsageInit, ReportsOver, WriterPhases
<1>4. RecordsInPlace
  <2>1. Range(usageQueue) = {} /\ Range(written) = {} /\ IsInjective(usageQueue) /\ IsInjective(written)
    BY EmptyRange DEF UsageInit
  <2> QED
    BY <2>1 DEF UsageInit, RecordsInPlace
<1> QED
  BY <1>1, <1>2, <1>3, <1>4 DEF UsageInv

LEMMA StepStopPhases ==
    ASSUME UsageInv, [UsageNext]_usageVars
    PROVE  StopPhases'
<1> USE DEF UsageInv, UsageTypeOK, listener, reporting, stopping, writing
<1>1. CASE UNCHANGED <<stopping, writer>>
  BY <1>1 DEF StopPhases
<1>2. ASSUME NEW u \in Session, AcceptSession(u) \/ EndRelay(u) \/ Report(u)
      PROVE  StopPhases'
  BY <1>1, <1>2 DEF AcceptSession, EndRelay, Report, Enter, Send
<1>3. CASE ReconcileServer
  BY <1>1, <1>3 DEF ReconcileServer
<1>4. CASE Writer
  <2>1. CASE Receive \/ PersistUsage
    BY <1>1, <2>1 DEF Receive, PersistUsage
  <2>2. CASE SeeDone \/ Exit
    BY <2>2 DEF SeeDone, Exit, StopPhases
  <2> QED
    BY <1>4, <2>1, <2>2 DEF Writer
<1>5. ASSUME NEW p \in Stopper, CloseServer(p)
      PROVE  StopPhases'
  BY <1>5 DEF CloseServer, StopPhases
<1>6. ASSUME NEW p \in Stopper, EnterOnce(p)
      PROVE  StopPhases'
  BY <1>6 DEF EnterOnce, StopPhases
<1>7. ASSUME NEW p \in Stopper, CloseUsage(p)
      PROVE  StopPhases'
  BY <1>7 DEF CloseUsage, StopPhases
<1>8. ASSUME NEW p \in Stopper, WaitWriter(p)
      PROVE  StopPhases'
  BY <1>8 DEF WaitWriter, StopPhases
<1>9. ASSUME NEW p \in Stopper, SkipOnce(p)
      PROVE  StopPhases'
  BY <1>9 DEF SkipOnce, StopPhases
<1> QED
  BY <1>1, <1>2, <1>3, <1>4, <1>5, <1>6, <1>7, <1>8, <1>9 DEF UsageNext, Flush, usageVars, Session

LEMMA StepReportsOver ==
    ASSUME UsageInv, [UsageNext]_usageVars
    PROVE  ReportsOver'
<1> USE DEF UsageInv, UsageTypeOK, listener, reporting, stopping, writing
<1>1. CASE UNCHANGED <<session, late, stopper, usageStopped>>
  BY <1>1 DEF ReportsOver
<1>2. ASSUME NEW u \in Session, EndRelay(u)
      PROVE  ReportsOver'
  BY <1>2 DEF EndRelay, ReportsOver
<1>3. ASSUME NEW u \in Awaited, AcceptSession(u)
      PROVE  ReportsOver'
  BY <1>3 DEF AcceptSession, ReportsOver, Session
<1>4. ASSUME NEW u \in Session, Enter(u)
      PROVE  ReportsOver'
  BY <1>4 DEF Enter, ReportsOver, StopPhases
<1>5. ASSUME NEW u \in Session, Send(u)
      PROVE  ReportsOver'
  BY <1>5 DEF Send, Ready, ReportsOver, StopPhases
<1>6. CASE Writer \/ ReconcileServer
  BY <1>1, <1>6 DEF Writer, Receive, PersistUsage, SeeDone, Exit, ReconcileServer
<1>7. ASSUME NEW p \in Stopper, CloseServer(p)
      PROVE  ReportsOver'
  BY <1>7 DEF CloseServer, HandlersGone, ReportsOver
<1>8. ASSUME NEW p \in Stopper, CloseUsage(p)
      PROVE  ReportsOver'
  BY <1>8 DEF CloseUsage, Readers, ReportsOver, StopPhases
<1>9. ASSUME NEW p \in Stopper, EnterOnce(p) \/ WaitWriter(p) \/ SkipOnce(p)
      PROVE  ReportsOver'
  BY <1>9 DEF EnterOnce, WaitWriter, SkipOnce, ReportsOver
<1> QED
  BY <1>1, <1>2, <1>3, <1>4, <1>5, <1>6, <1>7, <1>8, <1>9 DEF UsageNext, Report, Flush, usageVars

LEMMA StepWriterPhases ==
    ASSUME UsageInv, [UsageNext]_usageVars
    PROVE  WriterPhases'
<1> USE DEF UsageInv, UsageTypeOK, listener, reporting, stopping, writing
<1>1. CASE UNCHANGED <<usageStopped, writing>>
  BY <1>1 DEF WriterPhases
<1>2. ASSUME NEW u \in Session, Send(u)
      PROVE  WriterPhases'
  BY <1>2 DEF Send, WriterPhases, ReportsOver
<1>3. CASE Writer
  BY <1>3 DEF Writer, Receive, PersistUsage, SeeDone, Exit, WriterPhases, StopPhases
<1>4. ASSUME NEW p \in Stopper, CloseUsage(p)
      PROVE  WriterPhases'
  BY <1>4 DEF CloseUsage, WriterPhases
<1>5. ASSUME NEW u \in Session, AcceptSession(u) \/ EndRelay(u) \/ Enter(u)
      PROVE  WriterPhases'
  BY <1>1, <1>5 DEF AcceptSession, EndRelay, Enter
<1>6. CASE ReconcileServer
  BY <1>1, <1>6 DEF ReconcileServer
<1>7. ASSUME NEW p \in Stopper, CloseServer(p) \/ EnterOnce(p) \/ WaitWriter(p) \/ SkipOnce(p)
      PROVE  WriterPhases'
  BY <1>1, <1>7 DEF CloseServer, EnterOnce, WaitWriter, SkipOnce
<1> QED
  BY <1>1, <1>2, <1>3, <1>4, <1>5, <1>6, <1>7 DEF UsageNext, Report, Flush, usageVars, Session

\* The three moves of a record: into the queue, to the writer, to the database.
LEMMA StepRecords ==
    ASSUME UsageInv, [UsageNext]_usageVars
    PROVE  RecordsInPlace'
<1> USE DEF UsageInv, UsageTypeOK, listener, reporting, stopping, writing
<1>1. CASE UNCHANGED <<session, writing>>
  BY <1>1 DEF RecordsInPlace
<1>2. ASSUME NEW u \in Session, UNCHANGED writing,
             session[u] # "sent", NEW state \in {"relay", "reporting", "sending", "refused"},
             session' = [session EXCEPT ![u] = state]
      PROVE  RecordsInPlace'
  BY <1>2 DEF RecordsInPlace
<1>3. ASSUME NEW u \in Session, AcceptSession(u) \/ EndRelay(u) \/ Enter(u)
      PROVE  RecordsInPlace'
  <2>1. session[u] # "sent" /\ UNCHANGED writing
    BY <1>3 DEF AcceptSession, EndRelay, Enter
  <2>2. \E state \in {"relay", "reporting", "sending", "refused"} : session' = [session EXCEPT ![u] = state]
    BY <1>3 DEF AcceptSession, EndRelay, Enter
  <2> QED
    BY <1>2, <2>1, <2>2
<1>4. ASSUME NEW u \in Session, Send(u)
      PROVE  RecordsInPlace'
  <2>1. session[u] = "sending" /\ UNCHANGED <<persisting, written>>
    BY <1>4 DEF Send
  <2>2. u \notin Range(usageQueue) \cup persisting \cup Range(written)
    BY <2>1 DEF RecordsInPlace
  <2>3. CASE session' = [session EXCEPT ![u] = "refused"] /\ UNCHANGED usageQueue
    BY <1>2, <1>4, <2>1, <2>3 DEF Send
  <2>4. CASE session' = [session EXCEPT ![u] = "sent"] /\ usageQueue' = Append(usageQueue, u)
    <3>1. /\ Range(usageQueue') = Range(usageQueue) \cup {u}
          /\ IsInjective(usageQueue')
      BY <2>2, <2>4, AppendRange DEF RecordsInPlace
    <3> QED
      BY <2>1, <2>2, <2>4, <3>1 DEF RecordsInPlace
  <2> QED
    BY <1>4, <2>3, <2>4 DEF Send, Ready
<1>5. CASE Receive
  <2>1. /\ persisting = {} /\ persisting' = {Head(usageQueue)}
        /\ usageQueue' = Tail(usageQueue)
        /\ UNCHANGED <<session, written>>
    BY <1>5 DEF Receive
  <2>2. /\ Head(usageQueue) \in Session
        /\ Range(usageQueue) = Range(usageQueue') \cup {Head(usageQueue)}
        /\ Head(usageQueue) \notin Range(usageQueue')
        /\ IsInjective(usageQueue')
    BY <1>5, <2>1, TailRange DEF Receive, RecordsInPlace
  <2> QED
    BY <2>1, <2>2 DEF RecordsInPlace
<1>6. CASE PersistUsage
  <2>1. PICK u \in persisting : written' = Append(written, u)
    BY <1>6 DEF PersistUsage
  <2>2. persisting = {u} /\ persisting' = {} /\ UNCHANGED <<session, usageQueue>> /\ u \in Session
    BY <1>6, <2>1 DEF PersistUsage, RecordsInPlace
  <2>3. Range(written') = Range(written) \cup {u} /\ IsInjective(written')
    BY <2>1, <2>2, AppendRange DEF RecordsInPlace
  <2> QED
    BY <2>2, <2>3 DEF RecordsInPlace
<1>7. CASE SeeDone \/ Exit
  BY <1>7 DEF SeeDone, Exit, RecordsInPlace
<1>8. ASSUME NEW p \in Stopper, CloseServer(p) \/ Flush(p)
      PROVE  RecordsInPlace'
  BY <1>1, <1>8 DEF CloseServer, Flush, EnterOnce, CloseUsage, WaitWriter, SkipOnce
<1>9. CASE ReconcileServer
  BY <1>1, <1>9 DEF ReconcileServer
<1> QED
  BY <1>1, <1>3, <1>4, <1>5, <1>6, <1>7, <1>8, <1>9 DEF UsageNext, Report, Writer, usageVars, Session

LEMMA UsageStepInv == UsageInv /\ [UsageNext]_usageVars => UsageInv'
BY UsageStepType, StepStopPhases, StepReportsOver, StepWriterPhases, StepRecords DEF UsageInv

LEMMA UsageInvariance == UsageSpec => []UsageInv
BY UsageInitInv, UsageStepInv, PTL DEF UsageSpec

-----------------------------------------------------------------------------
(* What the invariant implies.                                              *)

\* StopFlushes: a Stop that has returned, whichever caller's, leaves no accepted
\* record in the queue or in the writer's hands.
THEOREM StopAlwaysFlushes == UsageSpec => []StopFlushes
<1>1. UsageInv => StopFlushes
  <2> SUFFICES ASSUME UsageInv, NEW p \in Stopper, stopper[p] = "returned",
                      NEW u \in Session, session[u] \in {"sending", "sent"}
               PROVE  u \in Range(written)
    BY DEF StopFlushes
  <2>1. usageStopped /\ usageQueue = <<>> /\ persisting = {}
    BY DEF UsageInv, StopPhases, WriterPhases
  <2>2. session[u] = "sent"
    BY <2>1 DEF UsageInv, ReportsOver
  <2> QED
    BY <2>1, <2>2, EmptyRange DEF UsageInv, RecordsInPlace
<1> QED
  BY <1>1, UsageInvariance, PTL

\* ListenerUsageKept: closing the listener before the accounting saves every
\* report of the sessions it had accepted by then, while Reconciles open and
\* close it as they like.
THEOREM ListenerUsageAlwaysKept == UsageSpec => []ListenerUsageKept
<1>1. UsageInv => ListenerUsageKept
  BY DEF UsageInv, ReportsOver, ListenerUsageKept
<1> QED
  BY <1>1, UsageInvariance, PTL

\* ChargedOnce: no record reaches the database twice.
THEOREM AlwaysChargedOnce == UsageSpec => []ChargedOnce
<1>1. UsageInv => ChargedOnce
  BY DEF UsageInv, RecordsInPlace, ChargedOnce
<1> QED
  BY <1>1, UsageInvariance, PTL

\* QuietAfterStop: the writer has exited when a Stop returns.
THEOREM AlwaysQuietAfterStop == UsageSpec => QuietAfterStop
<1>1. UsageInv /\ [UsageNext]_usageVars
      => [(\E p \in Stopper : stopper[p] = "returned") => UNCHANGED written]_written
  <2> SUFFICES ASSUME UsageInv, [UsageNext]_usageVars, NEW p \in Stopper, stopper[p] = "returned"
               PROVE  UNCHANGED written
    OBVIOUS
  <2>1. persisting = {}
    BY DEF UsageInv, StopPhases, WriterPhases
  <2>2. CASE Writer
    BY <2>1, <2>2 DEF Writer, Receive, PersistUsage, SeeDone, Exit
  <2> QED
    BY <2>2 DEF UsageNext, AcceptSession, Report, EndRelay, Enter, Send, ReconcileServer, CloseServer, Flush, EnterOnce, CloseUsage,
                      WaitWriter, SkipOnce, usageVars, writing
<1> QED
  BY <1>1, UsageInvariance, PTL DEF UsageSpec, QuietAfterStop

-----------------------------------------------------------------------------
(* The accounting implements the ledger.                                    *)

LEMMA LedgerInit == UsageInit => Ledger!Init
<1> SUFFICES ASSUME UsageInit
             PROVE  Ledger!Init
  OBVIOUS
<1>1. \A u \in Session : usageStatus[u] = "none"
  BY DEF UsageInit, usageStatus
<1>2. usageStatus = [u \in Session |-> "none"]
  BY <1>1 DEF usageStatus
<1> QED
  BY <1>2 DEF UsageInit, Ledger!Init

\* Steps that move no record, close nothing and return from no Stop.
LEMMA LedgerStutter ==
    ASSUME UNCHANGED <<usageStopped, once, written>>,
           \A u \in Session :
               \/ session'[u] = session[u]
               \/ {session[u], session'[u]} \subseteq {"new", "relay", "reporting"}
               \/ {session[u], session'[u]} \subseteq {"sending", "sent"}
    PROVE  UNCHANGED Ledger!vars
<1>1. \A u \in Session : usageStatus'[u] = usageStatus[u]
  BY DEF usageStatus
<1>2. UNCHANGED usageStatus
  BY <1>1 DEF usageStatus
<1> QED
  BY <1>2 DEF Ledger!vars

LEMMA LedgerStep == UsageInv /\ UsageInv' /\ [UsageNext]_usageVars => [Ledger!Next]_Ledger!vars
<1> SUFFICES ASSUME UsageInv, UsageInv', [UsageNext]_usageVars
             PROVE  [Ledger!Next]_Ledger!vars
  OBVIOUS
<1> USE DEF listener, reporting, stopping, writing
<1>1. CASE UNCHANGED usageVars
  BY <1>1, LedgerStutter DEF usageVars
<1>2. ASSUME NEW u \in Session, AcceptSession(u) \/ EndRelay(u)
      PROVE  UNCHANGED Ledger!vars
  BY <1>2, LedgerStutter DEF AcceptSession, EndRelay, UsageInv, UsageTypeOK
<1>3. CASE ReconcileServer
  BY <1>3, LedgerStutter DEF ReconcileServer
<1>4. ASSUME NEW u \in Session, Enter(u)
      PROVE  Ledger!Next
  <2>1. session[u] = "reporting" /\ u \notin Range(written) /\ UNCHANGED <<usageStopped, once, written>>
    BY <1>4 DEF Enter, UsageInv, RecordsInPlace
  <2>2. usageStatus[u] = "none"
    BY <2>1 DEF usageStatus
  <2>3. \A v \in Session : v # u => usageStatus'[v] = usageStatus[v]
    BY <1>4, <2>1 DEF Enter, usageStatus, UsageInv, UsageTypeOK
  <2>4. usageStatus'[u] = IF usageStopped THEN "refused" ELSE "accepted"
    BY <1>4, <2>1 DEF Enter, usageStatus, UsageInv, UsageTypeOK
  <2>5. usageStatus' = [usageStatus EXCEPT ![u] = IF usageStopped THEN "refused" ELSE "accepted"]
    BY <2>3, <2>4 DEF usageStatus
  <2>6. Ledger!Accept(u) \/ Ledger!Refuse(u)
    BY <2>1, <2>2, <2>5 DEF Ledger!Accept, Ledger!Refuse
  <2> QED
    BY <2>6 DEF Ledger!Next
<1>5. ASSUME NEW u \in Session, Send(u)
      PROVE  UNCHANGED Ledger!vars
  BY <1>5, LedgerStutter DEF Send, Ready, UsageInv, UsageTypeOK, StopPhases, ReportsOver
<1>6. CASE Receive \/ SeeDone \/ Exit
  BY <1>6, LedgerStutter DEF Receive, SeeDone, Exit
<1>7. CASE PersistUsage
  <2>1. PICK u \in persisting : written' = Append(written, u)
    BY <1>7 DEF PersistUsage
  <2>2. /\ u \in Session /\ session[u] = "sent" /\ u \notin Range(written)
        /\ Range(written') = Range(written) \cup {u}
        /\ UNCHANGED <<session, usageStopped, once>>
    BY <1>7, <2>1, AppendRange DEF PersistUsage, UsageInv, UsageTypeOK, RecordsInPlace
  <2>3. usageStatus[u] = "accepted" /\ usageStatus'[u] = "written"
    BY <2>2 DEF usageStatus
  <2>4. \A v \in Session : v # u => usageStatus'[v] = usageStatus[v]
    BY <2>2 DEF usageStatus
  <2>5. usageStatus' = [usageStatus EXCEPT ![u] = "written"]
    BY <2>3, <2>4 DEF usageStatus
  <2>6. once # "done"
    BY <2>1 DEF UsageInv, StopPhases, WriterPhases
  <2>7. Ledger!Write(u)
    BY <2>2, <2>3, <2>5, <2>6 DEF Ledger!Write
  <2> QED
    BY <2>2, <2>7 DEF Ledger!Next
<1>8. ASSUME NEW p \in Stopper, CloseServer(p) \/ SkipOnce(p)
      PROVE  UNCHANGED Ledger!vars
  BY <1>8, LedgerStutter DEF CloseServer, SkipOnce
<1>9. ASSUME NEW p \in Stopper, EnterOnce(p)
      PROVE  UNCHANGED Ledger!vars
  <2>1. UNCHANGED <<usageStopped, written, session>> /\ (once = "done") = (once' = "done")
    BY <1>9 DEF EnterOnce
  <2>2. UNCHANGED usageStatus
    BY <2>1 DEF usageStatus
  <2> QED
    BY <2>1, <2>2 DEF Ledger!vars
<1>10. ASSUME NEW p \in Stopper, CloseUsage(p)
      PROVE  Ledger!Next
  <2>1. UNCHANGED <<written, session, once>> /\ ~ usageStopped /\ usageStopped'
    BY <1>10 DEF CloseUsage, UsageInv, StopPhases
  <2>2. UNCHANGED usageStatus
    BY <2>1 DEF usageStatus
  <2>3. Ledger!Close
    BY <2>1, <2>2 DEF Ledger!Close
  <2> QED
    BY <2>3 DEF Ledger!Next
<1>11. ASSUME NEW p \in Stopper, WaitWriter(p)
       PROVE  Ledger!Next
  <2>1. UNCHANGED <<written, session, usageStopped>> /\ once' = "done" /\ usageStopped
    BY <1>11 DEF WaitWriter, UsageInv, StopPhases
  <2>2. UNCHANGED usageStatus
    BY <2>1 DEF usageStatus
  <2>3. \A u \in Session : session[u] \in {"sending", "sent"} => u \in Range(written)
    BY <1>11, EmptyRange DEF WaitWriter, UsageInv, StopPhases, ReportsOver, WriterPhases, RecordsInPlace
  <2>4. \A u \in Session : usageStatus[u] # "accepted"
    BY <2>3 DEF usageStatus, UsageInv, UsageTypeOK
  <2>5. Ledger!Flush
    BY <2>1, <2>2, <2>4 DEF Ledger!Flush
  <2> QED
    BY <2>5 DEF Ledger!Next
<1> QED
  BY <1>1, <1>2, <1>3, <1>4, <1>5, <1>6, <1>7, <1>8, <1>9, <1>10, <1>11
  DEF UsageNext, Report, Writer, Flush, Session

\* Queue, lock, writer and Stop together do what UsageLedger says.
THEOREM UsageRefinement == UsageSpec => ImplementsLedger
BY LedgerInit, LedgerStep, UsageInvariance, PTL DEF UsageSpec, ImplementsLedger, Ledger!Spec
=============================================================================
