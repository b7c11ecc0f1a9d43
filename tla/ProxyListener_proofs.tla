------------------------ MODULE ProxyListener_proofs ------------------------
(***************************************************************************)
(* Theorems of ProxyListener, for any connections and any number of calls  *)
(* that close the listener.                                                *)
(***************************************************************************)
EXTENDS ProxyListener, TLAPS

Phases == {"locked", "closing", "sweeping", "waiting"}

\* Manager.mu is held exactly by the call that closes, and the first call has
\* closed the listener when a later one gets the mutex.
OneCloses ==
    /\ \A k \in Closer : closer[k] \in Phases <=> mu = k
    /\ \A k \in Closer : closer[k] = "locked" => ~ closed
    /\ \A k \in Closer : closer[k] \in {"closing", "sweeping", "waiting", "returned"} => closed
    /\ \A k \in Closer : closer[k] \in {"sweeping", "waiting", "returned"} => ~ listening
    /\ closed => mu # None \/ \E k \in Closer : closer[k] = "returned"

\* What conns names is served, and what is served is in conns; the accepting
\* goroutine holds one connection at a time.
Tracked ==
    /\ conns = Serving
    /\ acceptLoop = "exited" => closed
    /\ \A c \in Conn : handler[c] = "accepted" => acceptLoop = "track"
    /\ \A c, d \in Conn : handler[c] = "accepted" /\ handler[d] = "accepted" => c = d

\* A socket is open only as long as somebody is going to close it.
SocketsOwned ==
    \A c \in Conn :
        /\ client[c] => handler[c] \notin {"none", "backlog", "untrack", "done"}
        /\ remote[c] => handler[c] \in {"dialed", "relay", "leaving"}

Quiet == (\E k \in Closer : closer[k] = "returned") => acceptLoop = "exited" /\ Serving = {}

IInv == TypeOK /\ OneCloses /\ Tracked /\ SocketsOwned /\ SweptForGood /\ Quiet

LEMMA InitInv == Init => IInv
<1> SUFFICES ASSUME Init
             PROVE  IInv
  OBVIOUS
<1> USE ListenerAssumption DEF Init
<1>1. TypeOK
  <2>1. \A c \in Conn : (c \in Established) \in BOOLEAN
    OBVIOUS
  <2>2. [c \in Conn |-> c \in Established] \in [Conn -> BOOLEAN]
    BY <2>1, Zenon
  <2> QED
    BY <2>2 DEF TypeOK
<1>2. OneCloses
  BY DEF OneCloses, Phases
<1>3. Tracked /\ SocketsOwned
  BY DEF Tracked, SocketsOwned, Serving
<1>4. SweptForGood /\ Quiet
  BY DEF SweptForGood, Quiet
<1> QED
  BY <1>1, <1>2, <1>3, <1>4 DEF IInv

-----------------------------------------------------------------------------
(* The steps of the accepting goroutine, the handlers and the clients.      *)

Handler(c) ==
    \/ Connect(c) \/ ReadRequest(c) \/ Handle(c) \/ UpEnds(c) \/ DownEnds(c) \/ RemoteHangsUp(c)

LEMMA HandlerType ==
    ASSUME TypeOK, NEW c \in Conn, Handler(c)
    PROVE  TypeOK'
<1> USE DEF TypeOK, relays, server, manager, Goto
<1>1. CASE Connect(c)
  BY <1>1 DEF Connect
<1>2. CASE ReadRequest(c)
  BY <1>2 DEF ReadRequest
<1>3. CASE Resolve(c)
  BY <1>3 DEF Resolve
<1>4. CASE Dial(c) \/ DialFails(c)
  BY <1>4 DEF Dial, DialFails
<1>5. CASE StartRelay(c) \/ AnswerFails(c)
  BY <1>5 DEF StartRelay, AnswerFails
<1>6. CASE EndRelay(c)
  BY <1>6 DEF EndRelay
<1>7. CASE CloseSockets(c)
  BY <1>7 DEF CloseSockets
<1>8. CASE UntrackConn(c)
  BY <1>8 DEF UntrackConn
<1>9. CASE UpEnds(c) \/ DownEnds(c) \/ RemoteHangsUp(c)
  BY <1>9 DEF UpEnds, DownEnds, RemoteHangsUp
<1> QED
  BY <1>1, <1>2, <1>3, <1>4, <1>5, <1>6, <1>7, <1>8, <1>9 DEF Handler, Handle

LEMMA LoopType == TypeOK /\ Loop => TypeOK'
<1> SUFFICES ASSUME TypeOK, Loop
             PROVE  TypeOK'
  OBVIOUS
<1> USE DEF TypeOK, relays, manager
<1>1. CASE AcceptFails
  BY <1>1 DEF AcceptFails
<1>2. ASSUME NEW c \in Conn, Accept(c)
      PROVE  TypeOK'
  BY <1>2 DEF Accept
<1>3. ASSUME NEW c \in Conn, TrackConn(c)
      PROVE  TypeOK'
  BY <1>3 DEF TrackConn
<1>4. ASSUME NEW c \in Conn, TrackRefused(c)
      PROVE  TypeOK'
  BY <1>4 DEF TrackRefused
<1> QED
  BY <1>1, <1>2, <1>3, <1>4 DEF Loop

LEMMA CloseType ==
    ASSUME TypeOK, NEW k \in Closer, Close(k)
    PROVE  TypeOK'
<1> USE DEF TypeOK, relays, server, Step
<1>1. CASE Lock(k)
  BY <1>1 DEF Lock
<1>2. CASE CloseChannel(k)
  BY <1>2 DEF CloseChannel
<1>3. CASE CloseListener(k)
  BY <1>3 DEF CloseListener
<1>4. CASE SweepConns(k)
  BY <1>4 DEF SweepConns
<1>5. CASE WaitHandlers(k)
  BY <1>5 DEF WaitHandlers
<1> QED
  BY <1>1, <1>2, <1>3, <1>4, <1>5 DEF Close

LEMMA StepType == TypeOK /\ [Next]_vars => TypeOK'
<1> SUFFICES ASSUME TypeOK, [Next]_vars
             PROVE  TypeOK'
  OBVIOUS
<1>1. CASE UNCHANGED vars
  BY <1>1 DEF vars, relays, server, manager, TypeOK
<1> QED
  BY <1>1, HandlerType, LoopType, CloseType DEF Next, Handler

\* The listener, its handlers and the calls that close it keep their types.
THEOREM TypeCorrect == Spec => []TypeOK
<1>1. Init => TypeOK
  BY InitInv DEF IInv
<1> QED
  BY <1>1, StepType, PTL DEF Spec

-----------------------------------------------------------------------------
(* The invariant is inductive.                                              *)

\* A step of one handler leaves the manager and the accepting goroutine alone.
LEMMA HandlerInv ==
    ASSUME IInv, NEW c \in Conn, Handler(c)
    PROVE  IInv'
<1> USE DEF relays, server, manager, Goto
<1>1. TypeOK'
  BY HandlerType DEF IInv
<1>2. UNCHANGED <<closer, mu, closed, listening, acceptLoop>>
  BY DEF Handler, Handle, Connect, ReadRequest, Resolve, Dial, DialFails, StartRelay, AnswerFails,
         EndRelay, CloseSockets, UntrackConn, UpEnds, DownEnds, RemoteHangsUp
<1>3. OneCloses'
  BY <1>2 DEF IInv, OneCloses
<1> DEFINE before == handler[c]
           after  == handler'[c]
           Outside == {"none", "backlog", "accepted", "done"}
<1>4. /\ \A d \in Conn \ {c} : /\ handler'[d] = handler[d]
                               /\ client'[d] = client[d] /\ remote'[d] = remote[d]
      /\ after \in Outside <=> (before \in Outside \/ (before = "untrack" /\ after = "done"))
      /\ conns' = IF before = "untrack" /\ after = "done" THEN conns \ {c} ELSE conns
      /\ before = after \/ "accepted" \notin {before, after}
      /\ client'[c] => client[c] /\ after \notin {"none", "backlog", "untrack", "done"}
      /\ remote'[c] => after \in {"dialed", "relay", "leaving"}
  <2> USE DEF IInv, TypeOK, SocketsOwned
  <2>1. CASE Connect(c)
    <3>1. /\ before = "none" /\ ~ client[c] /\ ~ remote[c]
          /\ handler' = [handler EXCEPT ![c] = "backlog"]
          /\ UNCHANGED <<client, remote, conns>>
      BY <2>1 DEF Connect
    <3> QED
      BY <3>1
  <2>2. CASE ReadRequest(c) \/ Resolve(c)
    BY <2>2 DEF ReadRequest, Resolve
  <2>3. CASE Dial(c) \/ DialFails(c)
    BY <2>3 DEF Dial, DialFails
  <2>4. CASE StartRelay(c) \/ AnswerFails(c)
    BY <2>4 DEF StartRelay, AnswerFails
  <2>5. CASE EndRelay(c)
    BY <2>5 DEF EndRelay
  <2>6. CASE CloseSockets(c) \/ UntrackConn(c)
    BY <2>6 DEF CloseSockets, UntrackConn
  <2>7. CASE UpEnds(c) \/ DownEnds(c) \/ RemoteHangsUp(c)
    BY <2>7 DEF UpEnds, DownEnds, RemoteHangsUp
  <2> QED
    BY <2>1, <2>2, <2>3, <2>4, <2>5, <2>6, <2>7 DEF Handler, Handle
<1>5. Serving' = IF before = "untrack" /\ after = "done" THEN Serving \ {c} ELSE Serving
  <2>1. CASE before = "untrack" /\ after = "done"
    <3>1. \A d \in Conn : d \in Serving' <=> d \in Serving /\ d # c
      BY <1>4, <2>1 DEF Serving
    <3> QED
      BY <2>1, <3>1 DEF Serving
  <2>2. CASE ~ (before = "untrack" /\ after = "done")
    <3>1. \A d \in Conn : d \in Serving' <=> d \in Serving
      BY <1>4, <2>2 DEF Serving
    <3> QED
      BY <2>2, <3>1 DEF Serving
  <2> QED
    BY <2>1, <2>2
<1>6. Tracked'
  BY <1>2, <1>4, <1>5 DEF IInv, Tracked
<1>7. SocketsOwned'
  BY <1>4 DEF IInv, SocketsOwned
<1>8. SweptForGood' /\ Quiet'
  BY <1>2, <1>4, <1>5 DEF IInv, SweptForGood, Quiet, TypeOK
<1> QED
  BY <1>1, <1>3, <1>6, <1>7, <1>8 DEF IInv

LEMMA LoopInv == IInv /\ Loop => IInv'
<1> SUFFICES ASSUME IInv, Loop
             PROVE  IInv'
  OBVIOUS
<1>1. TypeOK'
  BY LoopType DEF IInv
<1>2. OneCloses'
  BY DEF IInv, OneCloses, Loop, AcceptFails, Accept, TrackConn, TrackRefused, manager, relays
<1> USE DEF IInv, TypeOK, OneCloses, Tracked, SocketsOwned, SweptForGood, Quiet, Serving,
            relays, manager
<1>3. CASE AcceptFails
  BY <1>1, <1>2, <1>3 DEF AcceptFails
<1>4. ASSUME NEW c \in Conn, Accept(c)
      PROVE  IInv'
  BY <1>1, <1>2, <1>4 DEF Accept
<1>5. ASSUME NEW c \in Conn, TrackConn(c)
      PROVE  IInv'
  BY <1>1, <1>2, <1>5 DEF TrackConn
<1>6. ASSUME NEW c \in Conn, TrackRefused(c)
      PROVE  IInv'
  BY <1>1, <1>2, <1>6 DEF TrackRefused
<1> QED
  BY <1>3, <1>4, <1>5, <1>6 DEF Loop

LEMMA CloseInv ==
    ASSUME IInv, NEW k \in Closer, Close(k)
    PROVE  IInv'
<1>1. TypeOK'
  BY CloseType DEF IInv
<1>2. Tracked' /\ SocketsOwned'
  <2> USE DEF IInv, TypeOK, Tracked, SocketsOwned, Serving, relays, server, Step
  <2>1. CASE Lock(k)
    BY <2>1 DEF Lock
  <2>2. CASE CloseChannel(k)
    BY <2>2 DEF CloseChannel
  <2>3. CASE CloseListener(k)
    BY <2>3 DEF CloseListener
  <2>4. CASE SweepConns(k)
    BY <2>4 DEF SweepConns
  <2>5. CASE WaitHandlers(k)
    BY <2>5 DEF WaitHandlers
  <2> QED
    BY <2>1, <2>2, <2>3, <2>4, <2>5 DEF Close
<1> USE ListenerAssumption
    DEF IInv, TypeOK, OneCloses, SweptForGood, Quiet, Phases, relays, server, Step
<1>3. CASE Lock(k)
  BY <1>1, <1>2, <1>3 DEF Lock, Serving
<1>4. CASE CloseChannel(k)
  BY <1>1, <1>2, <1>4 DEF CloseChannel, Serving
<1>5. CASE CloseListener(k)
  BY <1>1, <1>2, <1>5 DEF CloseListener, Serving
<1>6. CASE SweepConns(k)
  BY <1>1, <1>2, <1>6 DEF SweepConns, Serving
<1>7. CASE WaitHandlers(k)
  BY <1>1, <1>2, <1>7 DEF WaitHandlers, Serving
<1> QED
  BY <1>3, <1>4, <1>5, <1>6, <1>7 DEF Close

LEMMA StepInv == IInv /\ [Next]_vars => IInv'
<1> SUFFICES ASSUME IInv, [Next]_vars
             PROVE  IInv'
  OBVIOUS
<1>1. CASE UNCHANGED vars
  BY <1>1 DEF vars, relays, server, manager, IInv, TypeOK, OneCloses, Tracked, SocketsOwned,
     SweptForGood, Quiet, Serving
<1> QED
  BY <1>1, HandlerInv, LoopInv, CloseInv DEF Next, Handler

LEMMA Invariance == Spec => []IInv
BY InitInv, StepInv, PTL DEF Spec

\* A close that has returned leaves no handler and no socket behind.
THEOREM AlwaysNothingLeft == Spec => []NothingLeft
<1>1. IInv => NothingLeft
  BY DEF IInv, TypeOK, Tracked, SocketsOwned, Quiet, NothingLeft, Serving
<1> QED
  BY <1>1, Invariance, PTL

\* From the sweep on the listener serves on closed sockets only.
THEOREM AlwaysSweptForGood == Spec => []SweptForGood
<1>1. IInv => SweptForGood
  BY DEF IInv
<1> QED
  BY <1>1, Invariance, PTL
=============================================================================
