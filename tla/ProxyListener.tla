--------------------------- MODULE ProxyListener ---------------------------
(***************************************************************************)
(* The mixed proxy listener of backend/internal/proxy/mixed.go and the two *)
(* operations of the manager that close it: Stop, and Reconcile when the   *)
(* port or the TLS settings changed (reconcileServerLocked).  Both call    *)
(* mixedServer.Close with Manager.mu held, and Close waits for every       *)
(* handler; a handler takes Manager.mu in resolve.                         *)
(*                                                                         *)
(* One listener is followed from the time it serves until it is closed;    *)
(* some connections may already be relaying at that time.                  *)
(***************************************************************************)
EXTENDS FiniteSets

CONSTANTS Conn,        \* client connections
          Established, \* those that relay when the behaviour begins
          Silent,      \* those whose remote end neither sends nor hangs up
          Closer,      \* calls of Stop and Reconcile
          None         \* Manager.mu is free

ASSUME ListenerAssumption ==
    /\ Established \subseteq Conn
    /\ Silent \subseteq Conn
    /\ None \notin Closer

VARIABLES
    handler,    \* where each connection is, from the backlog to the end
    client,     \* our side of the client's socket is open
    remote,     \* our side of the connection to the target is open
    up, down,   \* the two copying goroutines of relay
    eof,        \* the remote end has hung up
    acceptLoop, \* where the accepting goroutine is
    conns,      \* s.conns
    closed,     \* the channel s.closed is closed
    listening,  \* the listening socket is open
    closer,     \* where each Stop or Reconcile is
    mu          \* holder of Manager.mu

relays == <<client, remote, up, down, eof>>
server == <<acceptLoop, conns, closed, listening>>
manager == <<closer, mu>>
vars == <<handler, relays, server, manager>>

Init ==
    /\ handler = [c \in Conn |-> IF c \in Established THEN "relay" ELSE "none"]
    /\ client = [c \in Conn |-> c \in Established]
    /\ remote = [c \in Conn |-> c \in Established]
    /\ up = [c \in Conn |-> c \in Established]
    /\ down = [c \in Conn |-> c \in Established]
    /\ eof = [c \in Conn |-> FALSE]
    /\ acceptLoop = "accept"
    /\ conns = Established
    /\ closed = FALSE
    /\ listening = TRUE
    /\ closer = [k \in Closer |-> "idle"]
    /\ mu = None

-----------------------------------------------------------------------------
(* acceptLoop.                                                              *)

Connect(c) ==
    /\ handler[c] = "none"
    /\ listening
    /\ handler' = [handler EXCEPT ![c] = "backlog"]
    /\ UNCHANGED <<relays, server, manager>>

Accept(c) ==
    /\ acceptLoop = "accept"
    /\ listening
    /\ handler[c] = "backlog"
    /\ handler' = [handler EXCEPT ![c] = "accepted"]
    /\ client' = [client EXCEPT ![c] = TRUE]
    /\ acceptLoop' = "track"
    /\ UNCHANGED <<remote, up, down, eof, conns, closed, listening, manager>>

\* Mutant: a connection is taken although Close has begun.
TrackConn_Always(c) ==
    /\ acceptLoop = "track"
    /\ handler[c] = "accepted"
    /\ conns' = conns \cup {c}
    /\ handler' = [handler EXCEPT ![c] = "request"]
    /\ acceptLoop' = "accept"
    /\ UNCHANGED <<relays, closed, listening, manager>>

\* trackConn, under connMu; on success the handler's goroutine starts.
TrackConn(c) ==
    /\ acceptLoop = "track"
    /\ handler[c] = "accepted"
    /\ ~ closed
    /\ conns' = conns \cup {c}
    /\ handler' = [handler EXCEPT ![c] = "request"]
    /\ acceptLoop' = "accept"
    /\ UNCHANGED <<relays, closed, listening, manager>>

TrackRefused(c) ==
    /\ acceptLoop = "track"
    /\ handler[c] = "accepted"
    /\ closed
    /\ client' = [client EXCEPT ![c] = FALSE]
    /\ handler' = [handler EXCEPT ![c] = "done"]
    /\ acceptLoop' = "exited"
    /\ UNCHANGED <<remote, up, down, eof, conns, closed, listening, manager>>

AcceptFails ==
    /\ acceptLoop = "accept"
    /\ ~ listening
    /\ closed
    /\ acceptLoop' = "exited"
    /\ UNCHANGED <<handler, relays, conns, closed, listening, manager>>

-----------------------------------------------------------------------------
(* The handler of one connection.                                           *)

Goto(c, place) ==
    /\ handler' = [handler EXCEPT ![c] = place]
    /\ UNCHANGED <<server, manager>>

\* The request arrives, or the client leaves, the socket is closed under the
\* handler, or its deadline passes.
ReadRequest(c) ==
    /\ handler[c] = "request"
    /\ \E next \in {"resolve", "leaving"} : Goto(c, next)
    /\ UNCHANGED relays

\* Manager.resolve: its whole body runs under mu.
Resolve(c) ==
    /\ handler[c] = "resolve"
    /\ mu = None
    /\ \E next \in {"dial", "leaving"} : Goto(c, next)
    /\ UNCHANGED relays

\* dialVia gives up after proxyDialTotalTTL.
Dial(c) ==
    /\ handler[c] = "dial"
    /\ Goto(c, "dialed")
    /\ remote' = [remote EXCEPT ![c] = TRUE]
    /\ UNCHANGED <<client, up, down, eof>>

DialFails(c) ==
    /\ handler[c] = "dial"
    /\ Goto(c, "leaving")
    /\ UNCHANGED relays

\* The answer to the client; httpForward writes to the target instead.
StartRelay(c) ==
    /\ handler[c] = "dialed"
    /\ Goto(c, "relay")
    /\ up' = [up EXCEPT ![c] = TRUE]
    /\ down' = [down EXCEPT ![c] = TRUE]
    /\ UNCHANGED <<client, remote, eof>>

AnswerFails(c) ==
    /\ handler[c] = "dialed"
    /\ Goto(c, "leaving")
    /\ UNCHANGED relays

\* The copy towards the target ends when the client hangs up, when the target
\* takes no more, or when we have closed the client's socket.
UpEnds(c) ==
    /\ handler[c] = "relay"
    /\ up[c]
    /\ up' = [up EXCEPT ![c] = FALSE]
    /\ UNCHANGED <<handler, client, remote, down, eof, server, manager>>

RemoteHangsUp(c) ==
    /\ remote[c]
    /\ ~ eof[c]
    /\ c \notin Silent
    /\ eof' = [eof EXCEPT ![c] = TRUE]
    /\ UNCHANGED <<handler, client, remote, up, down, server, manager>>

\* The copy towards the client ends with the target's stream, or when a write
\* to the closed socket fails, for which the target has to send something.
DownEnds(c) ==
    /\ handler[c] = "relay"
    /\ down[c]
    /\ eof[c] \/ (~ client[c] /\ c \notin Silent)
    /\ down' = [down EXCEPT ![c] = FALSE]
    /\ UNCHANGED <<handler, client, remote, up, eof, server, manager>>

\* Both copies are over; relay reports the usage.
EndRelay(c) ==
    /\ handler[c] = "relay"
    /\ ~ up[c] /\ ~ down[c]
    /\ Goto(c, "leaving")
    /\ UNCHANGED relays

\* The deferred calls: both sockets are closed, then untrackConn, then wg.Done.
CloseSockets(c) ==
    /\ handler[c] = "leaving"
    /\ Goto(c, "untrack")
    /\ client' = [client EXCEPT ![c] = FALSE]
    /\ remote' = [remote EXCEPT ![c] = FALSE]
    /\ UNCHANGED <<up, down, eof>>

UntrackConn(c) ==
    /\ handler[c] = "untrack"
    /\ handler' = [handler EXCEPT ![c] = "done"]
    /\ conns' = conns \ {c}
    /\ UNCHANGED <<relays, acceptLoop, closed, listening, manager>>

-----------------------------------------------------------------------------
(* Stop and Reconcile, each with mu held from Lock to Unlock.               *)

Step(k, from, to) ==
    /\ closer[k] = from
    /\ closer' = [closer EXCEPT ![k] = to]

\* Whoever comes second finds m.server nil.
Lock(k) ==
    /\ closer[k] = "idle"
    /\ mu = None
    /\ IF closed THEN Step(k, "idle", "returned") /\ UNCHANGED mu
                 ELSE Step(k, "idle", "locked") /\ mu' = k
    /\ UNCHANGED <<handler, relays, server>>

CloseChannel(k) ==
    /\ Step(k, "locked", "closing")
    /\ closed' = TRUE
    /\ UNCHANGED <<handler, relays, acceptLoop, conns, listening, mu>>

CloseListener(k) ==
    /\ Step(k, "closing", "sweeping")
    /\ listening' = FALSE
    /\ UNCHANGED <<handler, relays, acceptLoop, conns, closed, mu>>

\* Mutant: only the listening socket is closed.
SweepConns_ListenerOnly(k) ==
    /\ Step(k, "sweeping", "waiting")
    /\ UNCHANGED <<handler, relays, server, mu>>

\* Under connMu: every connection that is still open is closed.
SweepConns(k) ==
    /\ Step(k, "sweeping", "waiting")
    /\ client' = [c \in Conn |-> client[c] /\ c \notin conns]
    /\ UNCHANGED <<handler, remote, up, down, eof, server, mu>>

Serving == {c \in Conn : handler[c] \notin {"none", "backlog", "accepted", "done"}}

\* Mutant: Close waits for the accepting goroutine only.
WaitHandlers_LoopOnly(k) ==
    /\ Step(k, "waiting", "returned")
    /\ acceptLoop = "exited"
    /\ mu' = None
    /\ UNCHANGED <<handler, relays, server>>

\* wg.Wait, then Unlock.
WaitHandlers(k) ==
    /\ Step(k, "waiting", "returned")
    /\ acceptLoop = "exited"
    /\ Serving = {}
    /\ mu' = None
    /\ UNCHANGED <<handler, relays, server>>

-----------------------------------------------------------------------------
Loop == AcceptFails \/ \E c \in Conn : Accept(c) \/ TrackConn(c) \/ TrackRefused(c)

Handle(c) ==
    \/ Resolve(c)
    \/ Dial(c) \/ DialFails(c) \/ StartRelay(c) \/ AnswerFails(c)
    \/ EndRelay(c)
    \/ CloseSockets(c) \/ UntrackConn(c)

Close(k) ==
    \/ Lock(k) \/ CloseChannel(k) \/ CloseListener(k) \/ SweepConns(k) \/ WaitHandlers(k)

Next ==
    \/ \E c \in Conn : Connect(c) \/ ReadRequest(c) \/ Handle(c) \/ UpEnds(c) \/ DownEnds(c) \/ RemoteHangsUp(c)
    \/ Loop
    \/ \E k \in Closer : Close(k)

Spec == Init /\ [][Next]_vars

\* Goroutines run, dials time out, and once begun a Stop or a Reconcile goes on.
\* A client may stay for ever (a TLS handshake lifts the deadline of its first
\* request), but not on a socket that we have closed; a remote end that is not
\* silent hangs up or sends sooner or later.
FairSpec ==
    /\ Spec
    /\ WF_vars(Loop)
    /\ \A c \in Conn : /\ WF_vars(Handle(c))
                       /\ WF_vars(ReadRequest(c) /\ ~ client[c])
                       /\ WF_vars(UpEnds(c) /\ ~ client[c])
                       /\ WF_vars(DownEnds(c))
    /\ \A k \in Closer : WF_vars(Close(k) /\ closer[k] # "idle")

-----------------------------------------------------------------------------
TypeOK ==
    /\ handler \in [Conn -> {"none", "backlog", "accepted", "request", "resolve", "dial", "dialed",
                             "relay", "leaving", "untrack", "done"}]
    /\ client \in [Conn -> BOOLEAN] /\ remote \in [Conn -> BOOLEAN]
    /\ up \in [Conn -> BOOLEAN] /\ down \in [Conn -> BOOLEAN] /\ eof \in [Conn -> BOOLEAN]
    /\ acceptLoop \in {"accept", "track", "exited"}
    /\ conns \in SUBSET Conn
    /\ closed \in BOOLEAN
    /\ listening \in BOOLEAN
    /\ closer \in [Closer -> {"idle", "locked", "closing", "sweeping", "waiting", "returned"}]
    /\ mu \in Closer \cup {None}

\* When Stop or Reconcile returns, nothing of the listener is left: no handler
\* serves, no socket is open, also not that of a connection that was accepted
\* while Close was closing the others.
NothingLeft ==
    (\E k \in Closer : closer[k] = "returned") =>
        /\ acceptLoop = "exited"
        /\ conns = {}
        /\ \A c \in Conn : handler[c] \in {"none", "backlog", "done"} /\ ~ client[c] /\ ~ remote[c]

\* No connection escapes the sweep: from then on the listener serves only on
\* sockets that are closed.
SweptForGood ==
    (\E k \in Closer : closer[k] \in {"waiting", "returned"}) => \A c \in conns : ~ client[c]

\* A close whose remaining handlers are past resolve, none of them relaying to
\* a silent target, ends them and returns, whatever their clients do.
CloseEndsRelays ==
    \A k \in Closer :
        /\ closer[k] = "waiting"
        /\ \A c \in Serving : handler[c] \notin {"request", "resolve"} /\ c \notin Silent
        ~> closer[k] = "returned"

\* mixed.go:118: Close ends long-lived connections, so that a reload or a
\* graceful exit is not blocked by them for ever.
CloseReturns == \A k \in Closer : closer[k] = "locked" ~> closer[k] = "returned"
=============================================================================
