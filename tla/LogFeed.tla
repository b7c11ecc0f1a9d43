------------------------------- MODULE LogFeed -------------------------------
(***************************************************************************)
(* The live log: every line of the program goes to the file of the current *)
(* day (backend/internal/applog/store.go), which is started anew at        *)
(* midnight; a page of the panel follows it by asking for what comes after *)
(* its offset (LiveLogsJSON of backend/server/handlers/logs.go and         *)
(* frontend/src/pages/Logs.svelte).                                        *)
(*                                                                         *)
(* The i-th byte of the file of day d is <<d, i>>, and the file is UTF-8:  *)
(* Inner are the offsets between two bytes of one character, for every     *)
(* day's file the same.  A line ends with a character; a chunk ends where  *)
(* its limit is, also inside one, and the conversion of the chunk to JSON  *)
(* makes U+FFFD of each byte of a character that is not whole.             *)
(*                                                                         *)
(* The store's mutex makes Write and Read one step each; the handler reads *)
(* up to twice, and anything may happen in between and on the way.         *)
(***************************************************************************)
EXTENDS Integers, Sequences

CONSTANTS MaxDay,    \* bound on the midnights
          Lines,     \* bound on the lines
          MaxLine,   \* bound on the bytes of a line
          Inner,     \* offsets inside a character
          Limit,     \* liveLogChunkSize
          MaxChunks, \* chunks of one refresh
          MaxFaults  \* bound on failing rotations and lost requests

None == 0
Damaged == <<None, 0>>   \* U+FFFD, a byte of no file

VARIABLES
    today,     \* the clock
    size,      \* of the file of each day; None when there is none
    date,      \* Store.date, the day of the open file
    open,      \* Store.file: "yes", "no" for nil, "stuck" when it could not be closed
    page,      \* the browser: date, content, offset, chunks of this refresh
    request,   \* where its request is, with what it carries
    budget

store == <<size, date, open>>
vars == <<today, store, page, request, budget>>

Day == 1 .. MaxDay

NoRequest == [at |-> "none", date |-> None, day |-> None, offset |-> 0, next |-> 0, from |-> 0, more |-> FALSE]

Init ==
    /\ today = 1
    /\ size = [d \in Day |-> 0]
    /\ date = 1 /\ open = "yes"
    /\ page = [date |-> None, content |-> <<>>, offset |-> 0, chunks |-> 0]
    /\ request = NoRequest
    /\ budget = [lines |-> Lines, faults |-> MaxFaults]

-----------------------------------------------------------------------------
(* Store.                                                                   *)

Current == open = "yes" /\ date = today

Fault == budget.faults > 0 /\ budget' = [budget EXCEPT !.faults = @ - 1]

\* rotateLocked: the other days' files are removed, today's is opened, and
\* goes on where it ended when there is one.
Rotated == [d \in Day |-> IF d = today THEN size[d] ELSE 0]

\* ensureCurrentLocked, when it succeeds.  A file that could not be closed is
\* not nil, and every later rotation fails where it tries to close it again.
Sizes == IF Current THEN size ELSE Rotated

Ensured ==
    /\ open # "stuck"
    /\ date' = today /\ open' = "yes"

\* Write: the line ends with a character.
Write ==
    /\ budget.lines > 0
    /\ budget' = [budget EXCEPT !.lines = @ - 1]
    /\ Ensured
    /\ \E n \in 1 .. MaxLine :
          /\ Sizes[today] + n \notin Inner
          /\ size' = [Sizes EXCEPT ![today] = @ + n]
    /\ UNCHANGED <<today, page, request>>

\* ensureCurrentLocked fails, and the line is lost: the old file is closed and
\* the others may be removed, or it cannot be closed.
RotateFails ==
    /\ ~ Current
    /\ Fault
    /\ \/ open # "stuck" /\ open' = "no" /\ size' \in {size, Rotated}
       \/ open = "yes" /\ open' = "stuck" /\ UNCHANGED size
    /\ UNCHANGED <<today, date, page, request>>

Midnight ==
    /\ today < MaxDay
    /\ today' = today + 1
    /\ UNCHANGED <<store, page, request, budget>>

\* The program is started again; New opens the file of the day.
Restart ==
    /\ Fault
    /\ size' = Rotated /\ date' = today /\ open' = "yes"
    /\ request' = IF request.at = "none" THEN request ELSE [request EXCEPT !.at = "lost"]
    /\ UNCHANGED <<today, page>>

\* An offset behind the end begins again.
From(offset) == IF offset > Sizes[today] THEN 0 ELSE offset

Least(m, n) == IF m < n THEN m ELSE n

\* Read: what follows the offset, and no more than a chunk.
Read(offset) ==
    /\ Ensured
    /\ size' = Sizes
    /\ request' = LET from == From(offset)
                      next == from + Least(Limit, Sizes[today] - from)
                  IN [request EXCEPT !.at = "read", !.day = today, !.from = from,
                                     !.next = next, !.more = next < Sizes[today]]

-----------------------------------------------------------------------------
(* LiveLogsJSON.                                                            *)

FirstRead ==
    /\ request.at = "sent"
    /\ Read(request.offset)
    /\ UNCHANGED <<today, page, budget>>

\* Mutant: the offset of yesterday is used for the file of today.
Answer_Trusting ==
    /\ request.at = "read"
    /\ request' = [request EXCEPT !.at = "answered"]
    /\ UNCHANGED <<today, store, page, budget>>

\* The chunk is of the day the page expects, or begins the file.
Answer ==
    /\ request.at = "read"
    /\ request.date \in {None, request.day} \/ request.offset = 0
    /\ request' = [request EXCEPT !.at = "answered"]
    /\ UNCHANGED <<today, store, page, budget>>

\* It is of another day: the file is read from its beginning, and this chunk
\* is answered whatever its day.
SecondRead ==
    /\ request.at = "read"
    /\ request.date \notin {None, request.day} /\ request.offset # 0
    /\ Ensured
    /\ size' = Sizes
    /\ request' = LET next == Least(Limit, Sizes[today])
                  IN [request EXCEPT !.at = "answered", !.day = today, !.from = 0,
                                     !.next = next, !.more = next < Sizes[today]]
    /\ UNCHANGED <<today, page, budget>>

\* Neither read succeeds as long as the rotation is stuck.
ReadFails ==
    /\ open = "stuck"
    /\ request.at \in {"sent", "read"}
    /\ request.at = "read" => request.date \notin {None, request.day} /\ request.offset # 0
    /\ request' = [request EXCEPT !.at = "lost"]
    /\ UNCHANGED <<today, store, page, budget>>

\* The request or its answer is lost, or Read fails for another reason.
Lose ==
    /\ request.at \in {"sent", "read", "answered"}
    /\ Fault
    /\ request' = [request EXCEPT !.at = "lost"]
    /\ UNCHANGED <<today, store, page>>

-----------------------------------------------------------------------------
(* refresh of the page: one at a time, up to MaxChunks requests.            *)

Asking(p) == [NoRequest EXCEPT !.at = "sent", !.date = p.date, !.offset = p.offset]

Refresh ==
    /\ request.at = "none"
    /\ request' = Asking(page)
    /\ page' = [page EXCEPT !.chunks = 1]
    /\ UNCHANGED <<today, store, budget>>

\* The bytes first to last are of one character and the next one is, too.
Joined(first, last) == \A k \in first .. last : k \in Inner

\* The chunk begins or ends inside the character of its byte at this place.
Cut(place) == Joined(request.from, place - 1) \/ Joined(place, request.next)

\* The chunk as the page receives it.
Chunk == [i \in 1 .. request.next - request.from |->
             IF Cut(request.from + i) THEN Damaged ELSE <<request.day, request.from + i>>]

Shown ==
    [page EXCEPT !.date = request.day,
                 !.content = (IF request.day = page.date THEN @ ELSE <<>>) \o Chunk,
                 !.offset = request.next]

\* The chunk is shown; if there is more, it is asked for in the same refresh.
Show ==
    /\ request.at = "answered"
    /\ page' = [Shown EXCEPT !.chunks = IF request.more /\ page.chunks < MaxChunks THEN @ + 1 ELSE 0]
    /\ request' = IF request.more /\ page.chunks < MaxChunks
                  THEN Asking(Shown) ELSE NoRequest
    /\ UNCHANGED <<today, store, budget>>

\* Mutant: the page still thinks that it refreshes.
GiveUp_Stuck == request.at = "lost" /\ UNCHANGED vars

\* The error ends the refresh; the next one asks again.
GiveUp ==
    /\ request.at = "lost"
    /\ request' = NoRequest
    /\ UNCHANGED <<today, store, page, budget>>

Next ==
    \/ Write \/ RotateFails \/ Midnight \/ Restart
    \/ FirstRead \/ Answer \/ SecondRead \/ ReadFails \/ Lose
    \/ Refresh \/ Show \/ GiveUp

\* The page refreshes every two seconds and the server answers.
Live == FirstRead \/ Answer \/ SecondRead \/ ReadFails \/ Refresh \/ Show \/ GiveUp

Spec == Init /\ [][Next]_vars /\ WF_vars(Live)

-----------------------------------------------------------------------------
TypeOK ==
    /\ today \in Day /\ date \in 1 .. today /\ open \in {"yes", "no", "stuck"}
    /\ request.at \in {"none", "sent", "read", "answered", "lost"}
    /\ request.from <= request.next

\* What the page shows is the beginning of the file of one day, up to its
\* offset: no byte is missing, none is shown twice and none is of another day,
\* whatever midnights, restarts and lost answers came in between.  Characters
\* that a chunk cut in two are replaced, and there is at most one in any Limit
\* bytes.
ShowsTheFile ==
    LET Replaced(i) == page.content[i] = Damaged
    IN /\ Len(page.content) = page.offset
       /\ \A i \in 1 .. page.offset : Replaced(i) \/ page.content[i] = <<page.date, i>>
       /\ \A i, j \in 1 .. page.offset :
             Replaced(i) /\ i - 1 \notin Inner /\ Replaced(j) /\ j \notin Inner
             => Joined(i, j - 1) \/ j - i > Limit

\* Once nothing more is written on the last day the page shows all of it,
\* unless the rotation is stuck.
CatchesUp ==
    <>[](today = MaxDay /\ open # "stuck" /\ budget.lines = 0)
        => <>[](page.date = MaxDay /\ page.offset = size[MaxDay])
=============================================================================
