---------------------------- MODULE PacketFrames ----------------------------
(***************************************************************************)
(* Datagrams over the byte stream of an agent session: PacketConn of       *)
(* backend/internal/agentproto/proto.go, in the direction from the panel   *)
(* to the agent (relayAgentUDP of backend/cmd/pfagent/main.go).  A         *)
(* datagram is written as a length of two bytes and its payload; the       *)
(* stream keeps the order of the bytes and nothing else.                   *)
(*                                                                         *)
(* The agent reads without a deadline, so that a Read that has begun ends  *)
(* with its datagram or with the stream.  The panel's reader in the other  *)
(* direction (readResponses, module TrojanUdp) sets a deadline and reads   *)
(* on after it, which is not modelled here.                                *)
(***************************************************************************)
EXTENDS Integers, Sequences

CONSTANTS MaxLength,  \* the longest datagram
          Buffer,     \* the size of the reader's buffer
          MaxPackets  \* bound on the datagrams

\* A byte of the stream is <<packet, position>>: the positions 1 and 2 are the
\* length, the payload begins at 3.
Header == 2

VARIABLES
    lengths,   \* of the datagrams given to Write so far
    todo,      \* bytes of the last one that Write has yet to write
    wire,      \* bytes on their way
    reader,    \* what Read is in the middle of
    received,  \* what Read returned, datagram by datagram
    closed     \* the stream

vars == <<lengths, todo, wire, reader, received, closed>>

\* Read has nothing of the frame yet.
Fresh == [at |-> "header", got |-> <<>>, length |-> 0, payload |-> <<>>, seen |-> 0]

Init ==
    /\ lengths = <<>> /\ todo = <<>> /\ wire = <<>>
    /\ reader = Fresh
    /\ received = <<>>
    /\ closed = FALSE

-----------------------------------------------------------------------------
(* Write: the whole datagram under writeMu.                                 *)

WritePacket(n) ==
    /\ ~ closed /\ todo = <<>>
    /\ Len(lengths) < MaxPackets
    /\ lengths' = Append(lengths, n)
    /\ todo' = [i \in 1 .. Header + n |-> <<Len(lengths) + 1, i>>]
    /\ UNCHANGED <<wire, reader, received, closed>>

\* writeFull: the stream takes any number of bytes at a time.
WriteSome ==
    /\ ~ closed
    /\ \E n \in 1 .. Len(todo) :
          /\ wire' = wire \o SubSeq(todo, 1, n)
          /\ todo' = SubSeq(todo, n + 1, Len(todo))
    /\ UNCHANGED <<lengths, reader, received, closed>>

-----------------------------------------------------------------------------
(* Read, a byte at a time (io.ReadFull).                                    *)

Take == wire # <<>> /\ wire' = Tail(wire)

\* What two bytes say when they are read as a length: the length of the
\* datagram whose header they are, or whatever a payload may say.
Says(high, low) ==
    IF high[1] = low[1] /\ high[2] = 1 /\ low[2] = 2 THEN {lengths[high[1]]} ELSE 0 .. MaxLength

ReadHeader ==
    /\ reader.at = "header" /\ Take
    /\ IF reader.got = <<>>
       THEN reader' = [reader EXCEPT !.got = <<Head(wire)>>]
       ELSE \E n \in Says(reader.got[1], Head(wire)) :
               reader' = [reader EXCEPT !.at = "payload", !.length = n]
    /\ UNCHANGED <<lengths, todo, received, closed>>

Kept == IF reader.length < Buffer THEN reader.length ELSE Buffer

ReadPayload ==
    /\ reader.at = "payload" /\ reader.seen < Kept /\ Take
    /\ reader' = [reader EXCEPT !.payload = Append(@, Head(wire)), !.seen = @ + 1]
    /\ UNCHANGED <<lengths, todo, received, closed>>

\* What the buffer has no room for is read and thrown away.
Discard ==
    /\ reader.at = "payload" /\ Kept <= reader.seen /\ reader.seen < reader.length /\ Take
    /\ reader' = [reader EXCEPT !.seen = @ + 1]
    /\ UNCHANGED <<lengths, todo, received, closed>>

\* Mutant: what the buffer has no room for stays in the stream.
Return_Early ==
    /\ reader.at = "payload" /\ reader.seen = Kept
    /\ received' = Append(received, reader.payload)
    /\ reader' = Fresh
    /\ UNCHANGED <<lengths, todo, wire, closed>>

Return ==
    /\ reader.at = "payload" /\ reader.seen = reader.length
    /\ received' = Append(received, reader.payload)
    /\ reader' = Fresh
    /\ UNCHANGED <<lengths, todo, wire, closed>>

\* Either end closes the stream, in the middle of a frame or not.
Close ==
    /\ ~ closed
    /\ closed' = TRUE
    /\ UNCHANGED <<lengths, todo, wire, reader, received>>

Next ==
    \/ \E n \in 0 .. MaxLength : WritePacket(n)
    \/ WriteSome \/ ReadHeader \/ ReadPayload \/ Discard \/ Return \/ Close

Spec == Init /\ [][Next]_vars

-----------------------------------------------------------------------------
TypeOK ==
    /\ reader.at \in {"header", "payload"} /\ reader.seen <= MaxLength
    /\ Len(received) <= Len(lengths)

\* However the stream cuts the frames up, the datagrams come out one for one
\* and in order, each with its own bytes and none of another's: as many of
\* them as the buffer holds (PacketConn "without ever collapsing packet
\* boundaries", proto.go:124).
DatagramsWhole ==
    \A k \in DOMAIN received :
        received[k] = [i \in 1 .. (IF lengths[k] < Buffer THEN lengths[k] ELSE Buffer)
                          |-> <<k, Header + i>>]
=============================================================================
