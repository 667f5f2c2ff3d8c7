-------------------------------- MODULE Wire --------------------------------
(***************************************************************************)
(* One direction of a connection: CMOOSCommObject::SendPkt and ReadPkt,    *)
(* CMOOSCommPkt filling up, XPCTcpSocket and the byte stream of TCP        *)
(* between them.  recv may return any number of the bytes asked for, send  *)
(* may accept fewer than it was given, either side may fail.               *)
(***************************************************************************)
EXTENDS MOOSMsg

CONSTANTS WirePackets,     \* the lists of messages that may be sent
          ChunkRead,       \* CHUNK_READ
          MaxSent          \* bound: packets sent on the connection

\* Widths and chunks are not empty, and a packet is a list of messages.
ASSUME WireAssumption ==
    /\ IntSize \in Nat \ {0} /\ DoubleSize \in Nat \ {0} /\ ChunkRead \in Nat \ {0}
    /\ WirePackets \subseteq Seq(Message)

VARIABLES wire,       \* bytes accepted by the sender's kernel and not yet read
          tx,         \* sender: "idle", "half" (dodgy comms, between two sends), "failed"
          txRest,     \* what "half" has still to send
          sentPkts,   \* packets SendPkt returned true for
          closed,     \* the sender has closed its end
          rx,         \* the packet being filled: stream, m_nMsgLen, m_nStreamSpace
          timed,      \* ReadPkt was called with a time limit
          readPkts,   \* packets ReadPkt returned true for, as they were deserialised
          reader      \* "reading" or "threw"

wireVars == <<wire, tx, txRest, sentPkts, closed, rx, timed, readPkts, reader>>

EmptyPkt == [stream |-> <<>>, msgLen |-> 0, space |-> IntSize]

WireInit == /\ wire = <<>> /\ tx = "idle" /\ txRest = <<>> /\ sentPkts = <<>> /\ closed = FALSE
            /\ rx = EmptyPkt /\ timed = FALSE /\ readPkts = <<>> /\ reader = "reading"

----------------------------------------------------------------------------
(* CMOOSCommPkt while it is filled. *)

GetBytesRequired(p) ==
    IF Len(p.stream) < IntSize THEN IntSize - Len(p.stream) ELSE p.msgLen - Len(p.stream)

\* Mutant: the buffer keeps the size it had.
KeepSize(p, n) == p

InflateTo(p, n) == IF n <= p.space THEN p ELSE [p EXCEPT !.space = n]

OnBytesWritten(p, cells) ==
    LET q == [p EXCEPT !.stream = @ \o cells] IN
    IF Len(q.stream) = IntSize
    THEN InflateTo([q EXCEPT !.msgLen = q.stream[1][3]], q.stream[1][3])
    ELSE q

----------------------------------------------------------------------------
(* SendPkt.  A short send is an exception, after which the sender closes the socket. *)

SendPkt(list) ==
    /\ tx = "idle" /\ ~closed /\ Len(sentPkts) < MaxSent
    /\ wire' = wire \o PktToCells(list)
    /\ sentPkts' = Append(sentPkts, list)
    /\ UNCHANGED <<tx, txRest, closed, rx, timed, readPkts, reader>>

SendPktFails(list) ==
    /\ tx = "idle" /\ ~closed /\ Len(sentPkts) < MaxSent
    /\ \E n \in 0..(Len(PktToCells(list)) - 1) : wire' = wire \o SubSeq(PktToCells(list), 1, n)
    /\ tx' = "failed"
    /\ UNCHANGED <<txRest, sentPkts, closed, rx, timed, readPkts, reader>>

\* m_bFakeDodgyComms: the length word goes first, then SimulateCommsError delays or exits.
SendPktDodgy(list) ==
    /\ tx = "idle" /\ ~closed /\ Len(sentPkts) < MaxSent
    /\ LET cells == PktToCells(list) IN
       /\ wire' = wire \o SubSeq(cells, 1, IntSize)
       /\ txRest' = SubSeq(cells, IntSize + 1, Len(cells))
    /\ sentPkts' = Append(sentPkts, list)
    /\ tx' = "half"
    /\ UNCHANGED <<closed, rx, timed, readPkts, reader>>

SendRest ==
    /\ tx = "half"
    /\ wire' = wire \o txRest /\ txRest' = <<>> /\ tx' = "idle"
    /\ UNCHANGED <<sentPkts, closed, rx, timed, readPkts, reader>>

\* exit(-1) inside SimulateCommsError, or a second send that fails.
DieMidTransaction ==
    /\ tx = "half"
    /\ tx' = "failed" /\ closed' = TRUE /\ txRest' = <<>>
    /\ sentPkts' = SubSeq(sentPkts, 1, Len(sentPkts) - 1)
    /\ UNCHANGED <<wire, rx, timed, readPkts, reader>>

CloseSocket ==
    /\ tx # "half" /\ ~closed
    /\ closed' = TRUE
    /\ UNCHANGED <<wire, tx, txRest, sentPkts, rx, timed, readPkts, reader>>

----------------------------------------------------------------------------
(* ReadPkt.  The packet is complete when no more bytes are required; it is then
   deserialised and the next call starts with an empty packet. *)

Lesser(a, b) == IF a < b THEN a ELSE b

\* Mutant: every read asks for a whole chunk.
ToReceiveWholeChunk(p) == ChunkRead

ToReceive(p) == Lesser(GetBytesRequired(p), ChunkRead)

Received(n) ==
    LET p == OnBytesWritten(rx, SubSeq(wire, 1, n)) IN
    /\ IF GetBytesRequired(p) = 0
       THEN /\ rx' = EmptyPkt
            /\ readPkts' = Append(readPkts, PktFromCells(p.stream, FALSE).list)
            /\ timed' \in BOOLEAN        \* chosen by the caller of the next ReadPkt
       ELSE rx' = p /\ UNCHANGED <<readPkts, timed>>
    /\ UNCHANGED <<tx, txRest, sentPkts, closed, reader>>

\* The effect on the stream alone: fairness of reading is stated with it.
Drain(n) == /\ reader = "reading"
            /\ n \in 1..Lesser(ToReceive(rx), Len(wire))
            /\ wire' = SubSeq(wire, n + 1, Len(wire))

\* iRecieveMessage, or iReadMessageWithTimeOut when select finds the socket readable.
RecvSome == \E n \in 1..ChunkRead : Drain(n) /\ Received(n)

\* recv returns 0, or -1 with ECONNRESET, once the peer has closed.
RecvClosed ==
    /\ reader = "reading" /\ wire = <<>> /\ closed
    /\ reader' = "threw"
    /\ UNCHANGED <<wire, tx, txRest, sentPkts, closed, rx, timed, readPkts>>

\* select times out: only when a limit was given.
RecvTimeout ==
    /\ reader = "reading" /\ wire = <<>> /\ timed
    /\ reader' = "threw"
    /\ UNCHANGED <<wire, tx, txRest, sentPkts, closed, rx, timed, readPkts>>

WireNext == \/ \E l \in WirePackets : SendPkt(l) \/ SendPktFails(l) \/ SendPktDodgy(l)
            \/ SendRest \/ DieMidTransaction \/ CloseSocket
            \/ RecvSome \/ RecvClosed \/ RecvTimeout

\* The sender finishes what it has begun, and the reader reads.
WireSpec == /\ WireInit /\ [][WireNext]_wireVars
            /\ WF_wireVars(SendRest) /\ WF_wireVars(RecvClosed)
            /\ WF_wire(\E n \in 1..ChunkRead : Drain(n))

----------------------------------------------------------------------------
InFlight == [i \in 1..(Len(sentPkts) - Len(readPkts)) |-> sentPkts[Len(readPkts) + i]]

(* The connection implements the channel of packets: the packets under way are those that
   were sent and not read, and every read yields the oldest of them, as it was sent (the
   chunks of ReadPkt, short reads and deserialisation change nothing).  A packet that is
   given up half way was never sent. *)
Channel == INSTANCE PacketChannel
             WITH Packets  <- WirePackets,
                  underWay <- IF tx = "half" THEN SubSeq(InFlight, 1, Len(InFlight) - 1) ELSE InFlight,
                  received <- readPkts,
                  broken   <- tx = "failed" \/ closed
WireIsAChannel == Channel!ChannelSpec

(* A read never writes past the end of the buffer of the packet, although the buffer is
   enlarged in the middle of filling it. *)
NoOverrun == Len(rx.stream) + ToReceive(rx) <= rx.space

(* The room computed before serialising is enough: CMOOSMsg::Serialize never runs out of
   space, whose return value the callers ignore. *)
PacketsFitTheirBuffer == \A i \in DOMAIN sentPkts : PktToCells(sentPkts[i]) # Unserialisable

(* A packet that was sent is read, even when the sender closes the socket right after,
   unless the reader had given up. *)
SentIsRead == \A n \in 1..MaxSent :
    (Len(sentPkts) >= n /\ tx # "half") ~> (Len(readPkts) >= n \/ reader = "threw")

(* The safety of a connection: it is a channel, and neither end oversteps its buffer. *)
PacketsGetAcross == WireIsAChannel /\ [](NoOverrun /\ PacketsFitTheirBuffer)
============================================================================
