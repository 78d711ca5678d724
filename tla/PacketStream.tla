---------------------------- MODULE PacketStream ----------------------------
(* From the byte stream of a connection to packets: PacketProtocolLen, the   *)
(* IoBuffer a socket reads into, handleRead() and SocketHandler::onData().   *)
(* The peer encodes packets; the network cuts them anywhere; a buffer that   *)
(* has served one connection is taken from the pool for the next one.        *)
(*                                                                           *)
(* An operator BadX is a faulty variant of X that the specification does not *)
(* use: it serves to see the property that guards against the slip fail.     *)
EXTENDS Integers, Sequences, Flatten

CONSTANTS
    Capacity,   \* the initial capacity of an IoBuffer (4096 in the code)
    MaxLen,     \* maxLen of decode() (65535 in the code)
    Lens,       \* the payload sizes the peer sends
    MaxPackets, MaxConns   \* bounds: packets of a connection, connections

Header == 4
Bit16 == 65536
Bit24 == 16777216

\* The length of a packet is an uint32_t.
Assumption ==
    /\ Capacity \in Nat \ {0}
    /\ MaxLen \in Nat
    /\ Lens \subseteq Nat /\ \A len \in Lens : (len + Header) \div Bit24 < 256
    /\ MaxPackets \in Nat /\ MaxConns \in Nat \ {0}

VARIABLES
    buf,        \* the IoBuffer: m_data, m_head, m_tail
    npc,        \* the net thread: out of handleRead(), reading, parsing, closed
    conns,      \* how many connections there were
    \* the peer and the network
    fin,        \* the peer has closed
    sent,       \* the payloads sent on this connection
    wire,       \* the bytes sent and not read
    delivered   \* what onPacket() has got

vars == <<buf, npc, conns, fin, sent, wire, delivered>>

Junk == <<0, 0, 0>>   \* what malloc() returns

-----------------------------------------------------------------------------
(* PacketProtocolLen::encode(): the length of the whole packet, high byte    *)
(* first, then the payload.  A payload byte is <<connection, packet, index>>,*)
(* a byte v of the length <<0, 0, v>>.                                       *)
Byte(v) == <<0, 0, v % 256>>
LenBytes(n) == << Byte(n \div Bit24), Byte(n \div Bit16), Byte(n \div 256), Byte(n) >>
Payload(c, p, len) == [i \in 1 .. len |-> <<c, p, i>>]
Encode(c, p, len) == LenBytes(len + Header) \o Payload(c, p, len)

(* IoBuffer *)
Size(b) == b.tail - b.head
Remaining(b) == Len(b.data) - b.tail
Content(b) == SubSeq(b.data, b.head + 1, b.tail)

doubleCapacity(b) ==
    [data |-> b.data \o [i \in 1 .. Len(b.data) |-> Junk], head |-> b.head, tail |-> b.tail]

\* readN()
ReadN(b, n) == IF b.head + n = b.tail THEN [b EXCEPT !.head = 0, !.tail = 0]
               ELSE [b EXCEPT !.head = @ + n]

\* read() into the tail, then writeN(): at the end of the array the content is
\* moved to its beginning.
Store(b, bytes) ==
    [data |-> [i \in 1 .. Len(b.data) |->
                  IF i > b.tail /\ i <= b.tail + Len(bytes) THEN bytes[i - b.tail] ELSE b.data[i]],
     head |-> b.head, tail |-> b.tail + Len(bytes)]
WriteN(b) ==
    IF b.tail = Len(b.data) /\ b.head # 0
    THEN [data |-> [i \in 1 .. Len(b.data) |->
                       IF i <= Size(b) THEN b.data[i + b.head] ELSE b.data[i]],
          head |-> 0, tail |-> Size(b)]
    ELSE b

\* PacketProtocolLen::decode()
PacketLen(b) == LET d == Content(b)
                IN  d[1][3] * Bit24 + d[2][3] * Bit16 + d[3][3] * 256 + d[4][3]
Decode(b) ==
    IF Size(b) < Header THEN "Less"
    ELSE IF PacketLen(b) > MaxLen THEN "Error"
    ELSE IF Size(b) < PacketLen(b) THEN "Less"
    ELSE "Normal"

-----------------------------------------------------------------------------
Fresh == [data |-> [i \in 1 .. Capacity |-> Junk], head |-> 0, tail |-> 0]

Init ==
    /\ buf = Fresh /\ npc = "out" /\ conns = 1
    /\ fin = FALSE /\ sent = <<>> /\ wire = <<>> /\ delivered = <<>>

\* The peer sends a packet, or closes.
PeerSend(len) ==
    /\ ~fin /\ npc # "closed" /\ Len(sent) < MaxPackets
    /\ sent' = Append(sent, Payload(conns, Len(sent) + 1, len))
    /\ wire' = wire \o Encode(conns, Len(sent) + 1, len)
    /\ UNCHANGED <<buf, npc, conns, fin, delivered>>

PeerClose ==
    /\ ~fin /\ fin' = TRUE
    /\ UNCHANGED <<buf, npc, conns, sent, wire, delivered>>

\* handleRead(): a full buffer is doubled; read() returns some of what is there.
ReadSome(n) ==
    /\ npc \in {"out", "read"} /\ n \in 1 .. Len(wire)
    /\ LET b == IF Remaining(buf) = 0 THEN doubleCapacity(buf) ELSE buf IN
          /\ n <= Remaining(b)
          /\ buf' = WriteN(Store(b, SubSeq(wire, 1, n)))
    /\ wire' = SubSeq(wire, n + 1, Len(wire))
    /\ npc' = "read"
    /\ UNCHANGED <<conns, fin, sent, delivered>>

\* EAGAIN: the rest is on its way; onData() follows.
ReadAgain ==
    /\ npc = "read"
    /\ ~(fin /\ wire = <<>>)
    /\ npc' = "parse"
    /\ UNCHANGED <<buf, conns, fin, sent, wire, delivered>>

\* forceClose(): the buffer is reset and goes back to the pool.
BadClosed == npc' = "closed" /\ UNCHANGED buf
Closed == npc' = "closed" /\ buf' = [buf EXCEPT !.head = 0, !.tail = 0]

\* End of the stream, or an error: what was read and not parsed is lost.
ReadEnd ==
    /\ npc \in {"out", "read"}
    /\ Closed
    /\ UNCHANGED <<conns, fin, sent, wire, delivered>>

\* onData(): one round of its loop.
ParseNormal ==
    /\ npc = "parse" /\ Decode(buf) = "Normal"
    /\ delivered' = Append(delivered, SubSeq(Content(buf), Header + 1, PacketLen(buf)))
    /\ buf' = ReadN(buf, PacketLen(buf))
    /\ UNCHANGED <<npc, conns, fin, sent, wire>>

ParseLess ==
    /\ npc = "parse" /\ Decode(buf) = "Less"
    /\ npc' = "out"
    /\ UNCHANGED <<buf, conns, fin, sent, wire, delivered>>

ParseError ==
    /\ npc = "parse" /\ Decode(buf) = "Error"
    /\ Closed
    /\ UNCHANGED <<conns, fin, sent, wire, delivered>>

\* Another connection gets the buffer from the pool.
NextConn ==
    /\ npc = "closed" /\ conns < MaxConns
    /\ conns' = conns + 1
    /\ npc' = "out" /\ fin' = FALSE
    /\ sent' = <<>> /\ wire' = <<>> /\ delivered' = <<>>
    /\ UNCHANGED buf

Next ==
    \/ \E len \in Lens : PeerSend(len)
    \/ \E n \in 1 .. Len(wire) : ReadSome(n)
    \/ PeerClose \/ ReadAgain \/ ReadEnd \/ ParseNormal \/ ParseLess \/ ParseError \/ NextConn

Spec == Init /\ [][Next]_vars

-----------------------------------------------------------------------------
(* Properties *)

(* m_head <= m_tail <= m_capacity, and the asserts of readN() and writeN().  *)
TypeOK ==
    /\ buf.head \in 0 .. buf.tail
    /\ buf.tail \in 0 .. Len(buf.data)
    /\ buf.head = buf.tail => buf.head = 0
    /\ npc \in {"out", "read", "parse", "closed"}
    /\ conns \in 1 .. MaxConns
    /\ fin \in BOOLEAN

(* The packets of this connection as they are sent.                          *)
Encoded == [p \in DOMAIN sent |-> Encode(conns, p, Len(sent[p]))]

(* However the network cuts the stream, wherever the buffer is compacted or  *)
(* doubled and whoever used it before, no byte is lost, repeated or moved:   *)
(* the packets not delivered yet are what the buffer holds and what is on    *)
(* its way.                                                                  *)
NoByteLost ==
    npc # "closed" =>
        Content(buf) \o wire = Flatten(SubSeq(Encoded, Len(delivered) + 1, Len(sent)))

(* The handler gets the packets as they were sent, in order.                 *)
DeliveredAsSent ==
    /\ Len(delivered) <= Len(sent)
    /\ \A p \in DOMAIN delivered : delivered[p] = sent[p]

(* handleRead() returns with no complete packet left in the buffer: the next *)
(* event comes only with new bytes, so a packet left behind would wait for   *)
(* them.                                                                     *)
NothingLeft ==
    npc = "out" /\ Size(buf) >= Header => Size(buf) < PacketLen(buf)
=============================================================================
