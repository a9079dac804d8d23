-------------------------- MODULE StreamReassembly --------------------------
(***************************************************************************)
(* The sniffed TCP stream of the solar inverter's dongle                   *)
(* (siseli_local/parsers.py 47-82, 436-478, 519-651, core.py 398-483):     *)
(* segments arrive lost, twice, cut differently or out of order and are    *)
(* put together again; whole MQTT packets are taken from the front of the  *)
(* stream.  A byte is represented by its position in what was sent; each   *)
(* packet has PacketLen bytes, of which only the first looks like one.     *)
(***************************************************************************)
EXTENDS Integers, Sequences, FiniteSetsExt

CONSTANTS
  SeqSpace,             \* 2^32
  FirstSeq,           \* sequence number of the first byte
  NumPackets,         \* bound: packets sent in a connection
  PacketLen,
  MaxSegment,         \* bound: bytes in a segment
  MaxPendingSegments,
  MaxPendingBytes,
  MaxStreamBuffer

ASSUME StreamAssumption ==
  /\ {SeqSpace, NumPackets, PacketLen, MaxSegment} \subseteq Nat \ {0}
  /\ {MaxPendingSegments, MaxPendingBytes, MaxStreamBuffer} \subseteq Nat
  /\ FirstSeq \in 0..SeqSpace - 1
  /\ NumPackets * PacketLen < SeqSpace \div 2     \* bound: half the sequence space

VARIABLES
  nextSeq,  \* next_seq, or NoSeq
  parked,   \* pending: segments by their sequence number
  stream,   \* bytes that no packet was taken from yet
  gap,      \* "none", "young", or "old": past STREAM_GAP_TIMEOUT_SEC
  packets   \* history: what the last call has returned

streamVars == <<nextSeq, parked, stream, gap, packets>>

NoSeq == -1
Total == NumPackets * PacketLen
SeqNumber(pos) == (FirstSeq + pos) % SeqSpace

\* A segment as the capture hands it over.
Segment(pos, len) == [seq |-> SeqNumber(pos), bytes |-> [i \in 1..len |-> pos + i - 1]]

\* Sequence numbers wrap.
SeqDiff(a, b) == (a - b) % SeqSpace
SeqLt(a, b) == 0 < SeqDiff(b, a) /\ SeqDiff(b, a) < SeqSpace \div 2

StreamInit ==
  /\ nextSeq = NoSeq
  /\ parked = {} /\ stream = <<>>
  /\ gap = "none"
  /\ packets = <<>>

\* The fixed header and the topic tell a packet from other bytes.
HeaderIsPlausible(byte) == byte % PacketLen = 0

\* extract_mqtt_packets_from_stream: bytes that do not begin a packet are
\* skipped; a packet that has not arrived in full is waited for.
Extract(bytes) ==
  LET from[i \in 1..Len(bytes) + 1] ==
        IF i <= Len(bytes) /\ ~HeaderIsPlausible(bytes[i]) THEN from[i + 1]
        ELSE IF i + PacketLen > Len(bytes) + 1
             THEN [rest |-> SubSeq(bytes, i, Len(bytes)), got |-> <<>>]
        ELSE [from[i + PacketLen] EXCEPT !.got = <<SubSeq(bytes, i, i + PacketLen - 1)>> \o @]
  IN from[1]

\* What is parked right behind joins the stream.
JoinNext(j) ==
  LET hit == {p \in j.left : p.seq = j.seq}
      p == CHOOSE p \in hit : TRUE
  IN IF hit = {} THEN j
     ELSE [seq |-> (j.seq + Len(p.bytes)) % SeqSpace, bytes |-> j.bytes \o p.bytes,
           left |-> j.left \ {p}]

\* No more can join than are parked.
Joined(seq, bytes, ps) ==
  LET after[n \in 0..Cardinality(ps)] ==
        IF n = 0 THEN [seq |-> seq, bytes |-> bytes, left |-> ps] ELSE JoinNext(after[n - 1])
  IN after[Cardinality(ps)]

\* The buffer keeps its end.
Trimmed(bytes) ==
  SubSeq(bytes, Max({1, Len(bytes) - MaxStreamBuffer + 1}), Len(bytes))

\* The rest of append_stream_data, when the stream goes on with this segment
\* (or, after a resynchronisation, with one that is parked).
Advance(seq, bytes, ps, since) ==
  LET joined == Joined((seq + Len(bytes)) % SeqSpace, bytes, ps)
      found == Extract(Trimmed(since.stream \o joined.bytes))
  IN /\ nextSeq' = joined.seq
     /\ parked' = joined.left
     /\ stream' = found.rest /\ packets' = found.got
     /\ gap' = IF joined.left = {} THEN "none" ELSE since.gap

\* Mutant: the part of a packet before the gap is kept.
RestartedKept == [stream |-> stream, gap |-> "none"]

\* A gap that will not be filled is given up: the stream restarts with the
\* least number that is parked, or with the segment itself when it is the one;
\* that one then stays parked.
Restarted == [stream |-> <<>>, gap |-> "none"]

TooMuch(ps) ==
  \/ Cardinality(ps) > MaxPendingSegments
  \/ MapThenSumSet(LAMBDA p : Len(p.bytes), ps) > MaxPendingBytes

\* A segment beyond the next one is parked.
Ahead(seg) ==
  LET ps == IF \E p \in parked : p.seq = seg.seq THEN parked ELSE parked \cup {seg}
      least == Min({p.seq : p \in ps})
  IN IF TooMuch(ps) \/ gap = "old"
     THEN IF seg.seq = least THEN Advance(least, seg.bytes, ps, Restarted)
          ELSE Advance(least, <<>>, ps, Restarted)
     ELSE /\ parked' = ps
          /\ gap' = IF gap = "none" /\ ps # parked THEN "young" ELSE gap
          /\ packets' = <<>>
          /\ UNCHANGED <<nextSeq, stream>>

\* append_stream_data: what is new of a segment.
Receive(seg) ==
  LET next == IF nextSeq = NoSeq THEN seg.seq ELSE nextSeq
      overlap == SeqDiff(next, seg.seq)
      now == [stream |-> stream, gap |-> gap]
  IN IF SeqLt(seg.seq, next)
     THEN IF overlap >= Len(seg.bytes)
          THEN packets' = <<>> /\ UNCHANGED <<nextSeq, parked, stream, gap>>
          ELSE Advance(next, SubSeq(seg.bytes, overlap + 1, Len(seg.bytes)), parked, now)
     ELSE IF SeqLt(next, seg.seq) THEN Ahead(seg)
     ELSE Advance(next, seg.bytes, parked, now)

\* Any part of what was sent, at any time.
Arrives ==
  \E pos \in 0..Total - 1, len \in 1..MaxSegment :
    pos + len <= Total /\ Receive(Segment(pos, len))

Forget(next) ==
  /\ nextSeq' = next
  /\ parked' = {} /\ stream' = <<>> /\ gap' = "none" /\ packets' = <<>>

\* SYN of a new connection; FIN, RST, or no progress for STREAM_STALE_SECONDS.
Syn == Forget(SeqNumber(0))
Drop == Forget(NoSeq)

GapAges ==
  /\ gap = "young"
  /\ gap' = "old" /\ packets' = <<>>
  /\ UNCHANGED <<nextSeq, parked, stream>>

StreamNext == Arrives \/ Syn \/ Drop \/ GapAges

StreamSpec == StreamInit /\ [][StreamNext]_streamVars

-----------------------------------------------------------------------------
\* A packet that is decoded was sent: its bytes are consecutive and begin with
\* the first one of a packet, whatever was lost, repeated, cut differently or
\* given up, and whether the capture joined in the middle (parsers.py 561-575).
PacketsAreGenuine ==
  \A i \in DOMAIN packets : \A j \in 2..PacketLen :
    packets[i][1] % PacketLen = 0 /\ packets[i][j] = packets[i][1] + j - 1
=============================================================================
