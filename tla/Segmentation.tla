----------------------------- MODULE Segmentation -----------------------------
(* How both programs cut a text into DATA segments, sum up a segment, and join
   the segments again.  A text is a sequence of bytes; char is signed, as on the
   machines the programs are built for.  A chunk of UDPServer and UDPClient stands
   for a payload, "intact" for Accepted.  One text is on its way from one side to
   the other; its segments arrive in any order and as often as they like.  Either
   side makes a string of the buffer of a datagram, which ends at the first NUL. *)
EXTENDS Integers, FiniteSets, SequencesExt

CONSTANTS
  BYTE,                 \* the values of a byte, 256
  WORD,                 \* the values of a uint32_t, 2^32
  max_segment_size,     \* 512
  MaxLength             \* bound: bytes of a text

VARIABLES
  text,
  sender,       \* the side that cuts it: "client" or "server"
  segments,     \* the segments of the text, as their sender cut it
  stored        \* the payloads the receiver has, by seq_num

segmentationVars == <<text, sender, segments, stored>>

ASSUME SegmentationAssumption ==
  /\ BYTE \in Nat \ {0} /\ max_segment_size \in Nat \ {0} /\ MaxLength \in Nat
  /\ WORD \in Nat /\ WORD > BYTE * max_segment_size

Bytes == 0..(BYTE - 1)

IsAscii(c) == 2 * c < BYTE

Texts == SeqOf(Bytes, MaxLength)

-----------------------------------------------------------------------------
(* static_cast<uint32_t>(c) of a char that is not ASCII is close to 2^32. *)
SignExtended(c) == IF IsAscii(c) THEN c ELSE c - BYTE + WORD

(* Faulty variant: the last byte is left out. *)
ServerChecksumShort(data) ==
  FoldLeft(LAMBDA sum, c : (sum + c) % WORD, 0, SubSeq(data, 1, Len(data) - 1))

(* Faulty variant: the first bit of a byte is left out. *)
ServerChecksumOfAscii(data) ==
  FoldLeft(LAMBDA sum, c : (sum + (c % (BYTE \div 2))) % WORD, 0, data)

ServerChecksum(data) == FoldLeft(LAMBDA sum, c : (sum + c) % WORD, 0, data)

ClientChecksum(data) ==
  FoldLeft(LAMBDA sum, c : (sum + SignExtended(c)) % WORD, 0, data)

Segment(seq, tot, checksum, data) ==
  [seq |-> seq, tot |-> tot, checksum |-> checksum, payload |-> data]

TotalSegments(message) == (Len(message) + max_segment_size - 1) \div max_segment_size

(* Faulty variant: the last segment of a text misses a byte. *)
SegmentDataShort(message, i) ==
  LET start == i * max_segment_size
      rest  == Len(message) - start
  IN SubSeq(message, start + 1,
            start + IF rest < max_segment_size THEN rest - 1 ELSE max_segment_size)

SegmentData(message, i) ==
  LET start == i * max_segment_size
      rest  == Len(message) - start
  IN SubSeq(message, start + 1,
            start + IF rest < max_segment_size THEN rest ELSE max_segment_size)

ClientSegments(message) ==
  [i \in 1..TotalSegments(message) |->
     LET data == SegmentData(message, i - 1) IN
     Segment(i - 1, TotalSegments(message), ClientChecksum(data), data)]

(* The server has an answer also for the empty text. *)
ServerSegments(message) ==
  IF message = <<>> THEN <<Segment(0, 1, 0, <<>>)>>
  ELSE [i \in 1..TotalSegments(message) |->
          LET data == SegmentData(message, i - 1) IN
          Segment(i - 1, TotalSegments(message), ServerChecksum(data), data)]

(* n bytes come before the first NUL, or there are n and no NUL. *)
EndsAt(data, n) ==
  /\ n \in 0..Len(data)
  /\ \A i \in 1..n : data[i] # 0
  /\ n < Len(data) => data[n + 1] = 0

(* std::string(buffer): what a receiver has of a payload. *)
AsRead(data) == SubSeq(data, 1, CHOOSE n \in 0..Len(data) : EndsAt(data, n))

(* The test of handleDataMessage, which answers a segment that fails it with NACK. *)
Accepted(segment) == segment.checksum = ServerChecksum(AsRead(segment.payload))

(* receiveResponse of the client takes any segment. *)
Taken(segment) == sender = "server" \/ Accepted(segment)

(* assembleMessage and receiveResponse: the payloads in the order of seq_num, once
   there are as many as the segment announces. *)
Complete == segments # <<>> /\ Cardinality(DOMAIN stored) = segments[1].tot

Joined == FlattenSeq([i \in 1..segments[1].tot |-> stored[i - 1]])

SegmentationInit ==
  /\ text \in Texts
  /\ sender \in {"client", "server"}
  /\ segments = IF sender = "client" THEN ClientSegments(text) ELSE ServerSegments(text)
  /\ stored = [seq \in {} |-> <<>>]

Arrive(segment) ==
  /\ Taken(segment)
  /\ stored' = [seq \in DOMAIN stored \cup {segment.seq} |->
                 IF seq = segment.seq THEN AsRead(segment.payload) ELSE stored[seq]]
  /\ UNCHANGED <<text, sender, segments>>

Refuse(segment) == ~ Taken(segment) /\ UNCHANGED segmentationVars

SegmentationNext ==
  \E segment \in ToSet(segments) : Arrive(segment) \/ Refuse(segment)

SegmentationSpec == SegmentationInit /\ [][SegmentationNext]_segmentationVars

-----------------------------------------------------------------------------
(* Whatever the length of a text, also at a multiple of the size of a segment, and
   whatever the order of arrival: the segments are numbered, none is empty (but for
   that of the empty answer) or too long, and what the receiver joins is the text,
   if that has no NUL (segmentMessage, udp_client.cpp:122, udp_server.cpp:238;
   assembleMessage, receiveResponse). *)
TextsSurvive ==
  /\ \A segment \in ToSet(segments) :
       /\ Len(segment.payload) \in (IF text = <<>> THEN {0} ELSE 1..max_segment_size)
       /\ segment.seq < segment.tot /\ segment.tot = Len(segments)
  /\ text # <<>> => segments # <<>>
  /\ Complete /\ 0 \notin ToSet(text) => Joined = text

IsAsciiText(data) == \A i \in DOMAIN data : IsAscii(data[i])

(* The two checksums of the repository, over chars and over uint8_t, agree on ASCII
   only: of a client's text without a NUL the server refuses every segment with
   another byte, with a NACK, which ends sendMessage (udp_client.cpp:147,
   message_parser.cpp:8).  Of a text in ASCII it refuses every segment that has more
   than NULs behind its first NUL, as it reads and sums up less than was sent. *)
OnlyAsciiIsAccepted ==
  sender = "client" =>
    \A segment \in ToSet(segments) :
      LET data == segment.payload
          read == AsRead(data)
      IN /\ read = data => (Accepted(segment) <=> IsAsciiText(data))
         /\ IsAsciiText(data) =>
              (Accepted(segment) <=> \A i \in DOMAIN data : i > Len(read) => data[i] = 0)

(* A segment in which the network changed one byte is refused, whatever the byte
   and also if it is changed into a NUL or was the first NUL; a change behind that
   one is not noticed, but nothing behind it is read (handleDataMessage,
   udp_server.cpp:62 and 145). *)
DamageIsNoticed ==
  \A segment \in ToSet(segments) :
    Accepted(segment) =>
      \A i \in DOMAIN segment.payload : \A c \in Bytes \ {segment.payload[i]} :
        LET damaged == [segment EXCEPT !.payload[i] = c] IN
        /\ Accepted(damaged) <=> i > Len(AsRead(segment.payload)) + 1
        /\ Accepted(damaged) => AsRead(damaged.payload) = AsRead(segment.payload)
=============================================================================
