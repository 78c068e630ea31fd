------------------------------ MODULE Datagrams ------------------------------
(* The datagrams of the protocol, as MessageParser hands them to the visitor:
   one constructor per struct of messages.hpp.  A client id "client_<n>" is the
   number n.  A message is a sequence of chunks of at most 512 bytes, and the
   payload of a DATA segment is one chunk; NoPayload is the empty DATA field.
   "intact" says that the CS field equals the checksum of the payload. *)
EXTENDS Naturals, Sequences

CONSTANT NoPayload

VARIABLE sent   \* the datagrams the last step passed to sendto, in order

Ack(c, seq) == [type |-> "ACK", id |-> c, seq |-> seq]

Nack(c, seq) == [type |-> "NACK", id |-> c, seq |-> seq]

Data(c, seq, tot, intact, payload) ==
  [type |-> "DATA", id |-> c, seq |-> seq, tot |-> tot,
   intact |-> intact, payload |-> payload]

InitRequest == [type |-> "INIT_REQUEST"]

Handshake(c) == [type |-> "HS", id |-> c]

(* The server formats "HS_COMPLETE: <id>", the parser knows only the bare word:
   the datagram arrives as text that no parser accepts. *)
HandshakeComplete(c) == [type |-> "HS_COMPLETE", id |-> c]

(* The bytes a receiver reads when the network changed them are other bytes. *)
Damaged(payload) == [damaged |-> payload]

PayloadRead(m) == IF m.intact THEN m.payload ELSE Damaged(m.payload)

SegmentsOf(c, message) ==
  [i \in 1..Len(message) |-> Data(c, i - 1, Len(message), TRUE, message[i])]

Datagram(Ids, Payloads) ==
  [type : {"ACK", "NACK"}, id : Ids, seq : Nat]
    \cup [type : {"DATA"}, id : Ids, seq : Nat, tot : Nat, intact : BOOLEAN,
          payload : Payloads]
    \cup [type : {"INIT_REQUEST"}]
    \cup [type : {"HS", "HS_COMPLETE"}, id : Ids]

(* unordered_map: m[k] = v, and m without the keys that are not kept. *)
Put(f, k, v) == [x \in DOMAIN f \cup {k} |-> IF x = k THEN v ELSE f[x]]

Keep(f, S) == [x \in S |-> f[x]]

EmptyMap == [x \in {} |-> {}]

IsMap(f, Keys, Values) == DOMAIN f \subseteq Keys /\ f \in [DOMAIN f -> Values]
=============================================================================
