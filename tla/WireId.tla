------------------------------- MODULE WireId -------------------------------
(***************************************************************************)
(* Message ids on the wire: compose_udp (src/src/compose.c) writes an id   *)
(* as two bytes, parse_udp (src/src/parse.c) reads them back.  A server    *)
(* message leaves the confirmation buffer when the CONFIRM of its client   *)
(* is read; an id a client uses is stored as it was read, to recognise a   *)
(* message that is sent again.  The clients write and read ids as the      *)
(* protocol says: high byte, low byte.                                     *)
(***************************************************************************)
EXTENDS Integers, FiniteSets

CONSTANTS
  ClientId,     \* ids the clients use
  MaxSent,      \* bound: ids the server uses, before they start again at 0
  MaxPending    \* bound: messages waiting for a CONFIRM

UINT16 == 65536

ASSUME BoundAssumption ==
  MaxSent \in Nat /\ MaxSent < UINT16 /\ MaxPending \in Nat
ASSUME ClientIdAssumption == \A id \in ClientId : id \in Nat /\ id < UINT16

VARIABLES
  msg_cnt,      \* the id send_msg takes next
  msg_out_buf,  \* ids of the messages that wait for a CONFIRM
  acked,        \* ids the clients have confirmed
  last_id       \* the id a client used last, as the client knows it

vars == <<msg_cnt, msg_out_buf, acked, last_id>>

-----------------------------------------------------------------------------
(* compose_udp writes the id of a message, or the ref_id of a CONFIRM, as  *)
(* its high and its low byte; so does a client.                            *)
compose_udp(id) == <<id \div 256, id % 256>>

(* The bytes are read as char, which is signed, and put together with      *)
(* factor 0xFF.                                                            *)
Char(byte) == IF byte < 128 THEN byte ELSE byte - 256

parse_udpSum(bytes) == (Char(bytes[1]) + Char(bytes[2])) % UINT16
parse_udpShifted(bytes) == (Char(bytes[1]) * 255 + bytes[2] - 128) % UINT16
parse_udp(bytes) == (Char(bytes[1]) * 255 + Char(bytes[2])) % UINT16

(* Every message takes the next id; one to a UDP client that has to be     *)
(* confirmed is buffered under it.                                         *)
send_msg(buffer) ==
  /\ msg_cnt < MaxSent
  /\ msg_cnt' = msg_cnt + 1
  /\ msg_out_buf' = IF buffer THEN msg_out_buf \cup {msg_cnt} ELSE msg_out_buf

Send(buffer) ==
  /\ buffer => Cardinality(msg_out_buf) < MaxPending
  /\ send_msg(buffer)
  /\ UNCHANGED <<acked, last_id>>

execute_confirm(id) ==
  /\ id \in msg_out_buf \ acked
  /\ msg_out_buf' = msg_out_buf \ {parse_udp(compose_udp(id))}
  /\ acked' = (acked \cup {id}) \cap msg_out_buf'
  /\ UNCHANGED <<msg_cnt, last_id>>

(* A client message is answered with a CONFIRM, which takes an id too; the *)
(* other messages it leads to are Send steps.                              *)
process_msg(id) ==
  /\ send_msg(FALSE)
  /\ last_id' = id
  /\ UNCHANGED acked

Init ==
  /\ msg_cnt = 0
  /\ msg_out_buf = {}
  /\ acked = {}
  /\ last_id = 0

Next ==
  \/ \E buffer \in BOOLEAN : Send(buffer)
  \/ \E id \in msg_out_buf : execute_confirm(id)
  \/ \E id \in ClientId : process_msg(id)

Spec == Init /\ [][Next]_vars

-----------------------------------------------------------------------------
(* The CONFIRM of one of the first 128 messages clears it from the buffer. *)
SmallIdsClear == \A id \in acked : id >= 128

(* The 256 ids from the last one on are read as 256 different numbers,     *)
(* also where the 16 bits wrap around, so a client that counts its         *)
(* messages up never has a new one taken for one of the MAX_CONFIRMED_MSG  *)
(* before it (parse_udp, is_msg_confirmed).                                *)
NearbyIdsDistinct ==
  \A k \in 1..255 :
    parse_udp(compose_udp(last_id))
      # parse_udp(compose_udp((last_id + k) % UINT16))

=============================================================================
