---------------------------- MODULE WireIdProofs ----------------------------
(***************************************************************************)
(* Proofs that the first 128 ids survive the way over the wire and back,   *)
(* for all bounds on the messages sent and pending, and that ids less      *)
(* than 256 apart are read as different numbers, for every id a client can *)
(* use.                                                                    *)
(***************************************************************************)
EXTENDS WireId, TLAPS

(* Only numbers are buffered, and no small id stays after its CONFIRM. *)
IdInv ==
  /\ msg_cnt \in Nat
  /\ \A id \in msg_out_buf : id \in Nat
  /\ SmallIdsClear

(* An id below 128 is read as it was written (compose_udp, parse_udp). *)
LEMMA SmallRoundTrip ==
  ASSUME NEW id \in Nat, id < 128
  PROVE  parse_udp(compose_udp(id)) = id
<1>1. id \div 256 = 0 /\ id % 256 = id
  OBVIOUS
<1>2. compose_udp(id) = <<0, id>>
  BY <1>1 DEF compose_udp
<1>3. Char(0) = 0 /\ Char(id) = id
  BY DEF Char
<1>4. parse_udp(<<0, id>>) = (Char(0) * 255 + Char(id)) % UINT16
  BY DEF parse_udp
<1> QED
  BY <1>2, <1>3, <1>4 DEF UINT16

(* The invariant survives every step; the case that matters is the CONFIRM *)
(* of a small id, which leaves the buffer and so is not still waiting.     *)
LEMMA NextIdInv ==
  ASSUME IdInv, [Next]_vars
  PROVE  IdInv'
<1> USE DEF IdInv, SmallIdsClear
<1>1. ASSUME NEW buffer \in BOOLEAN, Send(buffer)
      PROVE  IdInv'
  <2>1. msg_cnt' \in Nat
    BY <1>1 DEF Send, send_msg
  <2> QED
    BY <1>1, <2>1 DEF Send, send_msg
<1>2. ASSUME NEW id \in msg_out_buf, execute_confirm(id)
      PROVE  IdInv'
  <2>1. /\ msg_out_buf' = msg_out_buf \ {parse_udp(compose_udp(id))}
        /\ acked' = (acked \cup {id}) \cap msg_out_buf'
        /\ msg_cnt' = msg_cnt
    BY <1>2 DEF execute_confirm
  <2>2. CASE id < 128
    BY <2>1, <2>2, SmallRoundTrip
  <2>3. CASE ~(id < 128)
    BY <2>1, <2>3
  <2> QED
    BY <2>2, <2>3
<1>3. ASSUME NEW id \in ClientId, process_msg(id)
      PROVE  IdInv'
  BY <1>3 DEF process_msg, send_msg
<1>4. CASE UNCHANGED vars
  BY <1>4 DEF vars
<1> QED
  BY <1>1, <1>2, <1>3, <1>4 DEF Next

(* The CONFIRM of one of the first 128 messages clears it from the buffer, *)
(* for all bounds on the messages sent and pending (execute_msg,           *)
(* e_confirm).                                                             *)
THEOREM SmallIdsCleared == Spec => []SmallIdsClear
<1>1. Init => IdInv
  BY DEF Init, IdInv, SmallIdsClear
<1>2. IdInv /\ [Next]_vars => IdInv'
  BY NextIdInv
<1>3. IdInv => SmallIdsClear
  BY DEF IdInv
<1> QED
  BY <1>1, <1>2, <1>3, PTL DEF Spec

-----------------------------------------------------------------------------
(* A byte, read as a signed char, is itself or 256 less. *)
LEMMA CharOfByte ==
  ASSUME NEW byte \in Nat, byte < 256
  PROVE  /\ Char(byte) \in Int
         /\ Char(byte) = byte \/ Char(byte) = byte - 256
         /\ -128 <= Char(byte) /\ Char(byte) < 128
BY DEF Char

(* An id is the number its two bytes make (compose_udp). *)
LEMMA BytesOfId ==
  ASSUME NEW id \in Nat, id < 65536
  PROVE  /\ id \div 256 \in Nat /\ id \div 256 < 256
         /\ id % 256 \in Nat /\ id % 256 < 256
         /\ id = 256 * (id \div 256) + (id % 256)
OBVIOUS

(* Numbers from one range of length 2^16 are equal when they are equal in  *)
(* 16 bits.                                                                *)
LEMMA SameIn16Bits ==
  ASSUME NEW x \in Int, -32768 <= x, x < 32768,
         NEW y \in Int, -32768 <= y, y < 32768,
         x % 65536 = y % 65536
  PROVE  x = y
OBVIOUS

(* Two ids that are read as the same number are equal or 257 apart, also   *)
(* across the wrap-around at 2^16 (parse_udp).                             *)
LEMMA SameReading ==
  ASSUME NEW id \in Nat, id < 65536, NEW jd \in Nat, jd < 65536,
         parse_udp(compose_udp(id)) = parse_udp(compose_udp(jd))
  PROVE  id - jd \in {0, 257, -257, 65536 - 257, 257 - 65536}
<1> DEFINE h == id \div 256
           l == id % 256
           g == jd \div 256
           m == jd % 256
<1>1. /\ h \in Nat /\ h < 256 /\ l \in Nat /\ l < 256
      /\ g \in Nat /\ g < 256 /\ m \in Nat /\ m < 256
      /\ id = 256 * h + l /\ jd = 256 * g + m
  BY BytesOfId
<1>2. /\ compose_udp(id) = <<h, l>>
      /\ compose_udp(jd) = <<g, m>>
  BY DEF compose_udp
<1>3. (Char(h) * 255 + Char(l)) % UINT16 = (Char(g) * 255 + Char(m)) % UINT16
  BY <1>2 DEF parse_udp
<1> HIDE DEF h, l, g, m
<1>4. /\ Char(h) \in Int /\ -128 <= Char(h) /\ Char(h) < 128
      /\ Char(h) = h \/ Char(h) = h - 256
  BY <1>1, CharOfByte
<1>5. /\ Char(l) \in Int /\ -128 <= Char(l) /\ Char(l) < 128
      /\ Char(l) = l \/ Char(l) = l - 256
  BY <1>1, CharOfByte
<1>6. /\ Char(g) \in Int /\ -128 <= Char(g) /\ Char(g) < 128
      /\ Char(g) = g \/ Char(g) = g - 256
  BY <1>1, CharOfByte
<1>7. /\ Char(m) \in Int /\ -128 <= Char(m) /\ Char(m) < 128
      /\ Char(m) = m \/ Char(m) = m - 256
  BY <1>1, CharOfByte
<1>8. Char(h) * 255 + Char(l) = Char(g) * 255 + Char(m)
  BY <1>3, <1>4, <1>5, <1>6, <1>7, SameIn16Bits DEF UINT16
<1>9. \/ Char(h) = Char(g) /\ Char(l) = Char(m)
      \/ Char(h) = Char(g) + 1 /\ Char(l) = -128 /\ Char(m) = 127
      \/ Char(g) = Char(h) + 1 /\ Char(m) = -128 /\ Char(l) = 127
  <2>1. ~(Char(h) >= Char(g) + 2)
    BY <1>4, <1>5, <1>6, <1>7, <1>8
  <2>2. ~(Char(g) >= Char(h) + 2)
    BY <1>4, <1>5, <1>6, <1>7, <1>8
  <2>3. CASE Char(h) = Char(g) + 1
    BY <1>5, <1>6, <1>7, <1>8, <2>3
  <2>4. CASE Char(g) = Char(h) + 1
    BY <1>4, <1>5, <1>7, <1>8, <2>4
  <2>5. CASE Char(h) = Char(g)
    BY <1>5, <1>6, <1>7, <1>8, <2>5
  <2> QED
    BY <1>4, <1>6, <2>1, <2>2, <2>3, <2>4, <2>5
<1> QED
  BY <1>1, <1>4, <1>5, <1>6, <1>7, <1>9

(* The id a client used last is a 16-bit number. *)
LastIdOK == last_id \in Nat /\ last_id < UINT16

(* Ids less than 256 apart are read as different numbers, for every id a   *)
(* client can use (parse_udp, is_msg_confirmed).                           *)
THEOREM NearbyIdsTold == Spec => []NearbyIdsDistinct
<1>1. Init => LastIdOK
  BY DEF Init, LastIdOK, UINT16
<1>2. LastIdOK /\ [Next]_vars => LastIdOK'
  BY ClientIdAssumption
     DEF LastIdOK, Next, vars, Send, execute_confirm, process_msg
<1>3. LastIdOK => NearbyIdsDistinct
  <2> SUFFICES ASSUME LastIdOK, NEW k \in 1..255,
                      parse_udp(compose_udp(last_id))
                        = parse_udp(compose_udp((last_id + k) % UINT16))
               PROVE  FALSE
    BY DEF NearbyIdsDistinct
  <2>1. last_id \in Nat /\ last_id < 65536 /\ k \in Nat /\ 1 <= k /\ k <= 255
    BY DEF LastIdOK, UINT16
  <2> DEFINE next == (last_id + k) % 65536
  <2>2. /\ next \in Nat /\ next < 65536
        /\ next = last_id + k \/ next = last_id + k - 65536
    BY <2>1
  <2>3. parse_udp(compose_udp(last_id)) = parse_udp(compose_udp(next))
    BY DEF UINT16
  <2> HIDE DEF next
  <2>4. last_id - next \in {0, 257, -257, 65536 - 257, 257 - 65536}
    BY <2>1, <2>2, <2>3, SameReading
  <2> QED
    BY <2>1, <2>2, <2>4
<1> QED
  BY <1>1, <1>2, <1>3, PTL DEF Spec
=============================================================================
