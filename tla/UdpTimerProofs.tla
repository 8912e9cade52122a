--------------------------- MODULE UdpTimerProofs ---------------------------
(***************************************************************************)
(* Proofs about the countdown: its types; that a buffered message falls    *)
(* due whatever -d is; and that it does so on time when -d is a multiple   *)
(* of POLL_INTERVAL.                                                       *)
(***************************************************************************)
EXTENDS UdpTimer, TLAPS

(* The fields of TypeOK that are numbers. *)
NumbersOK ==
  /\ timeout \in Nat /\ timeout < 65536
  /\ retry_count \in 0..udp_retransmissions
  /\ waited \in Nat

(* What a uint16_t can hold. *)
LEMMA Width ==
  ASSUME NEW t
  PROVE  t \in 0..(UINT16 - 1) <=> t \in Nat /\ t < 65536
<1>1. UINT16 \in Nat
  BY DEF UINT16
<1>2. t \in 0..(UINT16 - 1) <=> t \in Nat /\ t < UINT16
  BY <1>1
<1>3. t < UINT16 <=> t < 65536
  BY DEF UINT16
<1> QED
  BY <1>2, <1>3

(* main always sleeps for POLL_INTERVAL: get_next_timeout returns 0. *)
LEMMA NextTimeout ==
  ASSUME timeout \in Nat
  PROVE  next_timeout = 75
<1>1. get_next_timeout({timeout}) = 0
  BY DEF get_next_timeout
<1> QED
  BY <1>1 DEF next_timeout, POLL_INTERVAL

(* One idle round takes POLL_INTERVAL off the 16-bit timeout. *)
LEMMA CountedDownBy ==
  ASSUME timeout \in Nat, timeout < 65536
  PROVE  CountedDown(next_timeout) =
           IF timeout >= 75 THEN timeout - 75 ELSE timeout + 65461
<1>1. CountedDown(next_timeout) = (timeout - 75) % UINT16
  BY NextTimeout DEF CountedDown
<1>2. CASE timeout >= 75
  BY <1>1, <1>2 DEF UINT16
<1>3. CASE timeout < 75
  BY <1>1, <1>3 DEF UINT16
<1> QED
  BY <1>2, <1>3

(* The numbers keep their types in every step (udp_timeout, send_msg). *)
LEMMA NextNumbers ==
  ASSUME NumbersOK, [Next]_vars
  PROVE  NumbersOK'
<1> USE DEF NumbersOK
<1>1. CountedDown(next_timeout) \in Nat /\ CountedDown(next_timeout) < 65536
  BY CountedDownBy
<1>2. udp_timeout \in Nat /\ udp_timeout < 65536
  BY TimeoutAssumption, Width
<1>3. udp_retransmissions \in Nat
  BY RetransmissionsAssumption
<1>4. CASE send_msg
  BY <1>2, <1>3, <1>4 DEF send_msg
<1>5. CASE CountDown
  BY <1>1, <1>5 DEF CountDown
<1>6. CASE Retransmit
  BY <1>2, <1>3, <1>6 DEF Retransmit
<1>7. CASE GiveUp
  BY <1>1, <1>7 DEF GiveUp
<1>8. CASE Erase
  BY <1>3, <1>8 DEF Erase
<1>9. CASE UNCHANGED vars
  BY <1>9 DEF vars
<1> QED
  BY <1>4, <1>5, <1>6, <1>7, <1>8, <1>9 DEF Next

(* So do the flags. *)
LEMMA NextFlags ==
  ASSUME buffered \in BOOLEAN, given_up \in BOOLEAN, [Next]_vars
  PROVE  buffered' \in BOOLEAN /\ given_up' \in BOOLEAN
BY Zenon DEF Next, send_msg, CountDown, Retransmit, GiveUp, Erase, vars

(* A message is retransmitted at most -r times, and its timeout stays a    *)
(* uint16_t (udp_timeout).                                                 *)
THEOREM TypeCorrect == Spec => []TypeOK
<1> DEFINE Flags == buffered \in BOOLEAN /\ given_up \in BOOLEAN
<1>1. Init => NumbersOK /\ Flags
  <2>1. Init => NumbersOK
    BY RetransmissionsAssumption DEF Init, NumbersOK
  <2>2. Init => Flags
    BY Zenon DEF Init
  <2> QED
    BY <2>1, <2>2
<1>2. NumbersOK /\ Flags /\ [Next]_vars => (NumbersOK /\ Flags)'
  BY NextNumbers, NextFlags
<1>3. NumbersOK /\ Flags => TypeOK
  <2>1. NumbersOK => timeout \in 0..(UINT16 - 1)
    BY Width DEF NumbersOK
  <2> SUFFICES ASSUME NumbersOK, Flags PROVE TypeOK
    OBVIOUS
  <2>2. retry_count \in 0..udp_retransmissions /\ waited \in Nat
    BY DEF NumbersOK
  <2> QED
    BY <2>1, <2>2, Zenon DEF TypeOK
<1> HIDE DEF Flags
<1> QED
  BY <1>1, <1>2, <1>3, PTL DEF Spec

-----------------------------------------------------------------------------
(* Every message falls due *)

(* 75 has the inverse 51555 modulo 2^16, so this is the number of idle     *)
(* rounds after which timeout - 75 * RoundsLeft is 0 in 16 bits.           *)
RoundsLeft == (timeout * 51555) % 65536

(* A message that has waited still has a timeout to count down, and its    *)
(* rounds to wait are bounded.                                             *)
Bounded ==
  waited > 0 => /\ RoundsLeft > 0
                /\ waited + RoundsLeft <= 65536

(* RoundsLeft of a timeout is a number, and 0 for the timeout 0 only. *)
LEMMA RoundsRange ==
  ASSUME NEW t \in Nat, t < 65536
  PROVE  /\ (t * 51555) % 65536 \in Nat
         /\ (t * 51555) % 65536 < 65536
         /\ t # 0 => (t * 51555) % 65536 # 0
  OBVIOUS

(* Subtracting 1 modulo 2^16. *)
LEMMA Predecessor ==
  ASSUME NEW x \in Int, NEW k \in Int
  PROVE  (x + 65536 * k - 1) % 65536 =
           IF x % 65536 = 0 THEN 65535 ELSE (x % 65536) - 1
  OBVIOUS

(* A round takes one off, modulo 2^16. *)
LEMMA RoundsStep ==
  ASSUME NEW t \in Nat, t < 65536,
         NEW u \in Nat, u = IF t >= 75 THEN t - 75 ELSE t + 65461
  PROVE  (u * 51555) % 65536 =
           IF (t * 51555) % 65536 = 0 THEN 65535 ELSE ((t * 51555) % 65536) - 1
<1> DEFINE x == t * 51555
<1>1. x \in Int
  OBVIOUS
<1>2. u * 51555 \in {x + 65536 * (-59) - 1, x + 65536 * 51496 - 1}
  OBVIOUS
<1> HIDE DEF x
<1>3. (u * 51555) % 65536 = IF x % 65536 = 0 THEN 65535 ELSE (x % 65536) - 1
  BY <1>1, <1>2, Predecessor
<1> QED
  BY <1>3 DEF x

(* Every step keeps the bound: only CountDown makes a message wait, and it *)
(* takes a round off those that are left (udp_timeout).                    *)
LEMMA NextBounded ==
  ASSUME NumbersOK, Bounded, [Next]_vars
  PROVE  Bounded'
<1>1. CASE CountDown
  <2> DEFINE u == CountedDown(next_timeout)
  <2>1. /\ u = IF timeout >= 75 THEN timeout - 75 ELSE timeout + 65461
        /\ timeout \in Nat /\ timeout < 65536 /\ waited \in Nat
    BY CountedDownBy DEF NumbersOK
  <2>2. u \in Nat /\ u < 65536
    BY <2>1
  <2>3. timeout' = u /\ u > 0 /\ waited' = waited + 1
    BY <1>1 DEF CountDown
  <2> HIDE DEF u
  <2>4. RoundsLeft' = (u * 51555) % 65536
    BY <2>3 DEF RoundsLeft
  <2>5. RoundsLeft' = IF RoundsLeft = 0 THEN 65535 ELSE RoundsLeft - 1
    BY <2>1, <2>2, <2>4, RoundsStep DEF RoundsLeft
  <2>6. RoundsLeft' \in Nat /\ RoundsLeft' # 0
    BY <2>2, <2>3, <2>4, RoundsRange
  <2>7. RoundsLeft \in Nat /\ RoundsLeft < 65536
    BY <2>1, RoundsRange DEF RoundsLeft
  <2> HIDE DEF RoundsLeft
  <2> QED
    BY <2>1, <2>3, <2>5, <2>6, <2>7 DEF Bounded
<1>2. CASE send_msg \/ Retransmit \/ GiveUp \/ Erase
  <2>1. waited' = 0
    BY <1>2 DEF send_msg, Retransmit, GiveUp, Erase
  <2> QED
    BY <2>1 DEF Bounded
<1>3. CASE UNCHANGED vars
  BY <1>3 DEF vars, Bounded, RoundsLeft
<1> QED
  BY <1>1, <1>2, <1>3 DEF Next

(* Whatever -d is, and however the 16-bit countdown wraps around, a        *)
(* buffered message falls due within 2^16 idle rounds (udp_timeout).       *)
THEOREM AlwaysFallsDue == Spec => []FallsDue
<1>1. Init => NumbersOK /\ Bounded
  BY RetransmissionsAssumption DEF Init, NumbersOK, Bounded
<1>2. NumbersOK /\ Bounded /\ [Next]_vars => (NumbersOK /\ Bounded)'
  BY NextNumbers, NextBounded
<1>3. NumbersOK /\ Bounded => FallsDue
  <2>1. NumbersOK => RoundsLeft \in Nat
    BY RoundsRange DEF NumbersOK, RoundsLeft
  <2> QED
    BY <2>1 DEF NumbersOK, Bounded, FallsDue, UINT16
<1> QED
  BY <1>1, <1>2, <1>3, PTL DEF Spec

-----------------------------------------------------------------------------
(* On time *)

(* The timeout of a message that is still retransmitted is a positive      *)
(* multiple of POLL_INTERVAL, and says how long the message has waited.    *)
Exact ==
  buffered /\ ~given_up =>
    /\ timeout = udp_timeout - 75 * waited
    /\ timeout >= 75

(* When -d is a positive multiple of POLL_INTERVAL, a message is           *)
(* retransmitted in the first idle round at whose end its timeout has      *)
(* passed (udp_timeout).                                                   *)
THEOREM MultipleIsOnTime ==
  ASSUME NEW k \in Nat \ {0}, udp_timeout = 75 * k
  PROVE  Spec => []OnTime
<1>1. udp_timeout \in Nat /\ udp_timeout < 65536 /\ udp_timeout >= 75
  BY TimeoutAssumption, Width
<1>2. Init => NumbersOK /\ Exact
  BY RetransmissionsAssumption DEF Init, NumbersOK, Exact
<1>3. NumbersOK /\ Exact /\ [Next]_vars => (NumbersOK /\ Exact)'
  <2> SUFFICES ASSUME NumbersOK, Exact, [Next]_vars
               PROVE  Exact'
    BY NextNumbers
  <2>1. CASE CountDown
    <3> SUFFICES ASSUME ~given_up
                 PROVE  (timeout = udp_timeout - 75 * waited /\ timeout >= 75)'
      BY <2>1 DEF CountDown, Exact
    <3>1. /\ timeout = udp_timeout - 75 * waited /\ timeout >= 75
          /\ waited \in Nat /\ timeout < 65536 /\ timeout \in Nat
      BY <2>1 DEF CountDown, Exact, NumbersOK
    <3>2. CountedDown(next_timeout) = timeout - 75
      BY <3>1, CountedDownBy
    <3>3. timeout' = timeout - 75 /\ timeout' > 0 /\ waited' = waited + 1
      BY <2>1, <3>2 DEF CountDown
    <3> QED
      BY <1>1, <3>1, <3>3
  <2>2. CASE send_msg \/ Retransmit
    <3>1. timeout' = udp_timeout /\ waited' = 0
      BY <2>2 DEF send_msg, Retransmit
    <3> QED
      BY <1>1, <3>1 DEF Exact
  <2>3. CASE GiveUp
    BY <2>3 DEF GiveUp, Exact
  <2>4. CASE Erase
    BY <2>4 DEF Erase, Exact
  <2>5. CASE UNCHANGED vars
    BY <2>5 DEF vars, Exact
  <2> QED
    BY <2>1, <2>2, <2>3, <2>4, <2>5 DEF Next
<1>4. NumbersOK /\ Exact => OnTime
  BY <1>1 DEF NumbersOK, Exact, OnTime, POLL_INTERVAL
<1> QED
  BY <1>2, <1>3, <1>4, PTL DEF Spec
=============================================================================
