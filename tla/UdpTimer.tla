------------------------------ MODULE UdpTimer ------------------------------
(***************************************************************************)
(* The countdown of one message in the confirmation buffer: get_next_      *)
(* timeout (src/src/utils.c), the interval main computes from it, and the  *)
(* first loop of udp_timeout (src/src/main.c), with the numbers of the     *)
(* code.  Only rounds in which poll() times out count the message down.    *)
(***************************************************************************)
EXTENDS Integers, FiniteSetsExt

CONSTANTS
  udp_timeout,          \* -d, a uint16_t
  udp_retransmissions   \* -r, a uint8_t

UINT16 == 65536
POLL_INTERVAL == 75

ASSUME TimeoutAssumption == udp_timeout \in 0..(UINT16 - 1)
ASSUME RetransmissionsAssumption == udp_retransmissions \in 0..255

VARIABLES
  buffered,     \* the message is in msg_out_buf
  timeout,      \* its uint16_t timeout
  retry_count,
  given_up,     \* its retransmissions ran out and its client was closed
  waited        \* idle rounds since it was sent, or last fell due

vars == <<buffered, timeout, retry_count, given_up, waited>>

-----------------------------------------------------------------------------
(* The search starts from 0, and no uint16_t is less than that. *)
get_next_timeout(timeouts) ==
  IF \E t \in timeouts : t < 0 THEN Min(timeouts) ELSE 0

next_timeout ==
  LET t == get_next_timeout({timeout})
  IN  IF t > POLL_INTERVAL \/ t = 0 THEN POLL_INTERVAL ELSE t

CountedDownHalf(interval) == (timeout - 64) % UINT16
CountedDown(interval) == (timeout - interval) % UINT16

(* What the queue item holds after send_msg. *)
send_msg ==
  /\ ~buffered
  /\ buffered' = TRUE
  /\ timeout' = udp_timeout
  /\ retry_count' = 0
  /\ given_up' = FALSE
  /\ waited' = 0

CountDown ==
  /\ buffered
  /\ CountedDown(next_timeout) > 0
  /\ timeout' = CountedDown(next_timeout)
  /\ waited' = waited + 1
  /\ UNCHANGED <<buffered, retry_count, given_up>>

RetransmitNoReload ==
  /\ buffered
  /\ CountedDown(next_timeout) <= 0
  /\ retry_count < udp_retransmissions
  /\ retry_count' = retry_count + 1
  /\ timeout' = CountedDown(next_timeout)
  /\ waited' = 0
  /\ UNCHANGED <<buffered, given_up>>
RetransmitOnceMore ==
  /\ buffered
  /\ CountedDown(next_timeout) <= 0
  /\ retry_count <= udp_retransmissions
  /\ retry_count' = retry_count + 1
  /\ timeout' = udp_timeout
  /\ waited' = 0
  /\ UNCHANGED <<buffered, given_up>>
Retransmit ==
  /\ buffered
  /\ CountedDown(next_timeout) <= 0
  /\ retry_count < udp_retransmissions
  /\ retry_count' = retry_count + 1
  /\ timeout' = udp_timeout
  /\ waited' = 0
  /\ UNCHANGED <<buffered, given_up>>

(* Too many retransmissions: the timeout is not set again. *)
GiveUp ==
  /\ buffered
  /\ CountedDown(next_timeout) <= 0
  /\ retry_count >= udp_retransmissions
  /\ given_up' = TRUE
  /\ timeout' = CountedDown(next_timeout)
  /\ waited' = 0
  /\ UNCHANGED <<buffered, retry_count>>

(* A CONFIRM, or the client is deleted. *)
Erase ==
  /\ buffered
  /\ buffered' = FALSE
  /\ timeout' = 0
  /\ retry_count' = 0
  /\ given_up' = FALSE
  /\ waited' = 0

Init ==
  /\ buffered = FALSE
  /\ timeout = 0
  /\ retry_count = 0
  /\ given_up = FALSE
  /\ waited = 0

Next == send_msg \/ CountDown \/ Retransmit \/ GiveUp \/ Erase

Spec == Init /\ [][Next]_vars

-----------------------------------------------------------------------------
(* The fields keep their types, and a message is retransmitted at most     *)
(* udp_retransmissions times.                                              *)
TypeOK ==
  /\ buffered \in BOOLEAN /\ given_up \in BOOLEAN
  /\ timeout \in 0..(UINT16 - 1)
  /\ retry_count \in 0..udp_retransmissions
  /\ waited \in Nat

(* A message is retransmitted in the first idle round at whose end its     *)
(* timeout has passed (types.h, msg_t.timeout: "Time in ms to next         *)
(* timeout").                                                              *)
OnTime ==
  buffered /\ ~given_up => waited = 0 \/ waited * POLL_INTERVAL < udp_timeout

(* However the countdown wraps around, it meets 0 within 2^16 idle rounds, *)
(* because POLL_INTERVAL is odd: a buffered message always falls due.      *)
FallsDue == waited < UINT16
=============================================================================
