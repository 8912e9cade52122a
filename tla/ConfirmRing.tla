----------------------------- MODULE ConfirmRing -----------------------------
(***************************************************************************)
(* The ids of the UDP messages a client sent and the server processed:     *)
(* client_t.msg_in_confirmed and msg_count, written by process_msg         *)
(* (src/src/main.c) and searched by is_msg_confirmed (src/src/utils.c).    *)
(***************************************************************************)
EXTENDS Integers, Sequences

CONSTANTS
  Id,                 \* message ids of the client
  MAX_CONFIRMED_MSG,  \* entries of the ring
  COUNT_WIDTH,        \* msg_count is counted modulo this, 2^16 in the code
  MaxProcessed        \* bound: messages processed

ASSUME RingAssumption ==
  /\ MAX_CONFIRMED_MSG \in Nat /\ MAX_CONFIRMED_MSG >= 2
  /\ COUNT_WIDTH \in Nat \ {0}
  /\ MaxProcessed \in Nat

VARIABLES
  msg_count,
  msg_in_confirmed,
  verdict,            \* the last message, and whether it was processed
  processed           \* messages processed, not reduced to 16 bits

vars == <<msg_count, msg_in_confirmed, verdict, processed>>

Slot(index) == index % MAX_CONFIRMED_MSG

(* The search runs down from the newest entry until it meets the slot that *)
(* will be written next.                                                   *)
SearchedNewest(index) == index = msg_count - 1
Searched(index) ==
  \A k \in index..(msg_count - 1) : Slot(k) # Slot(msg_count)

is_msg_confirmed(id) ==
  \E index \in 0..(msg_count - 1) :
    Searched(index) /\ msg_in_confirmed[Slot(index)] = id

(* process_msg for a UDP message that is not a CONFIRM. *)
process_msg(id) ==
  IF is_msg_confirmed(id)
  THEN /\ verdict' = <<id, FALSE>>
       /\ UNCHANGED <<msg_count, msg_in_confirmed, processed>>
  ELSE /\ processed < MaxProcessed
       /\ verdict' = <<id, TRUE>>
       /\ msg_in_confirmed' = [msg_in_confirmed EXCEPT ![Slot(msg_count)] = id]
       /\ msg_count' = (msg_count + 1) % COUNT_WIDTH
       /\ processed' = processed + 1

(* queue_create_item clears the record, so the ring starts filled with 0.  *)
Init ==
  /\ msg_count = 0
  /\ msg_in_confirmed = [s \in 0..(MAX_CONFIRMED_MSG - 1) |-> 0]
  /\ verdict = <<>>
  /\ processed = 0

Next == \E id \in Id : process_msg(id)

Spec == Init /\ [][Next]_vars

-----------------------------------------------------------------------------
(* The ring implements a filter that remembers one id less than the ring   *)
(* has entries, as long as msg_count has not wrapped around.               *)
Depth == MAX_CONFIRMED_MSG - 1

recent ==
  [k \in 1..(IF msg_count < Depth THEN msg_count ELSE Depth) |->
     msg_in_confirmed[Slot(msg_count - k)]]

Filter == INSTANCE DuplicateFilter
            WITH Depth <- Depth, recent <- recent, verdict <- verdict

(* Every message is processed or ignored just as the filter says: a        *)
(* retransmitted message is not executed twice, a new one is not ignored,  *)
(* whatever the ring was filled with (process_msg, is_msg_confirmed).      *)
ImplementsFilter == Filter!FilterSpec
=============================================================================
