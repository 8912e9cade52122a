--------------------------- MODULE DuplicateFilter ---------------------------
(***************************************************************************)
(* What the server promises of retransmitted client messages: a message is *)
(* processed unless its id is one of the last Depth ids processed for that *)
(* client.                                                                 *)
(***************************************************************************)
EXTENDS Naturals, Sequences, SequencesExt

CONSTANTS
  Id,           \* message ids of a client
  Depth         \* how many processed ids are remembered

VARIABLES
  recent,       \* the ids remembered, the newest first
  verdict       \* the last message received, and whether it was processed

fvars == <<recent, verdict>>

FilterInit == recent = <<>> /\ verdict = <<>>

Receive(id) ==
  LET dup == id \in ToSet(recent)
      all == <<id>> \o recent
  IN  /\ verdict' = <<id, ~dup>>
      /\ recent' = IF dup THEN recent
                   ELSE IF Len(all) > Depth THEN Front(all) ELSE all

FilterNext == \E id \in Id : Receive(id)

FilterSpec == FilterInit /\ [][FilterNext]_fvars
=============================================================================
