---------------------------- MODULE ClientRecord ----------------------------
(***************************************************************************)
(* The record of a UDP client as it lies in memory: client_t.channel_id,   *)
(* then msg_count, then the ring of ids (src/src/types.h).  A channel name *)
(* that fills its array has no terminator, so strcmp, which decides who    *)
(* is on the same channel (forward_msg_channel, src/src/main.c), reads on  *)
(* into msg_count, which every message of the client changes.  The other   *)
(* client, of either protocol, has a name and a count; its ring, and so    *)
(* how two strings that reach the rings compare, is open.                  *)
(***************************************************************************)
EXTENDS ConfirmRing, FiniteSetsExt, SequencesExt

CONSTANTS
  Name,                  \* channel names, sequences of characters (numbers)
  Default,               \* the default channel
  CHANNELID_MAX_LENGTH,  \* length of the array
  BYTE,                  \* number of values of a byte
  MaxPeer                \* bound: messages of the other client

(* The parser takes names one character longer than the array. *)
ASSUME RecordAssumption ==
  /\ BYTE \in Nat \ {0} /\ COUNT_WIDTH = BYTE * BYTE
  /\ MaxPeer \in Nat /\ MaxPeer < COUNT_WIDTH
  /\ CHANNELID_MAX_LENGTH \in Nat
  /\ Name \subseteq Seq(1..(BYTE - 1))
  /\ \A n \in Name : Len(n) \in 1..(CHANNELID_MAX_LENGTH + 1)
  /\ Default \in Name /\ Len(Default) < CHANNELID_MAX_LENGTH

VARIABLES
  channel,      \* client_t.channel_id of either client
  name,         \* the channel each is on, as it asked for it; <<>>: none yet
  peer_protocol,
  peer_count,   \* msg_count of the other client
  told          \* what the last message of a client announced, and whether
                \* the other client was sent it

record_vars == <<channel, name, peer_protocol, peer_count, told>>

Other(c) == IF c = "self" THEN "peer" ELSE "self"

-----------------------------------------------------------------------------
(* The array a name is copied into, cleared before.  The character too     *)
(* many lands in the display name, which is copied afterwards.             *)
Array(n) == [i \in 1..CHANNELID_MAX_LENGTH |-> IF i <= Len(n) THEN n[i] ELSE 0]

(* execute_msg copies the whole array. *)
JoinedText(cells, n) == [i \in DOMAIN cells |-> IF i <= Len(n) THEN n[i] ELSE cells[i]]
Joined(cells, n) == Array(n)

(* What strcmp sees: the array and the two bytes of msg_count, up to a 0.  *)
Bytes(cells, count) == cells \o <<count % BYTE, count \div BYTE>>
Terminated(bytes) == 0 \in Range(bytes)
Text(bytes) ==
  IF Terminated(bytes) THEN SubSeq(bytes, 1, SelectInSeq(bytes, LAMBDA b : b = 0) - 1)
  ELSE bytes

(* How the two strings may compare. *)
EqualPrefix(x, y) == {IsPrefix(Text(x), Text(y))}
Equal(x, y) ==
  CASE Text(x) # Text(y) -> {FALSE}
    [] Text(x) = Text(y) /\ Terminated(x) -> {TRUE}
    [] Text(x) = Text(y) /\ ~Terminated(x) -> BOOLEAN

(* forward_msg_channel for client c on the channel in cells: whether the   *)
(* other client is sent the message.                                       *)
forward_msg_channel(c, cells) ==
  LET count == [self |-> msg_count', peer |-> peer_count']
  IN  Equal(Bytes(channel[Other(c)], count[Other(c)]), Bytes(cells, count[c]))

Announced(c, n, heard) == [from |-> c, name |-> n, heard |-> heard]

-----------------------------------------------------------------------------
(* execute_msg.  A client that is authorized is refused a second time. *)
execute_auth(c) ==
  IF name[c] # <<>> THEN told' = {} /\ UNCHANGED <<channel, name>>
  ELSE /\ channel' = [channel EXCEPT ![c] = Array(Default)]
       /\ name' = [name EXCEPT ![c] = Default]
       /\ \E heard \in forward_msg_channel(c, channel'[c]) :
            told' = {Announced(c, Default, heard)}

execute_join(c, n) ==
  /\ name[c] # <<>>
  /\ channel' = [channel EXCEPT ![c] = Joined(@, n)]
  /\ name' = [name EXCEPT ![c] = n]
  /\ \E left \in forward_msg_channel(c, channel[c]),
        joined \in forward_msg_channel(c, channel'[c]) :
       told' = {Announced(c, name[c], left), Announced(c, n, joined)}

execute_chat(c) ==
  /\ name[c] # <<>>
  /\ \E heard \in forward_msg_channel(c, channel[c]) :
       told' = {Announced(c, name[c], heard)}
  /\ UNCHANGED <<channel, name>>

execute_msg(c) ==
  \/ execute_auth(c)
  \/ \E n \in Name : execute_join(c, n)
  \/ execute_chat(c)

(* A message of the UDP client, with this id: counted, then executed,      *)
(* unless it was processed before.                                         *)
self_msg(id) ==
  /\ process_msg(id)
  /\ UNCHANGED <<peer_protocol, peer_count>>
  /\ \/ verdict' = <<id, TRUE>> /\ execute_msg("self")
     \/ verdict' = <<id, FALSE>> /\ told' = {} /\ UNCHANGED <<channel, name>>

(* A message of the other client; those of a TCP client are not counted.   *)
peer_msg ==
  /\ \/ peer_protocol = "e_tcp" /\ UNCHANGED peer_count
     \/ /\ peer_protocol = "e_udp" /\ peer_count < MaxPeer
        /\ peer_count' = peer_count + 1
  /\ UNCHANGED <<vars, peer_protocol>>
  /\ execute_msg("peer")

RInit ==
  /\ Init
  /\ channel = [c \in {"self", "peer"} |-> Array(<<>>)]
  /\ name = [c \in {"self", "peer"} |-> <<>>]
  /\ peer_protocol \in {"e_tcp", "e_udp"}
  /\ peer_count = 0
  /\ told = {}

RNext == (\E id \in Id : self_msg(id)) \/ peer_msg

RSpec == RInit /\ [][RNext]_<<vars, record_vars>>

-----------------------------------------------------------------------------
(* On a channel whose name is shorter than the array, members are sent     *)
(* whatever is announced or said there, however often either has changed   *)
(* its channel or spoken.                                                  *)
MembersTold ==
  \A t \in told :
    Len(t.name) < CHANNELID_MAX_LENGTH /\ name[Other(t.from)] = t.name => t.heard

(* What is sent on a channel is sent to nobody on another, unless the      *)
(* names agree as far as the array goes: what strcmp reads behind a full   *)
(* array can only keep members apart.                                      *)
StrangersNotTold ==
  \A t \in told : t.heard => Array(name[Other(t.from)]) = Array(t.name)
=============================================================================
