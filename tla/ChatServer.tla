----------------------------- MODULE ChatServer -----------------------------
(***************************************************************************)
(* The event loop of the IPK24-CHAT server (src/src/main.c): the client    *)
(* records, the buffer of UDP messages that wait for a CONFIRM, the        *)
(* handlers poll() dispatches, the retransmission sweep and the shutdown   *)
(* that SIGINT starts.                                                     *)
(*                                                                         *)
(* One action is one handler run to its end, with every message it sends   *)
(* and every record it deletes.  Names, contents and secrets are left out; *)
(* a channel name is kept, because routing depends on it.  The id of a     *)
(* buffered message only tells apart messages that are alike; a CONFIRM    *)
(* refers to one buffered message or to none (the 16-bit counter and the   *)
(* wire format of ids are the subject of WireId).                          *)
(* A buffered message falls due in an idle poll round chosen by the        *)
(* environment (the countdown itself is the subject of UdpTimer).          *)
(***************************************************************************)
EXTENDS Integers, FiniteSets, Functions

CONSTANTS
  Fd,                  \* descriptors the process can open for clients
  Welcome,             \* the UDP welcome socket
  Addr,                \* network addresses of clients
  Channel,             \* channel names a JOIN can carry
  Default,             \* the channel "default" that AUTH enters
  NoChannel,           \* the empty channel_id of a client not authorized yet
  Unknown,             \* a CONFIRM's ref_id that no buffered message has
  MaxId,               \* bound: messages of one type buffered for one socket
  MaxBuffered,         \* bound: messages in the buffer after an input
  udp_retransmissions, \* -r
  STOP_TIMEOUT,
  POLL_INTERVAL

ASSUME WelcomeAssumption == Welcome \notin Fd
ASSUME ChannelAssumption == Default \in Channel /\ NoChannel \notin Channel
ASSUME LimitAssumption ==
  /\ udp_retransmissions \in Nat
  /\ MaxId \in Nat /\ MaxBuffered \in Nat
  /\ STOP_TIMEOUT \in Nat
  /\ POLL_INTERVAL \in Nat \ {0}

VARIABLES
  clients,       \* sockfd -> client record, for every record in the queue
  msg_out_buf,   \* UDP messages sent and not confirmed
  leaked,        \* open descriptors neither polled nor kept in a record
  stale,         \* open descriptors of deleted clients, left in pollfd
  reset,         \* TCP descriptors on which send() fails (peer is gone)
  stop_flag,
  stop_timeout,
  clnt_dstr,     \* clients udp_timeout still has to destruct
  status         \* whether the process runs, has exited, crashed or was killed

vars == <<clients, msg_out_buf, leaked, stale, reset, stop_flag, stop_timeout,
          clnt_dstr, status>>

-----------------------------------------------------------------------------
(* Types *)

State == {"s_ac", "s_op", "s_en"}   \* s_au is never assigned, s_er never
                                    \* outlives the handler that assigns it
Client == [protocol : {"e_tcp", "e_udp"}, state : State, addr : Addr,
           channel_id : Channel \cup {NoChannel}]

(* What the server sends and buffers; the last three are e_msg. *)
OutType == {"e_reply", "e_err", "e_bye", "joined", "left", "chat"}

OutMsg == [id : 1..MaxId, sockfd : Fd \cup {Welcome}, type : OutType,
           retry_count : 0..udp_retransmissions]

(* What parse() makes of a well-formed input. *)
Plain   == [type : {"e_reply", "e_auth", "e_msg", "e_err", "e_bye"}]
Join    == [type : {"e_join"}, channel_id : Channel]
Confirm == [type : {"e_confirm"}, ref_id : msg_out_buf \cup {Unknown}]

TcpMsg == Plain \cup Join
UdpMsg == TcpMsg \cup Confirm

Running == status = "running"
Ready   == Running /\ clnt_dstr = {}     \* the main thread is in poll()
FreeFd  == Fd \ (DOMAIN clients \cup leaked \cup stale)

-----------------------------------------------------------------------------
(* Sending *)

To(fds, type) == {[sockfd |-> g, type |-> type] : g \in fds}

(* forward_msg_channel: whom a message of client f to channel c reaches. *)
RecipientsAnyChannel(cl, f, c) == {g \in DOMAIN cl \ {f} : cl[g].state # "s_en"}
Recipients(cl, f, c) ==
  {g \in DOMAIN cl \ {f} : cl[g].state # "s_en" /\ cl[g].channel_id = c}

notify_join(cl, f, c) == To(Recipients(cl, f, c), "joined")
notify_leave(cl, f, c) == To(Recipients(cl, f, c), "left")

(* close_client: BYE unless the client has ended already. *)
close_clientAlways(cl, f) == To({f}, "e_bye")
close_client(cl, f) == IF cl[f].state # "s_en" THEN To({f}, "e_bye") ELSE {}

(* send_msg: what is sent over UDP joins the messages kept in the buffer,  *)
(* under an id that no message like it has.                                *)
FreeIds(s) ==
  {i \in 1..MaxId : \A m \in msg_out_buf :
     m.sockfd = s.sockfd /\ m.type = s.type => m.id # i}

Queued(s) ==
  [id |-> CHOOSE i \in FreeIds(s) : TRUE, sockfd |-> s.sockfd,
   type |-> s.type, retry_count |-> 0]

send_msg(kept, sends) ==
  /\ \A s \in sends : FreeIds(s) # {}
  /\ msg_out_buf' = kept \cup {Queued(s) : s \in sends}

(* send() over TCP fails once the peer is gone. *)
Failing(sends) == {s.sockfd : s \in sends} \cap reset

(* del_poll_fd closes a deleted client's descriptor only when it finds it  *)
(* in the polled part of the list (see PollList); otherwise it stays open  *)
(* and in the list.                                                        *)
del_poll_fd(dead) ==
  /\ \E lost \in SUBSET dead : stale' = stale \cup lost
  /\ reset' = reset \ dead

(* delete_client: the buffered messages of a deleted client go with it. *)
delete_clientKeeping(msgs, dead) == msgs
delete_client(msgs, dead) == {m \in msgs : m.sockfd \notin dead}

-----------------------------------------------------------------------------
(* Processing one message of client f, in the client table cl.  The result *)
(* is the state and channel f ends up with, what the handler sends and     *)
(* which buffered messages it drops as confirmed.                          *)

Result(state, channel, sends, confirmed) ==
  [state |-> state, channel_id |-> channel, sends |-> sends,
   confirmed |-> confirmed]

Unchanged(c) == Result(c.state, c.channel_id, {}, {})

(* A CONFIRM is matched by id alone, whoever sent it; confirming a BYE     *)
(* closes the sender of the confirm.                                       *)
execute_confirmReopen(cl, f, ref) ==
  LET hit == {ref} \cap msg_out_buf
  IN  Result(IF cl[f].state = "s_en" THEN "s_ac" ELSE cl[f].state,
             cl[f].channel_id, {}, hit)
execute_confirm(cl, f, ref) ==
  LET hit == {ref} \cap msg_out_buf
      bye == \E m \in hit : m.type = "e_bye"
  IN  Result(IF bye THEN "s_en" ELSE cl[f].state, cl[f].channel_id,
             IF bye THEN close_client(cl, f) ELSE {}, hit)

execute_reply(cl, f) ==
  Result("s_en", cl[f].channel_id, To({f}, "e_err"), {})

execute_authNoChannel(cl, f) ==
  Result("s_op", cl[f].channel_id,
         To({f}, "e_reply") \cup notify_join(cl, f, Default), {})
execute_auth(cl, f) ==
  IF cl[f].state = "s_op"
  THEN Result("s_op", cl[f].channel_id, To({f}, "e_reply"), {})
  ELSE Result("s_op", Default,
              To({f}, "e_reply") \cup notify_join(cl, f, Default), {})

(* Both notifications go out, also when the channel stays the same. *)
execute_joinLeaveLate(cl, f, channel) ==
  Result("s_op", channel,
         To({f}, "e_reply") \cup notify_leave(cl, f, channel)
           \cup notify_join(cl, f, channel), {})
execute_join(cl, f, channel) ==
  Result("s_op", channel,
         To({f}, "e_reply") \cup notify_leave(cl, f, cl[f].channel_id)
           \cup notify_join(cl, f, channel), {})

execute_chat(cl, f) ==
  Result("s_op", cl[f].channel_id,
         To(Recipients(cl, f, cl[f].channel_id), "chat"), {})

(* BYE is processed in every state; before AUTH it is answered with ERR.   *)
execute_bye(cl, f) ==
  Result("s_en", cl[f].channel_id,
         notify_leave(cl, f, cl[f].channel_id) \cup
           IF cl[f].state = "s_ac" THEN To({f}, "e_err") ELSE {}, {})

execute_msg(cl, f, msg) ==
  CASE msg.type = "e_confirm" -> execute_confirm(cl, f, msg.ref_id)
    [] msg.type = "e_reply"   -> execute_reply(cl, f)
    [] msg.type = "e_auth"    -> execute_auth(cl, f)
    [] msg.type = "e_join"    -> execute_join(cl, f, msg.channel_id)
    [] msg.type = "e_msg"     -> execute_chat(cl, f)
    [] msg.type = "e_bye"     -> execute_bye(cl, f)
    [] OTHER                  -> Unchanged(cl[f])

(* Once the server stops, or the client has ended, only CONFIRM and BYE    *)
(* are executed.                                                           *)
DroppedByState(c, msg) ==
  c.state = "s_en" /\ msg.type \notin {"e_confirm", "e_bye"}
Dropped(c, msg) ==
  /\ stop_flag \/ c.state = "s_en"
  /\ msg.type \notin {"e_confirm", "e_bye"}

check_state_transition(c, msg) ==
  /\ c.state = "s_ac" => msg.type \in {"e_confirm", "e_auth", "e_bye"}
  /\ c.state = "s_en" => msg.type \in {"e_confirm", "e_bye"}

(* A message the state forbids ends the client with ERR and without BYE.   *)
process_msg(cl, f, msg) ==
  IF Dropped(cl[f], msg) THEN Unchanged(cl[f])
  ELSE IF check_state_transition(cl[f], msg) THEN execute_msg(cl, f, msg)
  ELSE Result("s_en", cl[f].channel_id, To({f}, "e_err"), {})

(* The record of a client whose message was processed with result r. *)
Updated(c, r) ==
  [protocol |-> c.protocol, state |-> r.state, addr |-> c.addr,
   channel_id |-> r.channel_id]

(* What a handler leaves behind: a TCP client that ended is deleted, and   *)
(* so is every TCP client a send to which failed.  There send_msg and      *)
(* close_client recurse and go on with the record they have just freed;    *)
(* what they read of it is not overwritten, and it is not found again.     *)
Finish(cl, f, r) ==
  LET failed == Failing(r.sends)
      ended  == {g \in {f} : cl[g].protocol = "e_tcp" /\ r.state = "s_en"}
      dead   == failed \cup ended
      after  == [cl EXCEPT ![f] = Updated(cl[f], r)]
  IN  /\ clients' = Restrict(after, DOMAIN cl \ dead)
      /\ send_msg(delete_client(msg_out_buf \ r.confirmed, dead),
                  {s \in r.sends : cl[s.sockfd].protocol = "e_udp"})
      /\ del_poll_fd(dead)

-----------------------------------------------------------------------------
(* The handlers of the event loop *)

NewClientOpen(protocol, a) ==
  [protocol |-> protocol, state |-> "s_op", addr |-> a,
   channel_id |-> Default]
NewClient(protocol, a) ==
  [protocol |-> protocol, state |-> "s_ac", addr |-> a,
   channel_id |-> NoChannel]

AddClient(f, c) ==
  [g \in DOMAIN clients \cup {f} |-> IF g = f THEN c ELSE clients[g]]

(* TCP has one live connection per peer address. *)
tcp_polling(f, a) ==
  /\ Ready
  /\ f \in FreeFd
  /\ \A g \in DOMAIN clients \ reset :
       clients[g].protocol = "e_tcp" => clients[g].addr # a
  /\ clients' = AddClient(f, NewClient("e_tcp", a))
  /\ UNCHANGED <<msg_out_buf, leaked, stale, reset, stop_flag, stop_timeout,
                 clnt_dstr, status>>

InUseNotEnded(a) ==
  \E g \in DOMAIN clients : clients[g].addr = a /\ clients[g].state # "s_en"
InUse(a) == \E g \in DOMAIN clients : clients[g].addr = a

(* A datagram on the welcome socket that parse() rejects: the ERR is sent, *)
(* and buffered, on the welcome socket itself.                             *)
udp_polling_malformed ==
  /\ Ready
  /\ FreeFd # {}
  /\ send_msg(msg_out_buf, To({Welcome}, "e_err"))
  /\ UNCHANGED <<clients, leaked, stale, reset, stop_flag, stop_timeout,
                 clnt_dstr, status>>

(* ... from an address some client has: the ERR is buffered on the socket  *)
(* made for the newcomer, which nothing closes.                            *)
udp_polling_in_use(f, a) ==
  /\ Ready
  /\ f \in FreeFd
  /\ InUse(a)
  /\ send_msg(msg_out_buf, To({f}, "e_err"))
  /\ leaked' = leaked \cup {f}
  /\ UNCHANGED <<clients, stale, reset, stop_flag, stop_timeout, clnt_dstr,
                 status>>

(* ... from a new address: the client is created and its message processed. *)
udp_polling(f, a, msg) ==
  /\ Ready
  /\ f \in FreeFd
  /\ ~InUse(a)
  /\ LET cl == AddClient(f, NewClient("e_udp", a))
     IN  Finish(cl, f, process_msg(cl, f, msg))
  /\ UNCHANGED <<leaked, stop_flag, stop_timeout, clnt_dstr, status>>

(* Input on a client's socket: read_msg, then process_msg.  A datagram     *)
(* moves the client to the address it came from.                           *)
Readable(f, protocol) ==
  /\ Ready
  /\ f \in DOMAIN clients
  /\ clients[f].protocol = protocol

From(f, a) == [clients EXCEPT ![f].addr = a]

process_msg_sock_tcp(f, msg) ==
  /\ Readable(f, "e_tcp")
  /\ Finish(clients, f, process_msg(clients, f, msg))
  /\ UNCHANGED <<leaked, stop_flag, stop_timeout, clnt_dstr, status>>

process_msg_sock_udp(f, a, msg) ==
  /\ Readable(f, "e_udp")
  /\ LET cl == From(f, a)
     IN  Finish(cl, f, process_msg(cl, f, msg))
  /\ UNCHANGED <<leaked, stop_flag, stop_timeout, clnt_dstr, status>>

(* A message the client has sent before: CONFIRM again, nothing else. *)
process_msg_sock_duplicate(f, a) ==
  /\ Readable(f, "e_udp")
  /\ Finish(From(f, a), f, Unchanged(clients[f]))
  /\ UNCHANGED <<leaked, stop_flag, stop_timeout, clnt_dstr, status>>

(* Input that parse() rejects: ERR, and the client goes on. *)
Malformed(c, f) == Result(c.state, c.channel_id, To({f}, "e_err"), {})

read_msg_malformed_tcp(f) ==
  /\ Readable(f, "e_tcp")
  /\ Finish(clients, f, Malformed(clients[f], f))
  /\ UNCHANGED <<leaked, stop_flag, stop_timeout, clnt_dstr, status>>

read_msg_malformed_udp(f, a) ==
  /\ Readable(f, "e_udp")
  /\ Finish(From(f, a), f, Malformed(clients[f], f))
  /\ UNCHANGED <<leaked, stop_flag, stop_timeout, clnt_dstr, status>>

(* Input on a descriptor that no record has: del_poll_fd closes it. *)
process_msg_sock_missing(f) ==
  /\ Ready
  /\ f \in stale
  /\ stale' = stale \ {f}
  /\ UNCHANGED <<clients, msg_out_buf, leaked, reset, stop_flag, stop_timeout,
                 clnt_dstr, status>>

(* FIN without BYE: the client is closed, and nobody is told. *)
read_msg_fin(f) ==
  /\ Readable(f, "e_tcp")
  /\ Finish(clients, f,
            Result("s_en", clients[f].channel_id, close_client(clients, f), {}))
  /\ UNCHANGED <<leaked, stop_flag, stop_timeout, clnt_dstr, status>>

(* The peer of a TCP client goes away: from now on send() fails. *)
PeerReset(f) ==
  /\ Running
  /\ f \in DOMAIN clients \ reset
  /\ clients[f].protocol = "e_tcp"
  /\ reset' = reset \cup {f}
  /\ UNCHANGED <<clients, msg_out_buf, leaked, stale, stop_flag, stop_timeout,
                 clnt_dstr, status>>

-----------------------------------------------------------------------------
(* An idle round: poll() timed out *)

Orphans == {m \in msg_out_buf : m.sockfd \notin DOMAIN clients}
MayStop == stop_flag /\ msg_out_buf = {}

CountDown ==
  stop_timeout' = IF MayStop THEN stop_timeout - POLL_INTERVAL
                  ELSE STOP_TIMEOUT

ExhaustedEarly(m) == m.retry_count + 1 >= udp_retransmissions
Exhausted(m) == m.retry_count >= udp_retransmissions

RetransmitAnyway(due) ==
  {IF m \in due /\ m.retry_count < udp_retransmissions + 1
   THEN [m EXCEPT !.retry_count = @ + 1] ELSE m : m \in msg_out_buf}
Retransmit(due) ==
  {IF m \in due /\ ~Exhausted(m) THEN [m EXCEPT !.retry_count = @ + 1] ELSE m
     : m \in msg_out_buf}

(* The clients of the exhausted messages are put on a list with room for   *)
(* one entry per client.  A message without a client takes an entry of its *)
(* own; past the end of the list the stack is overwritten, which the       *)
(* process may or may not survive.                                         *)
udp_timeoutSkipEnded(due) ==
  LET exhausted == {m \in due : Exhausted(m)}
  IN  /\ msg_out_buf' = Retransmit(due)
      /\ clnt_dstr' = {f \in DOMAIN clients : clients[f].state # "s_en" /\
                         \E m \in exhausted : m.sockfd = f}
      /\ UNCHANGED status
udp_timeout(due) ==
  LET exhausted == {m \in due : Exhausted(m)}
      listed    == {m.sockfd : m \in exhausted} \cap DOMAIN clients
      clnt_size == Cardinality(listed) + Cardinality(exhausted \cap Orphans)
      overrun   == clnt_size > Cardinality(DOMAIN clients)
  IN  /\ msg_out_buf' = Retransmit(due)
      /\ clnt_dstr' = listed
      /\ status' \in IF overrun THEN {status, "crashed"} ELSE {status}

poll_idle(due) ==
  /\ Ready
  /\ ~(MayStop /\ stop_timeout <= 0)
  /\ CountDown
  /\ udp_timeout(due)
  /\ UNCHANGED <<clients, leaked, stale, reset, stop_flag>>

(* The second half of udp_timeout, one listed client at a time: a client   *)
(* that is not ended yet gets its BYE and its channel is told; one that    *)
(* was ended before is deleted.                                            *)
udp_timeout_close(f) ==
  /\ Running
  /\ f \in clnt_dstr
  /\ clients[f].state # "s_en"
  /\ Finish(clients, f,
            Result("s_en", clients[f].channel_id,
                   close_client(clients, f) \cup
                     notify_leave(clients, f, clients[f].channel_id), {}))
  /\ clnt_dstr' = clnt_dstr \ {f}
  /\ UNCHANGED <<leaked, stop_flag, stop_timeout, status>>

udp_timeout_deleteAny(f) ==
  /\ Running
  /\ f \in clnt_dstr
  /\ clients' = Restrict(clients, DOMAIN clients \ {f})
  /\ msg_out_buf' = delete_client(msg_out_buf, {f})
  /\ del_poll_fd({f})
  /\ clnt_dstr' = clnt_dstr \ {f}
  /\ UNCHANGED <<leaked, stop_flag, stop_timeout, status>>
udp_timeout_delete(f) ==
  /\ Running
  /\ f \in clnt_dstr
  /\ clients[f].state = "s_en"
  /\ clients' = Restrict(clients, DOMAIN clients \ {f})
  /\ msg_out_buf' = delete_client(msg_out_buf, {f})
  /\ del_poll_fd({f})
  /\ clnt_dstr' = clnt_dstr \ {f}
  /\ UNCHANGED <<leaked, stop_flag, stop_timeout, status>>

stop ==
  /\ Ready
  /\ MayStop /\ stop_timeout <= 0
  /\ status' = "exited"
  /\ UNCHANGED <<clients, msg_out_buf, leaked, stale, reset, stop_flag,
                 stop_timeout, clnt_dstr>>

-----------------------------------------------------------------------------
(* The first SIGINT, between two handlers or during the destruction sweep: *)
(* every client not ended yet gets its BYE, and TCP clients are deleted.   *)

sigint_handler ==
  LET open == {f \in DOMAIN clients : clients[f].state # "s_en"}
      dead == {f \in open : clients[f].protocol = "e_tcp"}
  IN  /\ Running /\ ~stop_flag
      /\ stop_flag' = TRUE
      /\ clients' = [f \in DOMAIN clients \ dead |->
                       IF f \in open THEN [clients[f] EXCEPT !.state = "s_en"]
                       ELSE clients[f]]
      /\ send_msg(delete_client(msg_out_buf, dead), To(open \ dead, "e_bye"))
      /\ del_poll_fd(dead)
      /\ UNCHANGED <<leaked, stop_timeout, clnt_dstr, status>>

(* The build asks for --std=c11, where signal() is that of System V: the   *)
(* handler is reset when it is called, and another SIGINT is fatal.        *)
sigint_default ==
  /\ Running /\ stop_flag
  /\ status' = "killed"
  /\ UNCHANGED <<clients, msg_out_buf, leaked, stale, reset, stop_flag,
                 stop_timeout, clnt_dstr>>

(* The process is gone. *)
Gone == ~Running /\ UNCHANGED vars

-----------------------------------------------------------------------------
Init ==
  /\ clients = [f \in {} |-> NewClient("e_tcp", CHOOSE a \in Addr : TRUE)]
  /\ msg_out_buf = {}
  /\ leaked = {}
  /\ stale = {}
  /\ reset = {}
  /\ stop_flag = FALSE
  /\ stop_timeout = STOP_TIMEOUT
  /\ clnt_dstr = {}
  /\ status = "running"

(* Steps the peers bring about. *)
Input ==
  \/ \E f \in Fd, a \in Addr :
       \/ tcp_polling(f, a)
       \/ udp_polling_in_use(f, a)
       \/ \E msg \in UdpMsg : udp_polling(f, a, msg)
       \/ \E msg \in UdpMsg : process_msg_sock_udp(f, a, msg)
       \/ process_msg_sock_duplicate(f, a)
       \/ read_msg_malformed_udp(f, a)
  \/ udp_polling_malformed
  \/ \E f \in Fd :
       \/ \E msg \in TcpMsg : process_msg_sock_tcp(f, msg)
       \/ read_msg_malformed_tcp(f)
       \/ read_msg_fin(f)
       \/ process_msg_sock_missing(f)
       \/ PeerReset(f)

(* Steps the server takes by itself. *)
Sweep == \E f \in Fd : udp_timeout_close(f) \/ udp_timeout_delete(f)
Idle  == \E due \in SUBSET msg_out_buf : poll_idle(due)

(* The bound on the buffer holds back inputs, never the server's own steps. *)
Room == Cardinality(msg_out_buf) <= MaxBuffered

Next ==
  \/ Input /\ Room'
  \/ Idle
  \/ Sweep
  \/ stop
  \/ sigint_handler \/ sigint_default
  \/ Gone

Spec == Init /\ [][Next]_vars

-----------------------------------------------------------------------------
(* Properties *)

(* Every variable stays within its type; in particular retry_count never   *)
(* passes udp_retransmissions, so a message is sent at most                *)
(* 1 + udp_retransmissions times (main.c udp_timeout).                     *)
TypeOK ==
  /\ DOMAIN clients \subseteq Fd
  /\ clients \in [DOMAIN clients -> Client]
  /\ msg_out_buf \subseteq OutMsg
  /\ leaked \subseteq Fd
  /\ stale \subseteq Fd
  /\ reset \subseteq DOMAIN clients
  /\ stop_flag \in BOOLEAN
  /\ stop_timeout \in Int
  /\ clnt_dstr \subseteq DOMAIN clients
  /\ status \in {"running", "exited", "crashed", "killed"}

(* A buffered message is on the socket of a UDP client, or it is an ERR    *)
(* sent on a socket no client has.  No message survives on a descriptor    *)
(* that was closed, so none is ever retransmitted to, or closes, a client  *)
(* that got the descriptor later (delete_client, "TODO delete messages").  *)
PendingOwner ==
  \A m \in msg_out_buf :
    IF m.sockfd \in DOMAIN clients THEN clients[m.sockfd].protocol = "e_udp"
    ELSE m.type = "e_err" /\ m.sockfd \in leaked \cup {Welcome}

(* While a BYE of the server is pending, its client is in s_en, and there  *)
(* is only one: the server says goodbye once (close_client).               *)
ByeEndsSession ==
  \A m \in msg_out_buf : m.type = "e_bye" =>
    /\ m.sockfd \in DOMAIN clients /\ clients[m.sockfd].state = "s_en"
    /\ \A n \in msg_out_buf :
         n.type = "e_bye" /\ n.sockfd = m.sockfd => n = m

(* A client is on a channel exactly when it has been authorized: s_ac has  *)
(* none, s_op has one, so a message is never routed over the empty name by *)
(* an authorized client (execute_msg, e_auth and e_join).                  *)
JoinedIffAuthorized ==
  \A f \in DOMAIN clients :
    /\ clients[f].state = "s_ac" => clients[f].channel_id = NoChannel
    /\ clients[f].state = "s_op" => clients[f].channel_id # NoChannel

(* Once SIGINT was handled no client is in an open session, not even one   *)
(* that connects later (sigint_handler, process_msg).                      *)
StopSilencesSessions ==
  stop_flag => \A f \in DOMAIN clients : clients[f].state # "s_op"

(* A client is closed or deleted for silence only while one of its        *)
(* messages has been sent 1 + udp_retransmissions times: what happens      *)
(* between listing and sweeping, SIGINT included, never leaves a client on *)
(* the list that has nothing left unanswered (udp_timeout).                *)
SweepOnlyUnresponsive ==
  \A f \in clnt_dstr : \E m \in msg_out_buf :
    m.sockfd = f /\ m.retry_count = udp_retransmissions

(* A client that ended stays ended until its record is deleted: no late    *)
(* AUTH, JOIN or CONFIRM opens the session again (process_msg).            *)
EndIsFinal ==
  [][\A f \in DOMAIN clients \cap DOMAIN clients' :
       clients[f].state = "s_en" => clients'[f].state = "s_en"]_vars

(* A client that changes channel is announced to both: every other UDP     *)
(* client still in the channel it leaves gets "left", every one in the     *)
(* channel it enters gets "joined" (execute_msg, e_auth and e_join).       *)
MoveAnnounced ==
  [][\A f, g \in DOMAIN clients \cap DOMAIN clients' :
       LET old  == clients[f].channel_id
           new  == clients'[f].channel_id
           gets(type) == \E m \in msg_out_buf' \ msg_out_buf :
                           m.sockfd = g /\ m.type = type
       IN  f # g /\ old # new /\ clients[g].protocol = "e_udp"
             /\ clients[g].state # "s_en"
           => /\ clients[g].channel_id = old /\ old # NoChannel => gets("left")
              /\ clients[g].channel_id = new => gets("joined")]_vars

(* A chat message is buffered only for a client that had not ended and     *)
(* shares its channel with another authorized client, the one it comes     *)
(* from (forward_msg_channel).                                             *)
ChatFromMember ==
  [][\A m \in msg_out_buf' \ msg_out_buf : m.type = "chat" /\ m.retry_count = 0
       => /\ clients[m.sockfd].state # "s_en"
          /\ \E f \in DOMAIN clients \ {m.sockfd} :
               /\ clients[f].state = "s_op"
               /\ clients[f].channel_id = clients[m.sockfd].channel_id]_vars

(* A UDP client is deleted only after its session has ended: no UDP        *)
(* session is dropped in one step, without a BYE sent or received, or an   *)
(* ERR, before (udp_timeout, delete_client).                               *)
UdpEndsBeforeDeletion ==
  [][\A f \in DOMAIN clients \ DOMAIN clients' :
       clients[f].protocol = "e_udp" => clients[f].state = "s_en"]_vars

(* Clients and their states, seen as sessions: the event loop implements   *)
(* Session.  A session goes through its phases in order and never back,    *)
(* one client at a time, whatever handlers, failed sends, sweeps and       *)
(* SIGINT come together in a step (process_msg, close_client,              *)
(* delete_client, sigint_handler).                                         *)
PhaseOf == [s_ac |-> "accepted", s_op |-> "open", s_en |-> "ended"]

SessionOf(f) ==
  IF f \in DOMAIN clients
  THEN [protocol |-> clients[f].protocol, phase |-> PhaseOf[clients[f].state]]
  ELSE [protocol |-> "none", phase |-> "free"]

Sessions ==
  INSTANCE Session WITH session <- [f \in Fd |-> SessionOf(f)],
                        stopping <- stop_flag

ImplementsSession == Sessions!Spec

=============================================================================
