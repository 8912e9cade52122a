------------------------------ MODULE Handshake ------------------------------
(***************************************************************************)
(* The event loop together with one UDP client and the network between     *)
(* them, which loses, delays and reorders datagrams; copies of a datagram  *)
(* come from retransmission.  The client (external, as the protocol        *)
(* describes it) sends AUTH to the welcome socket until it is confirmed or *)
(* it has tried often enough, and confirms whatever it gets.  Every step   *)
(* of the server is a step of ChatServer; what it sends is what it puts    *)
(* into the buffer or counts as retransmitted, and the CONFIRM of an AUTH  *)
(* it executes.                                                            *)
(***************************************************************************)
EXTENDS ChatServer

CONSTANTS
  ClientAddr,       \* the address of the client
  client_retries,   \* how often the client repeats AUTH
  MaxLoss           \* bound: datagrams lost

ASSUME NetworkAssumption ==
  /\ ClientAddr \in Addr
  /\ client_retries \in Nat /\ MaxLoss \in Nat

VARIABLES
  net,        \* datagrams on their way
  tries,      \* copies of AUTH the client has sent
  confirmed,  \* the client has the CONFIRM of its AUTH
  got,        \* types of the messages the client has received
  sessions,   \* times AUTH was executed
  losses      \* datagrams lost

hvars == <<vars, net, tries, confirmed, got, sessions, losses>>
client_vars == <<tries, confirmed, got>>

(* A datagram, to or from descriptor fd.  Copies of a message are told     *)
(* apart by its retry_count (AUTH: by the number of the try), messages of  *)
(* different sessions, whose ids differ, by the number of the session.     *)
Auth(copy) == [to |-> "server", fd |-> Welcome, type |-> "e_auth", copy |-> copy]
AuthConfirm(f) == [to |-> "client", fd |-> f, type |-> "e_confirm"]
Reliable(m, n) == [to |-> "client", fd |-> m.sockfd, type |-> m.type, msg |-> m,
                   session |-> n]
Confirms(d) == [to |-> "server", fd |-> d.fd, type |-> "e_confirm",
                ref |-> <<d.msg.type, d.msg.id>>, session |-> d.session]

(* What the server sends in a step, in session n: what is new in its buffer. *)
Sent(n) == {Reliable(m, n) : m \in msg_out_buf' \ msg_out_buf}

-----------------------------------------------------------------------------
(* The client *)

client_send_auth ==
  /\ ~confirmed
  /\ tries <= client_retries
  /\ tries' = tries + 1
  /\ net' = net \cup {Auth(tries)}
  /\ UNCHANGED <<vars, confirmed, got, sessions, losses>>

client_recv(d) ==
  /\ d \in net /\ d.to = "client"
  /\ IF d.type = "e_confirm"
     THEN /\ confirmed' = TRUE
          /\ net' = net \ {d}
          /\ UNCHANGED got
     ELSE /\ got' = got \cup {d.type}
          /\ net' = (net \ {d}) \cup {Confirms(d)}
          /\ UNCHANGED confirmed
  /\ UNCHANGED <<vars, tries, sessions, losses>>

-----------------------------------------------------------------------------
(* The server *)

(* socket() returns one particular free descriptor, the lowest. *)
LowestFd == CHOOSE f \in FreeFd : TRUE

(* AUTH on the welcome socket, from an address no client has: it is        *)
(* confirmed and executed.                                                 *)
recv_auth(d, f) ==
  /\ d \in net /\ d.to = "server" /\ d.type = "e_auth"
  /\ udp_polling(f, ClientAddr, [type |-> "e_auth"])
  /\ sessions' = sessions + 1
  /\ net' = (net \ {d}) \cup {AuthConfirm(f)} \cup Sent(sessions + 1)
  /\ UNCHANGED <<client_vars, losses>>

(* ... from the address of the client that exists: ERR, and no CONFIRM.    *)
recv_auth_in_useUnread(d, f) ==
  /\ d \in net /\ d.to = "server" /\ d.type = "e_auth"
  /\ udp_polling_in_use(f, ClientAddr)
  /\ net' = net \cup Sent(sessions)
  /\ UNCHANGED <<client_vars, losses, sessions>>
recv_auth_in_use(d, f) ==
  /\ d \in net /\ d.to = "server" /\ d.type = "e_auth"
  /\ udp_polling_in_use(f, ClientAddr)
  /\ net' = (net \ {d}) \cup Sent(sessions)
  /\ UNCHANGED <<client_vars, losses, sessions>>

(* CONFIRM on the socket of the client.  The buffer holds the message with *)
(* the retry_count it has now; the CONFIRM of an earlier session refers to *)
(* none.                                                                   *)
RefId(d) ==
  LET same == {m \in msg_out_buf : /\ d.session = sessions
                                   /\ m.sockfd = d.fd
                                   /\ d.ref = <<m.type, m.id>>}
  IN  IF same = {} THEN Unknown ELSE CHOOSE m \in same : TRUE

recv_confirm(d) ==
  /\ d \in net /\ d.to = "server" /\ d.type = "e_confirm"
  /\ process_msg_sock_udp(d.fd, ClientAddr,
                          [type |-> "e_confirm", ref_id |-> RefId(d)])
  /\ net' = (net \ {d}) \cup Sent(sessions)
  /\ UNCHANGED <<client_vars, losses, sessions>>

(* ... on one the server does not poll, or has closed: nobody reads it.    *)
recv_nowhere(d) ==
  /\ d \in net /\ d.to = "server" /\ d.type = "e_confirm"
  /\ d.fd \notin DOMAIN clients
  /\ net' = net \ {d}
  /\ UNCHANGED <<vars, client_vars, losses, sessions>>

server_idle(due) ==
  /\ poll_idle(due)
  /\ net' = net \cup Sent(sessions)
  /\ UNCHANGED <<client_vars, losses, sessions>>

server_sweep ==
  /\ Sweep
  /\ net' = net \cup Sent(sessions)
  /\ UNCHANGED <<client_vars, losses, sessions>>

-----------------------------------------------------------------------------
(* The network *)

Lose(d) ==
  /\ losses < MaxLoss
  /\ losses' = losses + 1
  /\ net' = net \ {d}
  /\ UNCHANGED <<vars, client_vars, sessions>>

Deliver ==
  \E d \in net :
    \/ client_recv(d)
    \/ recv_confirm(d)
    \/ recv_nowhere(d)
    \/ /\ FreeFd # {}
       /\ recv_auth(d, LowestFd) \/ recv_auth_in_use(d, LowestFd)

HInit ==
  /\ Init
  /\ net = {}
  /\ tries = 0
  /\ confirmed = FALSE
  /\ got = {}
  /\ sessions = 0
  /\ losses = 0

HNext ==
  \/ client_send_auth
  \/ Deliver
  \/ \E due \in SUBSET msg_out_buf : server_idle(due)
  \/ server_sweep
  \/ \E d \in net : Lose(d)
  \/ Gone /\ UNCHANGED hvars

HSpec == HInit /\ [][HNext]_hvars

(* A message for socket f falls due (see MCLiveness). *)
Falls_due(f) ==
  \E due \in SUBSET msg_out_buf :
    (\E m \in due : m.sockfd = f) /\ server_idle(due)

(* The client sends again while it may, what is on its way arrives unless  *)
(* it is lost, and the server goes on as in MCLiveness.                    *)
HFairness ==
  /\ WF_hvars(client_send_auth)
  /\ WF_hvars(Deliver)
  /\ WF_hvars(server_sweep)
  /\ \A f \in Fd : WF_hvars(Falls_due(f))

HLiveSpec == HSpec /\ HFairness

-----------------------------------------------------------------------------
(* Copies of AUTH, however many arrive and however late, never give one    *)
(* address two clients at a time (udp_polling, get_client_by_addr).        *)
OneClientPerAddress ==
  \A f, g \in DOMAIN clients : clients[f].addr = clients[g].addr => f = g

(* Every copy of AUTH that arrives while the client exists costs the       *)
(* server a descriptor, for ever, and nothing else does: a copy is on its  *)
(* way, was lost, opened a session or left a descriptor (udp_polling).     *)
LeakedPerCopy ==
  LET arrived == sessions + Cardinality(leaked)
      coming  == Cardinality({d \in net : d.type = "e_auth"})
  IN  arrived + coming \in (tries - losses)..tries

(* The network loses at most as many datagrams as either side retransmits: *)
(* then a client that asks is answered with REPLY (udp_timeout).           *)
Answered == tries > 0 ~> ("e_reply" \in got \/ ~Running)
=============================================================================
