-------------------------- MODULE ChatServerProofs --------------------------
(***************************************************************************)
(* Proofs about ChatServer.  The invariant Inv is inductive: every handler *)
(* is a call of Finish with a result that ResultOK describes, so the step  *)
(* from a state to the next is proved once for Finish (FinishInv) and      *)
(* what is left for each handler is that its result is such a result.      *)
(***************************************************************************)
EXTENDS ChatServer, TLAPS

(* A TCP record does not outlive its session. *)
TcpNotEnded(cl) ==
  \A f \in DOMAIN cl : cl[f].protocol = "e_tcp" => cl[f].state # "s_en"

(* Nothing is kept open that a client has. *)
LeakedIsNoClient == (leaked \cup stale) \cap DOMAIN clients = {}

ResetIsTcp == \A f \in reset : clients[f].protocol = "e_tcp"

Inv ==
  /\ TypeOK
  /\ PendingOwner
  /\ ByeEndsSession
  /\ JoinedIffAuthorized
  /\ StopSilencesSessions
  /\ SweepOnlyUnresponsive
  /\ TcpNotEnded(clients)
  /\ LeakedIsNoClient
  /\ ResetIsTcp

(* cl is the client table as the handler of client f sees it: f may be     *)
(* new, and may have moved to another address.                             *)
TableOK(cl, f) ==
  /\ cl \in [DOMAIN clients \cup {f} -> Client]
  /\ f \in Fd
  /\ \A g \in DOMAIN clients :
       /\ cl[g].protocol = clients[g].protocol
       /\ cl[g].state = clients[g].state
       /\ cl[g].channel_id = clients[g].channel_id
  /\ f \notin DOMAIN clients =>
       /\ f \notin leaked /\ f \notin stale
       /\ cl[f].protocol = "e_udp" /\ cl[f].state = "s_ac"
       /\ cl[f].channel_id = NoChannel

Send(cl) == [sockfd : DOMAIN cl, type : OutType]

(* Whom a result with a chat message, or a change of channel, is sent to. *)
ChatsToMembers(cl, f, r) ==
  \A s \in r.sends : s.type = "chat" =>
    /\ cl[f].state = "s_op"
    /\ s.sockfd \in Recipients(cl, f, cl[f].channel_id)

MoveIsTold(cl, f, r) ==
  r.channel_id # cl[f].channel_id =>
    /\ cl[f].channel_id # NoChannel =>
         notify_leave(cl, f, cl[f].channel_id) \subseteq r.sends
    /\ notify_join(cl, f, r.channel_id) \subseteq r.sends

ResultOK(cl, f, r) ==
  /\ r.state \in State
  /\ r.channel_id \in Channel \cup {NoChannel}
  /\ r.state = "s_ac" => r.channel_id = NoChannel /\ cl[f].state = "s_ac"
  /\ r.state = "s_op" => r.channel_id # NoChannel
  /\ stop_flag => r.state # "s_op"
  /\ cl[f].state = "s_en" => r.state = "s_en"
  /\ r.sends \subseteq Send(cl)
  /\ \A s \in r.sends :
       s.type = "e_bye" => s.sockfd = f /\ cl[f].state # "s_en" /\ r.state = "s_en"
  /\ r.confirmed \subseteq msg_out_buf
  /\ ChatsToMembers(cl, f, r)
  /\ MoveIsTold(cl, f, r)

-----------------------------------------------------------------------------
(* Sending *)

(* What the handlers send has a type of the buffer's messages. *)
LEMMA SentTypes ==
  /\ "e_reply" \in OutType /\ "e_err" \in OutType /\ "e_bye" \in OutType
  /\ "joined" \in OutType \ {"e_bye"} /\ "left" \in OutType \ {"e_bye"}
  /\ "chat" \in OutType \ {"e_bye"}
BY DEF OutType

(* What To builds: one record per descriptor, of the given type. *)
LEMMA ToSends ==
  ASSUME NEW fds, NEW type, NEW s \in To(fds, type)
  PROVE  s.sockfd \in fds /\ s.type = type
BY DEF To

(* Messages addressed to clients of the table are sends of that table. *)
LEMMA ToType ==
  ASSUME NEW cl, NEW fds \in SUBSET DOMAIN cl, NEW type \in OutType
  PROVE  To(fds, type) \subseteq Send(cl)
BY DEF To, Send

(* send_msg buffers a well-typed message on the socket, and of the type,   *)
(* it was asked to send, and one that was not there before.                *)
LEMMA QueuedType ==
  ASSUME NEW s, s.sockfd \in Fd \cup {Welcome}, s.type \in OutType,
         FreeIds(s) # {}
  PROVE  /\ Queued(s) \in OutMsg
         /\ Queued(s).sockfd = s.sockfd
         /\ Queued(s).type = s.type
         /\ Queued(s) \notin msg_out_buf
<1>1. (CHOOSE i \in FreeIds(s) : TRUE) \in FreeIds(s)
  OBVIOUS
<1>2. (CHOOSE i \in FreeIds(s) : TRUE) \in 1..MaxId
  BY <1>1 DEF FreeIds
<1>3. 0 \in 0..udp_retransmissions
  BY LimitAssumption
<1>4. Queued(s) \notin msg_out_buf
  BY <1>1 DEF Queued, FreeIds
<1> QED
  BY <1>2, <1>3, <1>4 DEF Queued, OutMsg

-----------------------------------------------------------------------------
(* What a handler leaves behind *)

(* The invariant survives a handler: whatever result r of the kind         *)
(* ResultOK describes a handler reaches, the deletions, the buffering and  *)
(* the closing that Finish stands for (process_msg, send_msg,              *)
(* delete_client) keep Inv.                                                *)
LEMMA FinishInv ==
  ASSUME Inv, NEW cl, NEW f, NEW r, TableOK(cl, f), ResultOK(cl, f, r),
         Finish(cl, f, r), UNCHANGED <<leaked, stop_flag, stop_timeout, status>>,
         clnt_dstr' \subseteq clnt_dstr,
         clnt_dstr' = {} \/ r.confirmed = {}
  PROVE  Inv'
<1> DEFINE failed == Failing(r.sends)
           ended  == {g \in {f} : cl[g].protocol = "e_tcp" /\ r.state = "s_en"}
           dead   == failed \cup ended
           after  == [cl EXCEPT ![f] = Updated(cl[f], r)]
           kept   == delete_client(msg_out_buf \ r.confirmed, dead)
           udp    == {s \in r.sends : cl[s.sockfd].protocol = "e_udp"}
<1>1. /\ clients' = Restrict(after, DOMAIN cl \ dead)
      /\ \A s \in udp : FreeIds(s) # {}
      /\ msg_out_buf' = kept \cup {Queued(s) : s \in udp}
      /\ \E lost \in SUBSET dead : stale' = stale \cup lost
      /\ reset' = reset \ dead
  BY DEF Finish, send_msg, del_poll_fd
<1>2. /\ DOMAIN clients' = (DOMAIN clients \cup {f}) \ dead
      /\ \A g \in DOMAIN clients' : clients'[g] = after[g]
  BY <1>1 DEF Restrict, TableOK
<1>3. /\ after \in [DOMAIN clients \cup {f} -> Client]
      /\ \A g \in DOMAIN clients \ {f} : after[g] = cl[g]
      /\ after[f].state = r.state
      /\ after[f].channel_id = r.channel_id
      /\ after[f].protocol = cl[f].protocol
  <2>1. /\ Updated(cl[f], r) \in Client
        /\ Updated(cl[f], r).state = r.state
        /\ Updated(cl[f], r).channel_id = r.channel_id
        /\ Updated(cl[f], r).protocol = cl[f].protocol
    BY DEF TableOK, ResultOK, Client, Updated
  <2> QED
    BY <2>1 DEF TableOK
<1> HIDE DEF after
<1>4. /\ dead \subseteq DOMAIN cl
      /\ \A g \in dead : cl[g].protocol = "e_tcp"
      /\ \A g \in dead : g # f => g \in reset
  BY DEF Failing, Inv, TypeOK, ResetIsTcp, TableOK
<1>5. ASSUME NEW m \in msg_out_buf'
      PROVE  \/ m \in msg_out_buf /\ m.sockfd \notin dead
             \/ \E s \in udp :
                  /\ m = Queued(s) /\ m \in OutMsg
                  /\ m.sockfd = s.sockfd /\ m.type = s.type
                  /\ s \in r.sends
                  /\ s.sockfd \in DOMAIN cl \ dead
                  /\ cl[s.sockfd].protocol = "e_udp"
  <2>1. CASE m \in kept
    BY <2>1 DEF delete_client
  <2>2. CASE \E s \in udp : m = Queued(s)
    <3>1. PICK s \in udp : m = Queued(s)
      BY <2>2
    <3>2. s.sockfd \in DOMAIN cl /\ s.sockfd \in Fd /\ s.type \in OutType
      BY DEF ResultOK, Send, TableOK, Inv, TypeOK
    <3> QED
      BY <1>1, <1>4, <3>1, <3>2, QueuedType
  <2> QED
    BY <1>1, <2>1, <2>2
<1>6. TypeOK'
  <2>1. DOMAIN clients' \subseteq Fd /\ clients' \in [DOMAIN clients' -> Client]
    BY <1>1, <1>2, <1>3 DEF Inv, TypeOK, TableOK, Restrict
  <2>2. (msg_out_buf \subseteq OutMsg)'
    BY <1>5 DEF Inv, TypeOK
  <2>3. (leaked \subseteq Fd)' /\ (stale \subseteq Fd)' /\ (reset \subseteq DOMAIN clients)'
    BY <1>1, <1>2, <1>4 DEF Inv, TypeOK, TableOK
  <2>4. (clnt_dstr \subseteq DOMAIN clients)'
    <3> SUFFICES ASSUME NEW g \in clnt_dstr'
                 PROVE  g \in DOMAIN clients'
      OBVIOUS
    <3>1. g \in DOMAIN clients /\ clients[g].protocol = "e_udp"
      BY DEF Inv, TypeOK, SweepOnlyUnresponsive, PendingOwner
    <3> QED
      BY <1>2, <1>4, <3>1 DEF TableOK
  <2> QED
    BY <2>1, <2>2, <2>3, <2>4 DEF Inv, TypeOK
<1>7. PendingOwner'
  <2> SUFFICES ASSUME NEW m \in msg_out_buf'
               PROVE  IF m.sockfd \in DOMAIN clients'
                      THEN clients'[m.sockfd].protocol = "e_udp"
                      ELSE m.type = "e_err" /\ m.sockfd \in leaked' \cup {Welcome}
    BY DEF PendingOwner
  <2>1. CASE m \in msg_out_buf /\ m.sockfd \notin dead
    BY <1>1, <1>2, <1>3, <1>4, <2>1, WelcomeAssumption
    DEF Inv, PendingOwner, TableOK, LeakedIsNoClient
  <2>2. CASE \E s \in udp : /\ m.sockfd = s.sockfd
                            /\ s.sockfd \in DOMAIN cl \ dead
                            /\ cl[s.sockfd].protocol = "e_udp"
    BY <1>2, <1>3, <2>2 DEF TableOK
  <2> QED
    BY <1>5, <2>1, <2>2
<1>8. ByeEndsSession'
  <2>1. ASSUME NEW m \in msg_out_buf', m.type = "e_bye"
        PROVE  \/ /\ m \in msg_out_buf
                  /\ m.sockfd \in DOMAIN clients \ dead
                  /\ clients[m.sockfd].state = "s_en"
               \/ /\ \E s \in r.sends : m = Queued(s) /\ s = [sockfd |-> f, type |-> "e_bye"]
                  /\ m.sockfd = f /\ f \in DOMAIN cl \ dead
                  /\ cl[f].state # "s_en" /\ r.state = "s_en"
    BY <1>5, <2>1 DEF Inv, ByeEndsSession, ResultOK, Send
  <2>2. ASSUME NEW m \in msg_out_buf', m.type = "e_bye"
        PROVE  m.sockfd \in DOMAIN clients' /\ clients'[m.sockfd].state = "s_en"
    BY <1>2, <1>3, <2>1, <2>2 DEF TableOK, ResultOK
  <2>3. ASSUME NEW m \in msg_out_buf', m.type = "e_bye",
               NEW n \in msg_out_buf', n.type = "e_bye", n.sockfd = m.sockfd
        PROVE  n = m
    BY <2>1, <2>3 DEF Inv, ByeEndsSession, TableOK
  <2> QED
    BY <2>2, <2>3 DEF ByeEndsSession
<1>9. JoinedIffAuthorized' /\ StopSilencesSessions' /\ TcpNotEnded(clients)'
  <2>1. ASSUME NEW g \in DOMAIN clients'
        PROVE  \/ /\ g \in DOMAIN clients /\ clients'[g].state = clients[g].state
                  /\ clients'[g].channel_id = clients[g].channel_id
                  /\ clients'[g].protocol = clients[g].protocol
               \/ /\ clients'[g].state = r.state
                  /\ clients'[g].channel_id = r.channel_id
                  /\ clients'[g].protocol = "e_tcp" => r.state # "s_en"
    BY <1>2, <1>3 DEF TableOK
  <2>2. JoinedIffAuthorized'
    BY <2>1 DEF Inv, ResultOK, JoinedIffAuthorized
  <2>3. StopSilencesSessions'
    BY <2>1 DEF Inv, ResultOK, StopSilencesSessions
  <2>4. TcpNotEnded(clients)'
    BY <2>1 DEF Inv, ResultOK, TcpNotEnded
  <2> QED
    BY <2>2, <2>3, <2>4
<1>10. SweepOnlyUnresponsive'
  <2> SUFFICES ASSUME NEW g \in clnt_dstr'
               PROVE  \E m \in msg_out_buf' :
                        m.sockfd = g /\ m.retry_count = udp_retransmissions
    BY DEF SweepOnlyUnresponsive
  <2>1. PICK m \in msg_out_buf :
               m.sockfd = g /\ m.retry_count = udp_retransmissions
    BY DEF Inv, SweepOnlyUnresponsive
  <2>2. g \in DOMAIN clients /\ clients[g].protocol = "e_udp"
    BY <2>1 DEF Inv, TypeOK, PendingOwner
  <2>3. g \notin dead
    BY <1>4, <2>2 DEF TableOK
  <2>4. m \in kept
    BY <2>1, <2>3 DEF delete_client
  <2> QED
    BY <1>1, <2>1, <2>4
<1>11. LeakedIsNoClient'
  <2>1. PICK lost \in SUBSET dead : stale' = stale \cup lost
    BY <1>1
  <2>2. (leaked \cup stale) \cap DOMAIN clients' = {}
    BY <1>2 DEF Inv, LeakedIsNoClient, TableOK
  <2>3. lost \cap DOMAIN clients' = {}
    BY <1>2
  <2> QED
    BY <2>1, <2>2, <2>3 DEF LeakedIsNoClient
<1>12. ResetIsTcp'
  <2> SUFFICES ASSUME NEW g \in reset'
               PROVE  clients'[g].protocol = "e_tcp"
    BY DEF ResetIsTcp
  <2>1. g \in DOMAIN clients /\ g \notin dead /\ clients[g].protocol = "e_tcp"
    BY <1>1 DEF Inv, TypeOK, ResetIsTcp
  <2> QED
    BY <1>2, <1>3, <2>1 DEF TableOK
<1> QED
  BY <1>6, <1>7, <1>8, <1>9, <1>10, <1>11, <1>12 DEF Inv

(* What no step may do to the client records. *)
KeepsEnds ==
  \A g \in DOMAIN clients \cap DOMAIN clients' :
    clients[g].state = "s_en" => clients'[g].state = "s_en"

DropsOnlyEnded ==
  \A g \in DOMAIN clients \ DOMAIN clients' :
    clients[g].protocol = "e_udp" => clients[g].state = "s_en"

(* ... and what it does to the sessions. *)
SessionStep == Sessions!Next \/ UNCHANGED Sessions!svars

(* ... and to whom it sends: the steps ChatFromMember and MoveAnnounced    *)
(* allow.                                                                  *)
ChatHeard ==
  \A m \in msg_out_buf' \ msg_out_buf : m.type = "chat" /\ m.retry_count = 0
    => /\ clients[m.sockfd].state # "s_en"
       /\ \E f \in DOMAIN clients \ {m.sockfd} :
            /\ clients[f].state = "s_op"
            /\ clients[f].channel_id = clients[m.sockfd].channel_id

Gets(g, type) ==
  \E m \in msg_out_buf' \ msg_out_buf : m.sockfd = g /\ m.type = type

MoveHeard ==
  \A f, g \in DOMAIN clients \cap DOMAIN clients' :
    LET old == clients[f].channel_id
        new == clients'[f].channel_id
    IN  f # g /\ old # new /\ clients[g].protocol = "e_udp"
          /\ clients[g].state # "s_en"
        => /\ clients[g].channel_id = old /\ old # NoChannel => Gets(g, "left")
           /\ clients[g].channel_id = new => Gets(g, "joined")

StepOK == KeepsEnds /\ DropsOnlyEnded /\ SessionStep /\ ChatHeard /\ MoveHeard

(* A step that moves nobody to another channel has nobody to tell. *)
LEMMA NobodyMoves ==
  ASSUME \A f \in DOMAIN clients \cap DOMAIN clients' :
           clients'[f].channel_id = clients[f].channel_id
  PROVE  MoveHeard
BY DEF MoveHeard

(* A step that buffers no chat message says nothing. *)
LEMMA NobodyTalks ==
  ASSUME \A m \in msg_out_buf' : m \in msg_out_buf \/ m.type # "chat"
  PROVE  ChatHeard
BY DEF ChatHeard

NoSession == [protocol |-> "none", phase |-> "free"]

(* The session of a descriptor, by whether a client has it. *)
LEMMA SessionIs ==
  /\ \A f : f \notin DOMAIN clients => SessionOf(f) = NoSession
  /\ \A f \in DOMAIN clients :
       SessionOf(f) = Sessions!In(clients[f].protocol, PhaseOf[clients[f].state])
BY DEF SessionOf, NoSession, Sessions!In

(* ... and after the step. *)
LEMMA SessionIsNext ==
  /\ \A f : f \notin DOMAIN clients' => SessionOf(f)' = NoSession
  /\ \A f \in DOMAIN clients' :
       SessionOf(f)' = Sessions!In(clients'[f].protocol, PhaseOf[clients'[f].state])
BY DEF SessionOf, NoSession, Sessions!In

(* A step that leaves protocol and state of every client alone is none of  *)
(* Session.                                                                *)
LEMMA SameSessions ==
  ASSUME UNCHANGED stop_flag, DOMAIN clients' = DOMAIN clients,
         \A f \in DOMAIN clients : /\ clients'[f].protocol = clients[f].protocol
                                   /\ clients'[f].state = clients[f].state
  PROVE  SessionStep
<1>1. \A f \in Fd : SessionOf(f)' = SessionOf(f)
  BY DEF SessionOf
<1> QED
  BY <1>1 DEF SessionStep, Sessions!svars

(* A step that moves the session of f and takes it from some TCP clients   *)
(* is a move of Session.                                                   *)
LEMMA MoveStep ==
  ASSUME NEW f \in Fd, NEW s, NEW lost, UNCHANGED stop_flag,
         SessionOf(f)' = s,
         \A g \in Fd \ {f} :
           SessionOf(g)' = IF g \in lost THEN NoSession ELSE SessionOf(g)
  PROVE  Sessions!Move(f, s, lost)
<1>1. [g \in Fd |-> SessionOf(g)]' =
        [g \in Fd |-> IF g = f THEN s ELSE IF g \in lost THEN NoSession
                      ELSE SessionOf(g)]
  OBVIOUS
<1> QED
  BY <1>1 DEF Sessions!Move, Sessions!Free, NoSession

(* A handler neither reopens an ended session nor drops a UDP client (a    *)
(* send fails on TCP only, and only TCP clients are deleted at the end of  *)
(* process_msg), it moves one session, its own client's, and whatever it   *)
(* sends over UDP is buffered.                                             *)
LEMMA FinishStep ==
  ASSUME Inv, NEW cl, NEW f, NEW r, TableOK(cl, f), ResultOK(cl, f, r),
         Finish(cl, f, r), UNCHANGED stop_flag
  PROVE  StepOK
<1> DEFINE dead  == Failing(r.sends) \cup
                      {g \in {f} : cl[g].protocol = "e_tcp" /\ r.state = "s_en"}
           after == [cl EXCEPT ![f] = Updated(cl[f], r)]
           lost  == dead \ {f}
           udp   == {s \in r.sends : cl[s.sockfd].protocol = "e_udp"}
<1>1. clients' = Restrict(after, DOMAIN cl \ dead)
  BY DEF Finish
<1>2. /\ DOMAIN clients' = (DOMAIN clients \cup {f}) \ dead
      /\ \A g \in DOMAIN clients' : clients'[g] = after[g]
  BY <1>1 DEF Restrict, TableOK
<1>3. /\ \A g \in DOMAIN clients \ {f} : after[g] = cl[g]
      /\ after[f].state = r.state
      /\ after[f].channel_id = r.channel_id
      /\ after[f].protocol = cl[f].protocol
  BY DEF TableOK, Updated
<1> HIDE DEF after
<1>4. /\ \A g \in dead : cl[g].protocol = "e_tcp"
      /\ dead \subseteq DOMAIN clients \cup {f}
      /\ cl[f].protocol = "e_tcp" /\ r.state = "s_en" => f \in dead
  BY DEF Failing, Inv, TypeOK, ResetIsTcp, TableOK
<1> HIDE DEF dead
<1>5. KeepsEnds
  BY <1>2, <1>3 DEF KeepsEnds, TableOK, ResultOK
<1>6. DropsOnlyEnded
  BY <1>2, <1>4 DEF DropsOnlyEnded, TableOK
<1>7. lost \in SUBSET Sessions!Tcp
  <2>1. ASSUME NEW g \in lost
        PROVE  g \in Fd /\ SessionOf(g).protocol = "e_tcp"
    <3>1. g \in DOMAIN clients /\ g \in Fd /\ clients[g].protocol = "e_tcp"
      BY <1>4 DEF TableOK, Inv, TypeOK
    <3> QED
      BY <3>1, SessionIs DEF Sessions!In
  <2> QED
    BY <2>1 DEF Sessions!Tcp
<1>8. ASSUME NEW g \in Fd \ {f}
      PROVE  SessionOf(g)' = IF g \in lost THEN NoSession ELSE SessionOf(g)
  <2>1. CASE g \in DOMAIN clients'
    <3>1. /\ g \in DOMAIN clients /\ g \notin lost
          /\ clients'[g].state = clients[g].state
          /\ clients'[g].protocol = clients[g].protocol
      BY <1>2, <1>3, <2>1 DEF TableOK
    <3> QED
      BY <2>1, <3>1, SessionIs, SessionIsNext
  <2>2. CASE g \notin DOMAIN clients'
    BY <1>2, <2>2, SessionIs, SessionIsNext
  <2> QED
    BY <2>1, <2>2
<1>9. ASSUME NEW s, SessionOf(f)' = s
      PROVE  Sessions!Move(f, s, lost)
  BY <1>8, <1>9, MoveStep DEF TableOK
<1>10. SessionStep
  <2> USE DEF PhaseOf
  <2>1. f \in Fd /\ r.state \in State /\ cl[f] \in Client
    BY DEF TableOK, ResultOK
  <2>2. CASE f \notin DOMAIN clients
    <3>1. /\ SessionOf(f) = Sessions!Free
          /\ SessionOf(f)' = Sessions!In("e_udp", PhaseOf[r.state])
      BY <1>2, <1>3, <1>4, <2>2, SessionIs, SessionIsNext
      DEF TableOK, NoSession, Sessions!Free
    <3>2. PhaseOf[r.state] \in Sessions!Phase /\ Sessions!MayOpen(PhaseOf[r.state])
      BY <2>1 DEF State, ResultOK, Sessions!Phase, Sessions!MayOpen
    <3>3. Sessions!Arrive(f, PhaseOf[r.state], lost)
      BY <1>9, <2>1, <3>1, <3>2 DEF Sessions!Arrive
    <3> QED
      BY <1>7, <2>1, <3>2, <3>3 DEF SessionStep, Sessions!Next
  <2>3. CASE f \in DOMAIN clients
    <3>1. /\ SessionOf(f) = Sessions!In(clients[f].protocol, PhaseOf[clients[f].state])
          /\ cl[f].protocol = clients[f].protocol
          /\ cl[f].state = clients[f].state
          /\ clients[f].protocol \in {"e_tcp", "e_udp"}
          /\ clients[f].state \in State
          /\ clients[f].protocol = "e_tcp" => clients[f].state # "s_en"
      BY <2>1, <2>3, SessionIs DEF TableOK, Client, Inv, TcpNotEnded
    <3>2. CASE f \in dead
      <4>1. /\ clients[f].protocol = "e_tcp"
            /\ SessionOf(f)' = Sessions!Closed(clients[f].protocol)
        BY <1>2, <1>4, <3>1, <3>2, SessionIsNext
        DEF Sessions!Closed, Sessions!Free, NoSession
      <4>2. Sessions!Close(f, lost)
        BY <1>9, <2>1, <3>1, <4>1 DEF Sessions!Close, Sessions!Active, Sessions!In, State
      <4> QED
        BY <1>7, <2>1, <4>2 DEF SessionStep, Sessions!Next
    <3>3. CASE f \notin dead /\ r.state = clients[f].state
      <4>1. SessionOf(f)' = SessionOf(f) /\ SessionOf(f) # Sessions!Free
        BY <1>2, <1>3, <3>1, <3>3, SessionIsNext DEF Sessions!In, Sessions!Free
      <4>2. Sessions!Speak(f, lost)
        BY <1>9, <2>1, <4>1 DEF Sessions!Speak
      <4> QED
        BY <1>7, <2>1, <4>2 DEF SessionStep, Sessions!Next
    <3>4. CASE f \notin dead /\ r.state # clients[f].state /\ r.state = "s_op"
      <4>1. clients[f].state = "s_ac" /\ ~stop_flag
        BY <3>1, <3>4 DEF ResultOK, State
      <4>2. SessionOf(f)' = Sessions!In(clients[f].protocol, "open")
        BY <1>2, <1>3, <3>1, <3>4, SessionIsNext
      <4>3. Sessions!Authorize(f, lost)
        BY <1>9, <2>1, <3>1, <4>1, <4>2
        DEF Sessions!Authorize, Sessions!MayOpen, Sessions!In
      <4> QED
        BY <1>7, <2>1, <4>3 DEF SessionStep, Sessions!Next
    <3>5. CASE f \notin dead /\ r.state # clients[f].state /\ r.state = "s_en"
      <4>1. clients[f].protocol = "e_udp"
        BY <1>4, <3>1, <3>5
      <4>2. SessionOf(f)' = Sessions!Closed(clients[f].protocol)
        BY <1>2, <1>3, <3>1, <3>5, <4>1, SessionIsNext DEF Sessions!Closed
      <4>3. Sessions!Close(f, lost)
        BY <1>9, <2>1, <3>1, <3>5, <4>2
        DEF Sessions!Close, Sessions!Active, Sessions!In, State
      <4> QED
        BY <1>7, <2>1, <4>3 DEF SessionStep, Sessions!Next
    <3>6. r.state = "s_ac" => clients[f].state = "s_ac"
      BY <3>1 DEF ResultOK
    <3> QED
      BY <2>1, <3>2, <3>3, <3>4, <3>5, <3>6 DEF State
  <2> QED
    BY <2>2, <2>3
<1>11. /\ \A s \in udp : FreeIds(s) # {}
       /\ msg_out_buf' = delete_client(msg_out_buf \ r.confirmed, dead)
                           \cup {Queued(s) : s \in udp}
  BY DEF Finish, send_msg, dead
<1>12. ASSUME NEW s \in udp
       PROVE  /\ Queued(s) \in msg_out_buf' \ msg_out_buf
              /\ Queued(s).sockfd = s.sockfd /\ Queued(s).type = s.type
  <2>1. s.sockfd \in Fd /\ s.type \in OutType
    BY DEF ResultOK, Send, TableOK, Inv, TypeOK
  <2> QED
    BY <1>11, <2>1, QueuedType
<1>13. ChatHeard
  <2> SUFFICES ASSUME NEW m \in msg_out_buf' \ msg_out_buf, m.type = "chat"
               PROVE  /\ clients[m.sockfd].state # "s_en"
                      /\ \E g \in DOMAIN clients \ {m.sockfd} :
                           /\ clients[g].state = "s_op"
                           /\ clients[g].channel_id = clients[m.sockfd].channel_id
    BY DEF ChatHeard
  <2>1. PICK s \in udp : m = Queued(s)
    BY <1>11 DEF delete_client
  <2>2. m.sockfd = s.sockfd /\ s.type = "chat"
    BY <1>12, <2>1
  <2>3. cl[f].state = "s_op" /\ s.sockfd \in Recipients(cl, f, cl[f].channel_id)
    BY <2>2 DEF ResultOK, ChatsToMembers
  <2>4. f \in DOMAIN clients
    BY <2>3 DEF TableOK
  <2> QED
    BY <2>2, <2>3, <2>4 DEF TableOK, Recipients
<1>14. MoveHeard
  <2> SUFFICES ASSUME NEW h \in DOMAIN clients \cap DOMAIN clients',
                      NEW g \in DOMAIN clients \cap DOMAIN clients',
                      h # g, clients[h].channel_id # clients'[h].channel_id,
                      clients[g].protocol = "e_udp", clients[g].state # "s_en"
               PROVE  /\ clients[g].channel_id = clients[h].channel_id
                           /\ clients[h].channel_id # NoChannel => Gets(g, "left")
                      /\ clients[g].channel_id = clients'[h].channel_id
                           => Gets(g, "joined")
    BY DEF MoveHeard
  <2>1. h = f /\ clients'[h].channel_id = r.channel_id
    BY <1>2, <1>3 DEF TableOK
  <2>2. ASSUME NEW c, cl[g].channel_id = c
        PROVE  g \in Recipients(cl, f, c)
    BY <2>1, <2>2 DEF TableOK, Recipients
  <2>3. ASSUME NEW type, [sockfd |-> g, type |-> type] \in r.sends
        PROVE  Gets(g, type)
    <3>1. [sockfd |-> g, type |-> type] \in udp
      BY <2>3 DEF TableOK
    <3> QED
      BY <1>12, <3>1 DEF Gets
  <2>4. ASSUME NEW c, NEW type, cl[g].channel_id = c,
               To(Recipients(cl, f, c), type) \subseteq r.sends
        PROVE  Gets(g, type)
    <3>1. [sockfd |-> g, type |-> type] \in To(Recipients(cl, f, c), type)
      BY <2>2, <2>4 DEF To
    <3> QED
      BY <2>3, <2>4, <3>1
  <2>5. /\ cl[f].channel_id = clients[h].channel_id
        /\ cl[g].channel_id = clients[g].channel_id
    BY <2>1 DEF TableOK
  <2> QED
    BY <2>1, <2>4, <2>5 DEF ResultOK, MoveIsTold, notify_leave, notify_join
<1> QED
  BY <1>5, <1>6, <1>10, <1>13, <1>14 DEF StepOK

-----------------------------------------------------------------------------
(* The results of the handlers *)

(* A message forwarded to a channel goes to clients of the table and has   *)
(* the type it was given, which is not BYE (forward_msg_channel).          *)
LEMMA Notify ==
  ASSUME NEW cl, NEW f, NEW c, NEW type \in OutType \ {"e_bye"}
  PROVE  /\ To(Recipients(cl, f, c), type) \subseteq Send(cl)
         /\ \A s \in To(Recipients(cl, f, c), type) :
              s.type = type /\ s.type # "e_bye"
<1>1. Recipients(cl, f, c) \subseteq DOMAIN cl
  BY DEF Recipients
<1> QED
  BY <1>1, ToType, ToSends

(* An answer goes to the client that is answered. *)
LEMMA Answer ==
  ASSUME NEW cl, NEW f \in DOMAIN cl, NEW type \in OutType
  PROVE  /\ To({f}, type) \subseteq Send(cl)
         /\ \A s \in To({f}, type) : s.type = type /\ s.sockfd = f
<1>1. {f} \subseteq DOMAIN cl
  OBVIOUS
<1> QED
  BY <1>1, ToType, ToSends

(* The client whose input is handled is in the table, with a state and a   *)
(* channel that agree, open only while the server does not stop.           *)
LEMMA TableClient ==
  ASSUME Inv, NEW cl, NEW f, TableOK(cl, f)
  PROVE  /\ f \in DOMAIN cl
         /\ cl[f].state \in State
         /\ cl[f].channel_id \in Channel \cup {NoChannel}
         /\ cl[f].state = "s_ac" => cl[f].channel_id = NoChannel
         /\ cl[f].state = "s_op" => cl[f].channel_id # NoChannel
         /\ stop_flag => cl[f].state # "s_op"
<1>1. f \in DOMAIN cl /\ cl[f] \in Client
  BY DEF TableOK
<1>2. CASE f \in DOMAIN clients
  BY <1>1, <1>2 DEF Inv, TableOK, JoinedIffAuthorized, StopSilencesSessions, Client
<1>3. CASE f \notin DOMAIN clients
  BY <1>1, <1>3 DEF TableOK, Client
<1> QED
  BY <1>2, <1>3

(* close_client sends to its client alone, and only before the client      *)
(* ended.                                                                  *)
LEMMA CloseSends ==
  ASSUME NEW cl, NEW f \in DOMAIN cl
  PROVE  /\ close_client(cl, f) \subseteq Send(cl)
         /\ \A s \in close_client(cl, f) :
              s.sockfd = f /\ s.type = "e_bye" /\ cl[f].state # "s_en"
<1>1. /\ To({f}, "e_bye") \subseteq Send(cl)
      /\ \A s \in To({f}, "e_bye") : s.sockfd = f /\ s.type = "e_bye"
  BY Answer, SentTypes
<1>2. CASE cl[f].state # "s_en"
  BY <1>1, <1>2 DEF close_client
<1>3. CASE cl[f].state = "s_en"
  BY <1>3 DEF close_client
<1> QED
  BY <1>2, <1>3

(* Dropping a message is a proper result (process_msg). *)
LEMMA UnchangedResult ==
  ASSUME Inv, NEW cl, NEW f, TableOK(cl, f)
  PROVE  ResultOK(cl, f, Unchanged(cl[f]))
BY TableClient DEF ResultOK, ChatsToMembers, MoveIsTold, Unchanged, Result

(* Answering with ERR, and ending the client or not. *)
LEMMA ErrorResult ==
  ASSUME Inv, NEW cl, NEW f, TableOK(cl, f), NEW state \in {cl[f].state, "s_en"}
  PROVE  ResultOK(cl, f, Result(state, cl[f].channel_id, To({f}, "e_err"), {}))
<1>1. To({f}, "e_err") \subseteq Send(cl)
      /\ \A s \in To({f}, "e_err") : s.type = "e_err"
  BY TableClient, Answer, SentTypes
<1> QED
  BY <1>1, TableClient DEF ResultOK, ChatsToMembers, MoveIsTold, Result, State

(* Executing CONFIRM is, whichever buffered message it refers to. *)
LEMMA ConfirmResult ==
  ASSUME Inv, NEW cl, NEW f, TableOK(cl, f), NEW ref
  PROVE  ResultOK(cl, f, execute_confirm(cl, f, ref))
BY TableClient, CloseSends
DEF ResultOK, ChatsToMembers, MoveIsTold, Result, execute_confirm, State

(* Executing AUTH is: an open session has a channel. *)
LEMMA AuthResult ==
  ASSUME Inv, NEW cl, NEW f, TableOK(cl, f), ~stop_flag, cl[f].state # "s_en"
  PROVE  ResultOK(cl, f, execute_auth(cl, f))
<1>1. To({f}, "e_reply") \subseteq Send(cl)
      /\ \A s \in To({f}, "e_reply") : s.type = "e_reply"
  BY TableClient, Answer, SentTypes
<1>2. notify_join(cl, f, Default) \subseteq Send(cl)
      /\ \A s \in notify_join(cl, f, Default) : s.type = "joined"
  BY Notify, SentTypes DEF notify_join
<1> QED
  BY <1>1, <1>2, TableClient, ChannelAssumption
  DEF ResultOK, ChatsToMembers, MoveIsTold, Result, execute_auth, State

(* Executing JOIN is. *)
LEMMA JoinResult ==
  ASSUME Inv, NEW cl, NEW f, TableOK(cl, f), ~stop_flag, cl[f].state # "s_en",
         NEW c \in Channel
  PROVE  ResultOK(cl, f, execute_join(cl, f, c))
<1>1. To({f}, "e_reply") \subseteq Send(cl)
      /\ \A s \in To({f}, "e_reply") : s.type = "e_reply"
  BY TableClient, Answer, SentTypes
<1>2. notify_join(cl, f, c) \subseteq Send(cl)
      /\ \A s \in notify_join(cl, f, c) : s.type = "joined"
  BY Notify, SentTypes DEF notify_join
<1>3. notify_leave(cl, f, cl[f].channel_id) \subseteq Send(cl)
      /\ \A s \in notify_leave(cl, f, cl[f].channel_id) : s.type = "left"
  BY Notify, SentTypes DEF notify_leave
<1> QED
  BY <1>1, <1>2, <1>3, ChannelAssumption
  DEF ResultOK, ChatsToMembers, MoveIsTold, Result, execute_join, State

(* Executing MSG is. *)
LEMMA ChatResult ==
  ASSUME Inv, NEW cl, NEW f, TableOK(cl, f), ~stop_flag, cl[f].state = "s_op"
  PROVE  ResultOK(cl, f, execute_chat(cl, f))
<1>1. To(Recipients(cl, f, cl[f].channel_id), "chat") \subseteq Send(cl)
      /\ \A s \in To(Recipients(cl, f, cl[f].channel_id), "chat") :
           s.type # "e_bye" /\ s.sockfd \in Recipients(cl, f, cl[f].channel_id)
  BY Notify, ToSends, SentTypes
<1> QED
  BY <1>1, TableClient
  DEF ResultOK, ChatsToMembers, MoveIsTold, Result, execute_chat, State

(* Executing BYE is, in every state of the client. *)
LEMMA ByeResult ==
  ASSUME Inv, NEW cl, NEW f, TableOK(cl, f)
  PROVE  ResultOK(cl, f, execute_bye(cl, f))
<1>1. To({f}, "e_err") \subseteq Send(cl)
      /\ \A s \in To({f}, "e_err") : s.type = "e_err"
  BY TableClient, Answer, SentTypes
<1>2. notify_leave(cl, f, cl[f].channel_id) \subseteq Send(cl)
      /\ \A s \in notify_leave(cl, f, cl[f].channel_id) : s.type = "left"
  BY Notify, SentTypes DEF notify_leave
<1> QED
  BY <1>1, <1>2, TableClient
  DEF ResultOK, ChatsToMembers, MoveIsTold, Result, execute_bye, State

(* Hence processing any message is (process_msg with execute_msg). *)
LEMMA ProcessResult ==
  ASSUME Inv, NEW cl, NEW f, TableOK(cl, f), NEW msg \in UdpMsg
  PROVE  ResultOK(cl, f, process_msg(cl, f, msg))
<1>1. CASE Dropped(cl[f], msg)
  BY <1>1, UnchangedResult DEF process_msg
<1>2. CASE ~Dropped(cl[f], msg) /\ ~check_state_transition(cl[f], msg)
  BY <1>2, ErrorResult DEF process_msg
<1>3. CASE ~Dropped(cl[f], msg) /\ check_state_transition(cl[f], msg)
  <2>1. process_msg(cl, f, msg) = execute_msg(cl, f, msg)
    BY <1>3 DEF process_msg
  <2>2. CASE msg.type = "e_confirm"
    BY <2>1, <2>2, ConfirmResult DEF execute_msg
  <2>3. CASE msg.type = "e_reply"
    BY <2>1, <2>3, ErrorResult DEF execute_msg, execute_reply
  <2>4. CASE msg.type = "e_bye"
    BY <2>1, <2>4, ByeResult DEF execute_msg
  <2>5. CASE msg.type = "e_err"
    BY <2>1, <2>5, UnchangedResult DEF execute_msg
  <2>6. CASE msg.type \in {"e_auth", "e_join", "e_msg"}
    <3>1. ~stop_flag /\ cl[f].state # "s_en"
      BY <1>3, <2>6 DEF Dropped
    <3>2. CASE msg.type = "e_auth"
      BY <2>1, <3>1, <3>2, AuthResult DEF execute_msg
    <3>3. CASE msg.type = "e_join"
      <4>1. msg.channel_id \in Channel
        BY <3>3 DEF UdpMsg, TcpMsg, Plain, Join, Confirm
      <4> QED
        BY <2>1, <3>1, <3>3, <4>1, JoinResult DEF execute_msg
    <3>4. CASE msg.type = "e_msg"
      <4>1. cl[f].state = "s_op"
        BY <1>3, <3>1, <3>4, TableClient DEF check_state_transition, State
      <4> QED
        BY <2>1, <3>1, <3>4, <4>1, ChatResult DEF execute_msg
    <3> QED
      BY <2>6, <3>2, <3>3, <3>4
  <2>7. msg.type \in {"e_confirm", "e_reply", "e_bye", "e_err", "e_auth", "e_join", "e_msg"}
    BY DEF UdpMsg, TcpMsg, Plain, Join, Confirm
  <2> QED
    BY <2>2, <2>3, <2>4, <2>5, <2>6, <2>7
<1> QED
  BY <1>1, <1>2, <1>3

(* Saying goodbye, and telling the channel or not. *)
LEMMA CloseResult ==
  ASSUME Inv, NEW cl, NEW f, TableOK(cl, f),
         NEW told \in {{}, notify_leave(cl, f, cl[f].channel_id)}
  PROVE  ResultOK(cl, f, Result("s_en", cl[f].channel_id,
                                close_client(cl, f) \cup told, {}))
<1>1. /\ told \subseteq Send(cl)
      /\ \A s \in told : s.type = "left"
  BY Notify, SentTypes DEF notify_leave
<1> QED
  BY <1>1, CloseSends, TableClient DEF ResultOK, ChatsToMembers, MoveIsTold, Result, State

-----------------------------------------------------------------------------
(* The client tables the handlers work on *)

(* The table as it is. *)
LEMMA TableAsIs ==
  ASSUME Inv, NEW f \in DOMAIN clients
  PROVE  TableOK(clients, f)
BY DEF Inv, TypeOK, TableOK

(* The table after a datagram from address a (read_msg). *)
LEMMA TableMoved ==
  ASSUME Inv, NEW f \in DOMAIN clients, NEW a \in Addr
  PROVE  /\ TableOK(From(f, a), f)
         /\ From(f, a)[f].state = clients[f].state
         /\ From(f, a)[f].channel_id = clients[f].channel_id
<1>1. clients[f] \in Client
  BY DEF Inv, TypeOK
<1>2. /\ [clients[f] EXCEPT !.addr = a] \in Client
      /\ [clients[f] EXCEPT !.addr = a].state = clients[f].state
      /\ [clients[f] EXCEPT !.addr = a].channel_id = clients[f].channel_id
      /\ [clients[f] EXCEPT !.addr = a].protocol = clients[f].protocol
  BY <1>1 DEF Client
<1> QED
  BY <1>1, <1>2 DEF Inv, TypeOK, TableOK, From

(* The table with a client added on a free descriptor (udp_polling). *)
LEMMA TableAdded ==
  ASSUME Inv, NEW f \in FreeFd, NEW a \in Addr
  PROVE  TableOK(AddClient(f, NewClient("e_udp", a)), f)
<1>1. /\ NewClient("e_udp", a) \in Client
      /\ NewClient("e_udp", a).protocol = "e_udp"
      /\ NewClient("e_udp", a).state = "s_ac"
      /\ NewClient("e_udp", a).channel_id = NoChannel
  BY DEF NewClient, Client, State
<1> QED
  BY <1>1 DEF Inv, TypeOK, TableOK, AddClient, FreeFd

-----------------------------------------------------------------------------
(* Every step keeps the invariant *)

(* A handler that processes one input of client f. *)
LEMMA HandlerInv ==
  ASSUME Inv, Ready, NEW cl, NEW f, NEW r, TableOK(cl, f), ResultOK(cl, f, r),
         Finish(cl, f, r),
         UNCHANGED <<leaked, stop_flag, stop_timeout, clnt_dstr, status>>
  PROVE  Inv' /\ StepOK
BY FinishInv, FinishStep DEF Ready

(* The first datagram of a new client keeps the invariant. *)
LEMMA UdpPollingInv ==
  ASSUME Inv, NEW f \in Fd, NEW a \in Addr, NEW msg \in UdpMsg,
         udp_polling(f, a, msg)
  PROVE  Inv' /\ StepOK
<1> DEFINE cl == AddClient(f, NewClient("e_udp", a))
<1>1. TableOK(cl, f)
  BY TableAdded DEF udp_polling
<1>2. ResultOK(cl, f, process_msg(cl, f, msg))
  BY <1>1, ProcessResult
<1> HIDE DEF cl
<1> QED
  BY <1>1, <1>2, HandlerInv DEF udp_polling, cl

(* A datagram on the socket of a client does. *)
LEMMA ProcessUdpInv ==
  ASSUME Inv, NEW f \in Fd, NEW a \in Addr, NEW msg \in UdpMsg,
         process_msg_sock_udp(f, a, msg)
  PROVE  Inv' /\ StepOK
<1>1. TableOK(From(f, a), f)
  BY TableMoved DEF process_msg_sock_udp, Readable
<1>2. ResultOK(From(f, a), f, process_msg(From(f, a), f, msg))
  BY <1>1, ProcessResult
<1> QED
  BY <1>1, <1>2, HandlerInv DEF process_msg_sock_udp, Readable

(* A message on a TCP connection does. *)
LEMMA ProcessTcpInv ==
  ASSUME Inv, NEW f \in Fd, NEW msg \in TcpMsg, process_msg_sock_tcp(f, msg)
  PROVE  Inv' /\ StepOK
<1>1. TableOK(clients, f)
  BY TableAsIs DEF process_msg_sock_tcp, Readable
<1>2. ResultOK(clients, f, process_msg(clients, f, msg))
  BY <1>1, ProcessResult DEF UdpMsg
<1> QED
  BY <1>1, <1>2, HandlerInv DEF process_msg_sock_tcp, Readable

(* A datagram seen before does. *)
LEMMA DuplicateInv ==
  ASSUME Inv, NEW f \in Fd, NEW a \in Addr, process_msg_sock_duplicate(f, a)
  PROVE  Inv' /\ StepOK
<1>1. /\ TableOK(From(f, a), f)
      /\ Unchanged(From(f, a)[f]) = Unchanged(clients[f])
  BY TableMoved DEF process_msg_sock_duplicate, Readable, Unchanged
<1>2. ResultOK(From(f, a), f, Unchanged(clients[f]))
  BY <1>1, UnchangedResult
<1> QED
  BY <1>1, <1>2, HandlerInv DEF process_msg_sock_duplicate, Readable

(* A datagram parse() rejects does. *)
LEMMA MalformedUdpInv ==
  ASSUME Inv, NEW f \in Fd, NEW a \in Addr, read_msg_malformed_udp(f, a)
  PROVE  Inv' /\ StepOK
<1>1. /\ TableOK(From(f, a), f)
      /\ Malformed(From(f, a)[f], f) = Malformed(clients[f], f)
  BY TableMoved DEF read_msg_malformed_udp, Readable, Malformed
<1>2. ResultOK(From(f, a), f, Malformed(clients[f], f))
  BY <1>1, ErrorResult DEF Malformed
<1> QED
  BY <1>1, <1>2, HandlerInv DEF read_msg_malformed_udp, Readable

(* TCP input parse() rejects does. *)
LEMMA MalformedTcpInv ==
  ASSUME Inv, NEW f \in Fd, read_msg_malformed_tcp(f)
  PROVE  Inv' /\ StepOK
<1>1. TableOK(clients, f)
  BY TableAsIs DEF read_msg_malformed_tcp, Readable
<1>2. ResultOK(clients, f, Malformed(clients[f], f))
  BY <1>1, ErrorResult DEF Malformed
<1> QED
  BY <1>1, <1>2, HandlerInv DEF read_msg_malformed_tcp, Readable

(* The end of a TCP connection without BYE does. *)
LEMMA FinInv ==
  ASSUME Inv, NEW f \in Fd, read_msg_fin(f)
  PROVE  Inv' /\ StepOK
<1> DEFINE r == Result("s_en", clients[f].channel_id, close_client(clients, f), {})
<1>1. TableOK(clients, f)
  BY TableAsIs DEF read_msg_fin, Readable
<1>2. close_client(clients, f) = close_client(clients, f) \cup {}
  OBVIOUS
<1>3. ResultOK(clients, f, r)
  BY <1>1, <1>2, CloseResult
<1> HIDE DEF r
<1> QED
  BY <1>1, <1>3, HandlerInv DEF read_msg_fin, Readable, r

(* Closing a silent client does (second half of udp_timeout). *)
LEMMA SweepCloseInv ==
  ASSUME Inv, NEW f \in Fd, udp_timeout_close(f)
  PROVE  Inv' /\ StepOK
<1> DEFINE r == Result("s_en", clients[f].channel_id,
                       close_client(clients, f) \cup
                         notify_leave(clients, f, clients[f].channel_id), {})
<1>1. TableOK(clients, f)
  BY TableAsIs DEF udp_timeout_close, Inv, TypeOK
<1>2. ResultOK(clients, f, r)
  BY <1>1, CloseResult
<1>3. r.confirmed = {}
  BY DEF Result
<1>4. Finish(clients, f, r)
  BY DEF udp_timeout_close
<1> HIDE DEF r
<1> QED
  BY <1>1, <1>2, <1>3, <1>4, FinishInv, FinishStep DEF udp_timeout_close

(* Deleting a client that was silent after its end does: its messages go   *)
(* with it, so none is left on a closed descriptor.                        *)
LEMMA SweepDeleteInv ==
  ASSUME Inv, NEW f \in Fd, udp_timeout_delete(f)
  PROVE  Inv' /\ StepOK
<1>1. /\ f \in clnt_dstr /\ f \in DOMAIN clients
      /\ clients' = Restrict(clients, DOMAIN clients \ {f})
      /\ msg_out_buf' = {m \in msg_out_buf : m.sockfd \notin {f}}
      /\ \E lost \in SUBSET {f} : stale' = stale \cup lost
      /\ reset' = reset \ {f}
      /\ clnt_dstr' = clnt_dstr \ {f}
      /\ UNCHANGED <<leaked, stop_flag, stop_timeout, status>>
  BY DEF udp_timeout_delete, delete_client, del_poll_fd, Inv, TypeOK
<1>2. /\ DOMAIN clients' = DOMAIN clients \ {f}
      /\ \A g \in DOMAIN clients' : clients'[g] = clients[g]
  BY <1>1 DEF Restrict
<1>3. TypeOK'
  BY <1>1, <1>2 DEF Inv, TypeOK, Restrict
<1>4. PendingOwner' /\ ByeEndsSession'
  <2>1. leaked \subseteq leaked'
    BY <1>1
  <2>2. PendingOwner'
    BY <1>1, <1>2, <2>1 DEF Inv, PendingOwner
  <2>3. ByeEndsSession'
    BY <1>1, <1>2 DEF Inv, ByeEndsSession
  <2> QED
    BY <2>2, <2>3
<1>5. JoinedIffAuthorized' /\ StopSilencesSessions' /\ TcpNotEnded(clients)'
  BY <1>1, <1>2 DEF Inv, JoinedIffAuthorized, StopSilencesSessions, TcpNotEnded
<1>6. SweepOnlyUnresponsive'
  BY <1>1 DEF Inv, SweepOnlyUnresponsive
<1>7. LeakedIsNoClient' /\ ResetIsTcp'
  BY <1>1, <1>2 DEF Inv, TypeOK, LeakedIsNoClient, ResetIsTcp
<1>8. SessionStep
  <2>1. SessionOf(f).phase = "ended"
    BY <1>1, SessionIs DEF udp_timeout_delete, PhaseOf, Sessions!In
  <2>2. \A g \in Fd \ {f} :
          SessionOf(g)' = IF g \in {} THEN NoSession ELSE SessionOf(g)
    BY <1>2, SessionIs, SessionIsNext
  <2>3. SessionOf(f)' = Sessions!Free
    BY <1>2, SessionIsNext DEF NoSession, Sessions!Free
  <2>4. Sessions!Delete(f)
    BY <1>1, <2>1, <2>2, <2>3, MoveStep DEF Sessions!Delete
  <2> QED
    BY <2>4 DEF SessionStep, Sessions!Next
<1>9. StepOK
  <2>1. ChatHeard /\ MoveHeard
    BY <1>1, <1>2, NobodyTalks, NobodyMoves
  <2> QED
    BY <1>1, <1>2, <1>8, <2>1 DEF StepOK, KeepsEnds, DropsOnlyEnded, udp_timeout_delete
<1> QED
  BY <1>3, <1>4, <1>5, <1>6, <1>7, <1>9 DEF Inv

(* A new TCP connection does. *)
LEMMA TcpPollingInv ==
  ASSUME Inv, NEW f \in Fd, NEW a \in Addr, tcp_polling(f, a)
  PROVE  Inv' /\ StepOK
<1>1. /\ NewClient("e_tcp", a) \in Client
      /\ NewClient("e_tcp", a).protocol = "e_tcp"
      /\ NewClient("e_tcp", a).state = "s_ac"
      /\ NewClient("e_tcp", a).channel_id = NoChannel
  BY DEF NewClient, Client, State
<1>2. /\ DOMAIN clients' = DOMAIN clients \cup {f}
      /\ \A g \in DOMAIN clients : g # f => clients'[g] = clients[g]
      /\ clients'[f] = NewClient("e_tcp", a)
      /\ clients' \in [DOMAIN clients \cup {f} -> Client]
  BY <1>1 DEF tcp_polling, AddClient, Inv, TypeOK
<1>3. /\ f \notin DOMAIN clients /\ f \notin leaked \cup stale
      /\ UNCHANGED <<msg_out_buf, leaked, stale, reset, stop_flag, stop_timeout,
                     clnt_dstr, status>>
  BY DEF tcp_polling, FreeFd
<1>4. TypeOK'
  BY <1>2, <1>3 DEF Inv, TypeOK
<1>5. PendingOwner'
  BY <1>2, <1>3, WelcomeAssumption DEF Inv, PendingOwner
<1>6. ByeEndsSession'
  BY <1>2, <1>3 DEF Inv, ByeEndsSession
<1>7. JoinedIffAuthorized' /\ StopSilencesSessions' /\ TcpNotEnded(clients)'
  BY <1>1, <1>2, <1>3
  DEF Inv, JoinedIffAuthorized, StopSilencesSessions, TcpNotEnded
<1>8. SweepOnlyUnresponsive'
  BY <1>3 DEF Inv, SweepOnlyUnresponsive
<1>9. LeakedIsNoClient' /\ ResetIsTcp'
  BY <1>2, <1>3 DEF Inv, TypeOK, LeakedIsNoClient, ResetIsTcp
<1>10. SessionStep
  <2>1. SessionOf(f) = Sessions!Free
    BY <1>3, SessionIs DEF NoSession, Sessions!Free
  <2>2. \A g \in Fd \ {f} :
          SessionOf(g)' = IF g \in {} THEN NoSession ELSE SessionOf(g)
    BY <1>2, SessionIs, SessionIsNext
  <2>3. SessionOf(f)' = Sessions!In("e_tcp", "accepted")
    BY <1>1, <1>2, SessionIsNext DEF PhaseOf
  <2>4. Sessions!Accept(f)
    BY <1>3, <2>1, <2>2, <2>3, MoveStep DEF Sessions!Accept
  <2> QED
    BY <2>4 DEF SessionStep, Sessions!Next
<1>11. StepOK
  <2>1. ChatHeard /\ MoveHeard
    BY <1>2, <1>3, NobodyTalks, NobodyMoves
  <2> QED
    BY <1>2, <1>3, <1>10, <2>1 DEF StepOK, KeepsEnds, DropsOnlyEnded
<1> QED
  BY <1>4, <1>5, <1>6, <1>7, <1>8, <1>9, <1>11 DEF Inv

(* An ERR buffered on a socket that is no client's, which is the welcome   *)
(* socket or one that leaks.                                               *)
LEMMA StrayErrInv ==
  ASSUME Inv, NEW g \in Fd \cup {Welcome}, g \notin DOMAIN clients,
         send_msg(msg_out_buf, To({g}, "e_err")),
         leaked' \in {leaked, leaked \cup {g}}, leaked' \subseteq Fd,
         g \in leaked' \cup {Welcome},
         UNCHANGED <<clients, stale, reset, stop_flag, stop_timeout, clnt_dstr,
                     status>>
  PROVE  Inv' /\ StepOK
<1> DEFINE s == [sockfd |-> g, type |-> "e_err"]
<1>1. To({g}, "e_err") = {s}
  BY DEF To
<1>2. s.sockfd = g /\ s.type = "e_err" /\ s.type \in OutType
  BY DEF OutType
<1>3. FreeIds(s) # {} /\ msg_out_buf' = msg_out_buf \cup {Queued(s)}
  BY <1>1 DEF send_msg
<1>4. /\ Queued(s) \in OutMsg /\ Queued(s).sockfd = g
      /\ Queued(s).type = "e_err"
  BY <1>2, <1>3, QueuedType
<1> HIDE DEF s
<1>5. TypeOK'
  BY <1>3, <1>4 DEF Inv, TypeOK
<1>6. PendingOwner'
  BY <1>3, <1>4 DEF Inv, PendingOwner
<1>7. ByeEndsSession'
  BY <1>3, <1>4 DEF Inv, ByeEndsSession
<1>8. JoinedIffAuthorized' /\ StopSilencesSessions' /\ TcpNotEnded(clients)'
  BY DEF Inv, JoinedIffAuthorized, StopSilencesSessions, TcpNotEnded
<1>9. SweepOnlyUnresponsive'
  BY <1>3 DEF Inv, SweepOnlyUnresponsive
<1>10. LeakedIsNoClient' /\ ResetIsTcp'
  BY DEF Inv, LeakedIsNoClient, ResetIsTcp
<1>11. StepOK
  <2>1. ChatHeard
    BY <1>3, <1>4, NobodyTalks
  <2> QED
    BY <2>1, SameSessions, NobodyMoves DEF StepOK, KeepsEnds, DropsOnlyEnded
<1> QED
  BY <1>5, <1>6, <1>7, <1>8, <1>9, <1>10, <1>11 DEF Inv

(* A rejected datagram on the welcome socket does. *)
LEMMA WelcomeInv ==
  ASSUME Inv, udp_polling_malformed
  PROVE  Inv' /\ StepOK
<1>1. Welcome \notin DOMAIN clients
  BY WelcomeAssumption DEF Inv, TypeOK
<1> QED
  BY <1>1, StrayErrInv DEF udp_polling_malformed, Inv, TypeOK

(* A datagram from an address in use does. *)
LEMMA InUseInv ==
  ASSUME Inv, NEW f \in Fd, NEW a \in Addr, udp_polling_in_use(f, a)
  PROVE  Inv' /\ StepOK
<1>1. f \notin DOMAIN clients
  BY DEF udp_polling_in_use, FreeFd
<1> QED
  BY <1>1, StrayErrInv DEF udp_polling_in_use, Inv, TypeOK

(* Closing a descriptor that no client has does. *)
LEMMA MissingInv ==
  ASSUME Inv, NEW f \in Fd, process_msg_sock_missing(f)
  PROVE  Inv' /\ StepOK
<1> USE DEF Inv, process_msg_sock_missing
<1>1. TypeOK' /\ LeakedIsNoClient' /\ ResetIsTcp'
  BY DEF TypeOK, LeakedIsNoClient, ResetIsTcp
<1>2. PendingOwner' /\ ByeEndsSession' /\ SweepOnlyUnresponsive'
  BY DEF PendingOwner, ByeEndsSession, SweepOnlyUnresponsive
<1>3. JoinedIffAuthorized' /\ StopSilencesSessions' /\ TcpNotEnded(clients)'
  BY DEF JoinedIffAuthorized, StopSilencesSessions, TcpNotEnded
<1>4. StepOK
  BY SameSessions, NobodyMoves, NobodyTalks DEF StepOK, KeepsEnds, DropsOnlyEnded
<1> QED
  BY <1>1, <1>2, <1>3, <1>4

(* The loss of a TCP peer does. *)
LEMMA PeerResetInv ==
  ASSUME Inv, NEW f \in Fd, PeerReset(f)
  PROVE  Inv' /\ StepOK
<1> USE DEF Inv, PeerReset
<1>1. TypeOK' /\ LeakedIsNoClient' /\ ResetIsTcp'
  BY DEF TypeOK, LeakedIsNoClient, ResetIsTcp
<1>2. PendingOwner' /\ ByeEndsSession' /\ SweepOnlyUnresponsive'
  BY DEF PendingOwner, ByeEndsSession, SweepOnlyUnresponsive
<1>3. JoinedIffAuthorized' /\ StopSilencesSessions' /\ TcpNotEnded(clients)'
  BY DEF JoinedIffAuthorized, StopSilencesSessions, TcpNotEnded
<1>4. StepOK
  BY SameSessions, NobodyMoves, NobodyTalks DEF StepOK, KeepsEnds, DropsOnlyEnded
<1> QED
  BY <1>1, <1>2, <1>3, <1>4

(* What an idle round makes of a buffered message (udp_timeout). *)
LEMMA RetransmitMsg ==
  ASSUME Inv, NEW due \in SUBSET msg_out_buf
  PROVE  /\ \A n \in Retransmit(due) : n \in OutMsg /\ \E m \in msg_out_buf :
              /\ n = IF m \in due /\ ~Exhausted(m)
                     THEN [m EXCEPT !.retry_count = @ + 1] ELSE m
              /\ n.sockfd = m.sockfd /\ n.type = m.type
              /\ n = m \/ n.retry_count # 0
         /\ \A m \in due : Exhausted(m) =>
              m \in Retransmit(due) /\ m.retry_count = udp_retransmissions
<1>1. ASSUME NEW m \in msg_out_buf
      PROVE  /\ m \in OutMsg
             /\ ~Exhausted(m) => m.retry_count + 1 \in 0..udp_retransmissions
             /\ Exhausted(m) => m.retry_count = udp_retransmissions
  <2>1. m \in OutMsg /\ m.retry_count \in 0..udp_retransmissions
    BY DEF Inv, TypeOK, OutMsg
  <2> QED
    BY <2>1, LimitAssumption DEF Exhausted
<1>2. ASSUME NEW m \in msg_out_buf, ~Exhausted(m)
      PROVE  LET n == [m EXCEPT !.retry_count = @ + 1]
             IN  n \in OutMsg /\ n.sockfd = m.sockfd /\ n.type = m.type
                 /\ n.retry_count # 0
  BY <1>1, <1>2 DEF OutMsg
<1>3. ASSUME NEW n \in Retransmit(due)
      PROVE  n \in OutMsg /\ \E m \in msg_out_buf :
               /\ n = IF m \in due /\ ~Exhausted(m)
                      THEN [m EXCEPT !.retry_count = @ + 1] ELSE m
               /\ n.sockfd = m.sockfd /\ n.type = m.type
               /\ n = m \/ n.retry_count # 0
  <2>1. PICK m \in msg_out_buf :
               n = IF m \in due /\ ~Exhausted(m)
                   THEN [m EXCEPT !.retry_count = @ + 1] ELSE m
    BY DEF Retransmit
  <2> QED
    BY <1>1, <1>2, <2>1
<1>4. ASSUME NEW m \in due, Exhausted(m)
      PROVE  m \in Retransmit(due) /\ m.retry_count = udp_retransmissions
  BY <1>1, <1>4 DEF Retransmit
<1> QED
  BY <1>3, <1>4

(* An idle round does: a client is listed for destruction only with a      *)
(* message that has been sent for the last time (udp_timeout).             *)
LEMMA IdleInv ==
  ASSUME Inv, NEW due \in SUBSET msg_out_buf, poll_idle(due)
  PROVE  Inv' /\ StepOK
<1>1. /\ msg_out_buf' = Retransmit(due)
      /\ clnt_dstr' = {m.sockfd : m \in {n \in due : Exhausted(n)}} \cap DOMAIN clients
      /\ status' \in {status, "crashed"}
      /\ UNCHANGED <<clients, leaked, stale, reset, stop_flag>>
  BY DEF poll_idle, udp_timeout
<1>2. stop_timeout' \in Int
  BY LimitAssumption DEF poll_idle, CountDown, Inv, TypeOK
<1>3. TypeOK'
  BY <1>1, <1>2, RetransmitMsg DEF Inv, TypeOK
<1>4. PendingOwner'
  BY <1>1, RetransmitMsg DEF Inv, PendingOwner
<1>5. ByeEndsSession'
  BY <1>1, RetransmitMsg DEF Inv, ByeEndsSession
<1>6. JoinedIffAuthorized' /\ StopSilencesSessions' /\ TcpNotEnded(clients)'
  BY <1>1 DEF Inv, JoinedIffAuthorized, StopSilencesSessions, TcpNotEnded
<1>7. SweepOnlyUnresponsive'
  BY <1>1, RetransmitMsg DEF SweepOnlyUnresponsive
<1>8. LeakedIsNoClient' /\ ResetIsTcp'
  BY <1>1 DEF Inv, LeakedIsNoClient, ResetIsTcp
<1>9. ChatHeard
  BY <1>1, RetransmitMsg DEF ChatHeard
<1>10. StepOK
  BY <1>1, <1>9, SameSessions, NobodyMoves DEF StepOK, KeepsEnds, DropsOnlyEnded
<1> QED
  BY <1>3, <1>4, <1>5, <1>6, <1>7, <1>8, <1>10 DEF Inv

(* SIGINT does, also in the middle of the sweep: it deletes TCP clients    *)
(* only, and those are never listed for destruction.                       *)
LEMMA SigintInv ==
  ASSUME Inv, sigint_handler
  PROVE  Inv' /\ StepOK
<1> DEFINE open == {f \in DOMAIN clients : clients[f].state # "s_en"}
           dead == {f \in open : clients[f].protocol = "e_tcp"}
           byes == To(open \ dead, "e_bye")
<1>1. /\ stop_flag' = TRUE
      /\ clients' = [f \in DOMAIN clients \ dead |->
                       IF f \in open THEN [clients[f] EXCEPT !.state = "s_en"]
                       ELSE clients[f]]
      /\ \A s \in byes : FreeIds(s) # {}
      /\ msg_out_buf' = delete_client(msg_out_buf, dead) \cup {Queued(s) : s \in byes}
      /\ \E lost \in SUBSET dead : stale' = stale \cup lost
      /\ reset' = reset \ dead
      /\ UNCHANGED <<leaked, stop_timeout, clnt_dstr, status>>
  BY DEF sigint_handler, send_msg, del_poll_fd
<1>2. DOMAIN clients' = DOMAIN clients \ dead
  BY <1>1
<1>3. ASSUME NEW f \in DOMAIN clients \ dead
      PROVE  /\ clients'[f] \in Client
             /\ clients'[f].state = "s_en"
             /\ clients'[f].protocol = clients[f].protocol
             /\ clients'[f].channel_id = clients[f].channel_id
             /\ clients[f].protocol = "e_udp"
  <2>1. clients[f] \in Client
    BY DEF Inv, TypeOK
  <2>2. CASE f \in open
    <3>1. /\ [clients[f] EXCEPT !.state = "s_en"] \in Client
          /\ [clients[f] EXCEPT !.state = "s_en"].state = "s_en"
          /\ [clients[f] EXCEPT !.state = "s_en"].protocol = clients[f].protocol
          /\ [clients[f] EXCEPT !.state = "s_en"].channel_id = clients[f].channel_id
      BY <2>1 DEF Client, State
    <3> QED
      BY <1>1, <2>1, <2>2, <3>1 DEF Client
  <2>3. CASE f \notin open
    BY <1>1, <2>1, <2>3 DEF Client, Inv, TcpNotEnded
  <2> QED
    BY <2>2, <2>3
<1>4. ASSUME NEW m \in msg_out_buf'
      PROVE  \/ m \in msg_out_buf /\ m.sockfd \notin dead
             \/ \E s \in byes :
                  /\ m = Queued(s) /\ m \in OutMsg
                  /\ m.sockfd = s.sockfd /\ m.type = "e_bye"
                  /\ s = [sockfd |-> m.sockfd, type |-> "e_bye"]
                  /\ m.sockfd \in open \ dead
  <2>1. CASE m \in delete_client(msg_out_buf, dead)
    BY <2>1 DEF delete_client
  <2>2. CASE \E s \in byes : m = Queued(s)
    <3>1. PICK s \in byes : m = Queued(s)
      BY <2>2
    <3>2. PICK f \in open \ dead : s = [sockfd |-> f, type |-> "e_bye"]
      BY DEF To
    <3>3. s.sockfd = f /\ f \in Fd /\ s.type = "e_bye" /\ s.type \in OutType
      BY <3>2 DEF OutType, Inv, TypeOK
    <3> QED
      BY <1>1, <3>1, <3>2, <3>3, QueuedType
  <2> QED
    BY <1>1, <2>1, <2>2
<1>5. dead \subseteq DOMAIN clients /\ \A f \in dead : clients[f].protocol = "e_tcp"
  OBVIOUS
<1>6. open \subseteq DOMAIN clients /\ \A f \in open : clients[f].state # "s_en"
  OBVIOUS
<1>7. \A f \in clnt_dstr : clients[f].protocol = "e_udp"
  BY DEF Inv, TypeOK, SweepOnlyUnresponsive, PendingOwner
<1>8. clients' = [f \in DOMAIN clients' |-> clients'[f]]
  BY <1>1
<1>9. delete_client(msg_out_buf, dead) \subseteq msg_out_buf'
  BY <1>1
<1> HIDE DEF open, dead, byes
<1>10. TypeOK'
  <2>1. (clnt_dstr \subseteq DOMAIN clients)'
    BY <1>1, <1>2, <1>5, <1>7 DEF Inv, TypeOK
  <2>2. (DOMAIN clients \subseteq Fd)' /\ (clients \in [DOMAIN clients -> Client])'
    BY <1>2, <1>3, <1>8 DEF Inv, TypeOK
  <2>3. (msg_out_buf \subseteq OutMsg)'
    BY <1>4 DEF Inv, TypeOK
  <2>4. (leaked \subseteq Fd)' /\ (stale \subseteq Fd)' /\ (reset \subseteq DOMAIN clients)'
    BY <1>1, <1>2, <1>5 DEF Inv, TypeOK
  <2> QED
    BY <1>1, <2>1, <2>2, <2>3, <2>4 DEF Inv, TypeOK
<1>11. PendingOwner'
  <2>1. leaked \subseteq leaked'
    BY <1>1
  <2> QED
    BY <1>2, <1>3, <1>4, <1>6, <2>1 DEF Inv, PendingOwner
<1>12. ByeEndsSession'
  <2>1. ASSUME NEW m \in msg_out_buf', m.type = "e_bye"
        PROVE  m.sockfd \in DOMAIN clients' /\ clients'[m.sockfd].state = "s_en"
    BY <1>2, <1>3, <1>4, <1>6, <2>1 DEF Inv, ByeEndsSession
  <2>2. ASSUME NEW m \in msg_out_buf', m.type = "e_bye",
               NEW n \in msg_out_buf', n.type = "e_bye", n.sockfd = m.sockfd
        PROVE  n = m
    BY <1>4, <1>6, <2>2 DEF Inv, ByeEndsSession
  <2> QED
    BY <2>1, <2>2 DEF ByeEndsSession
<1>13. JoinedIffAuthorized' /\ StopSilencesSessions' /\ TcpNotEnded(clients)'
  BY <1>2, <1>3 DEF JoinedIffAuthorized, StopSilencesSessions, TcpNotEnded
<1>14. SweepOnlyUnresponsive'
  <2> SUFFICES ASSUME NEW g \in clnt_dstr
               PROVE  \E m \in msg_out_buf' :
                        m.sockfd = g /\ m.retry_count = udp_retransmissions
    BY <1>1 DEF SweepOnlyUnresponsive
  <2>1. PICK m \in msg_out_buf :
               m.sockfd = g /\ m.retry_count = udp_retransmissions
    BY DEF Inv, SweepOnlyUnresponsive
  <2>2. m \in delete_client(msg_out_buf, dead)
    BY <1>5, <1>7, <2>1 DEF delete_client
  <2> QED
    BY <1>9, <2>1, <2>2
<1>15. LeakedIsNoClient'
  <2>1. PICK lost \in SUBSET dead : stale' = stale \cup lost
    BY <1>1
  <2> QED
    BY <1>1, <1>2, <2>1 DEF Inv, LeakedIsNoClient
<1>16. ResetIsTcp'
  BY <1>1, <1>2, <1>3 DEF Inv, TypeOK, ResetIsTcp
<1>17. SessionStep
  <2>1. ASSUME NEW f \in Fd
        PROVE  SessionOf(f)' = IF SessionOf(f).phase \in {"accepted", "open"}
                               THEN Sessions!Closed(SessionOf(f).protocol)
                               ELSE SessionOf(f)
    <3>1. CASE f \notin DOMAIN clients
      BY <1>2, <3>1, SessionIs, SessionIsNext DEF NoSession
    <3>2. CASE f \in DOMAIN clients
      <4>1. /\ clients[f].state \in State
            /\ SessionOf(f) = Sessions!In(clients[f].protocol, PhaseOf[clients[f].state])
            /\ SessionOf(f).protocol = clients[f].protocol
            /\ SessionOf(f).phase = PhaseOf[clients[f].state]
        BY <3>2, SessionIs DEF Inv, TypeOK, Client, Sessions!In
      <4>2. CASE f \in dead
        <5>1. SessionOf(f).phase \in {"accepted", "open"}
          BY <4>1, <4>2 DEF dead, open, PhaseOf, State
        <5> QED
          BY <1>2, <1>5, <4>1, <4>2, <5>1, SessionIsNext
          DEF Sessions!Closed, Sessions!Free, NoSession
      <4>3. CASE f \notin dead
        <5>1. SessionOf(f)' = Sessions!In("e_udp", "ended") /\ clients[f].protocol = "e_udp"
          BY <1>2, <1>3, <3>2, <4>3, SessionIsNext DEF PhaseOf
        <5>2. SessionOf(f).phase \in {"accepted", "open", "ended"}
          BY <4>1 DEF PhaseOf, State
        <5> QED
          BY <4>1, <5>1, <5>2 DEF Sessions!Closed, Sessions!In
      <4> QED
        BY <4>2, <4>3
    <3> QED
      BY <3>1, <3>2
  <2>2. Sessions!Stop
    BY <1>1, <2>1 DEF Sessions!Stop, Sessions!Active
  <2> QED
    BY <2>2 DEF SessionStep, Sessions!Next
<1>18. StepOK
  <2>1. ChatHeard /\ MoveHeard
    BY <1>2, <1>3, <1>4, NobodyTalks, NobodyMoves
  <2> QED
    BY <1>2, <1>3, <1>5, <1>17, <2>1 DEF StepOK, KeepsEnds, DropsOnlyEnded
<1> QED
  BY <1>10, <1>11, <1>12, <1>13, <1>14, <1>15, <1>16, <1>18 DEF Inv

-----------------------------------------------------------------------------
(* The invariant holds in every reachable state *)

(* The invariant holds when the server starts. *)
LEMMA InitInv == Init => Inv
<1> SUFFICES ASSUME Init PROVE Inv
  OBVIOUS
<1>1. DOMAIN clients = {} /\ clients \in [DOMAIN clients -> Client]
  BY DEF Init
<1>2. /\ msg_out_buf = {} /\ leaked = {} /\ stale = {} /\ reset = {} /\ clnt_dstr = {}
      /\ stop_flag = FALSE /\ status = "running"
      /\ stop_timeout = STOP_TIMEOUT
  BY DEF Init
<1>3. TypeOK
  <2>1. stop_timeout \in Int
    BY <1>2, LimitAssumption
  <2>2. DOMAIN clients \subseteq Fd
    BY <1>1
  <2> QED
    BY <1>1, <1>2, <2>1, <2>2 DEF TypeOK
<1> QED
  BY <1>1, <1>2, <1>3
  DEF Inv, PendingOwner, ByeEndsSession, JoinedIffAuthorized, TcpNotEnded,
      StopSilencesSessions, SweepOnlyUnresponsive, LeakedIsNoClient, ResetIsTcp

(* A step that changes nothing keeps it. *)
LEMMA StutterInv ==
  ASSUME Inv, UNCHANGED vars
  PROVE  Inv' /\ StepOK
BY SameSessions, NobodyMoves, NobodyTalks DEF vars, Inv, TypeOK, PendingOwner, ByeEndsSession, JoinedIffAuthorized,
       TcpNotEnded, StopSilencesSessions, SweepOnlyUnresponsive,
       LeakedIsNoClient, ResetIsTcp, StepOK, KeepsEnds, DropsOnlyEnded

(* Leaving the event loop keeps it. *)
LEMMA StopInv ==
  ASSUME Inv, stop
  PROVE  Inv' /\ StepOK
BY SameSessions, NobodyMoves, NobodyTalks DEF stop, Inv, TypeOK, PendingOwner, ByeEndsSession, JoinedIffAuthorized,
       TcpNotEnded, StopSilencesSessions, SweepOnlyUnresponsive,
       LeakedIsNoClient, ResetIsTcp, StepOK, KeepsEnds, DropsOnlyEnded

(* So does a second SIGINT. *)
LEMMA SigintDefaultInv ==
  ASSUME Inv, sigint_default
  PROVE  Inv' /\ StepOK
BY SameSessions, NobodyMoves, NobodyTalks DEF sigint_default, Inv, TypeOK, PendingOwner, ByeEndsSession,
       JoinedIffAuthorized, TcpNotEnded, StopSilencesSessions, SweepOnlyUnresponsive,
       LeakedIsNoClient, ResetIsTcp, StepOK, KeepsEnds, DropsOnlyEnded

(* Every step of the server and of its peers keeps it. *)
LEMMA NextInv ==
  ASSUME Inv, [Next]_vars
  PROVE  Inv' /\ StepOK
<1>1. CASE Input
  BY <1>1, TcpPollingInv, InUseInv, UdpPollingInv, ProcessUdpInv, DuplicateInv,
     MalformedUdpInv, WelcomeInv, ProcessTcpInv, MalformedTcpInv, FinInv,
     MissingInv, PeerResetInv DEF Input
<1>2. CASE Idle
  BY <1>2, IdleInv DEF Idle
<1>3. CASE Sweep
  BY <1>3, SweepCloseInv, SweepDeleteInv DEF Sweep
<1>4. CASE Gone \/ UNCHANGED vars
  BY <1>4, StutterInv DEF Gone
<1> QED
  BY <1>1, <1>2, <1>3, <1>4, StopInv, SigintInv, SigintDefaultInv DEF Next

(* Inv holds in every reachable state, for all sets of descriptors,        *)
(* addresses and channels and all limits.                                  *)
THEOREM Invariance == Spec => []Inv
<1>1. Inv /\ [Next]_vars => Inv'
  BY NextInv
<1> QED
  BY <1>1, InitInv, PTL DEF Spec

(* Every variable keeps its type; retry_count never passes                 *)
(* udp_retransmissions (udp_timeout).                                      *)
THEOREM TypeCorrect == Spec => []TypeOK
BY Invariance, PTL DEF Inv

(* No message waits for a CONFIRM on a descriptor that was closed          *)
(* (delete_client).                                                        *)
THEOREM PendingOwned == Spec => []PendingOwner
BY Invariance, PTL DEF Inv

(* A client with an unconfirmed BYE of the server has ended, and has only  *)
(* one such BYE (close_client, sigint_handler).                            *)
THEOREM GoodbyeOnce == Spec => []ByeEndsSession
BY Invariance, PTL DEF Inv

(* A client has a channel exactly when it is authorized (execute_msg). *)
THEOREM ChannelIffAuthorized == Spec => []JoinedIffAuthorized
BY Invariance, PTL DEF Inv

(* After SIGINT no session is open (sigint_handler, process_msg). *)
THEOREM StopSilences == Spec => []StopSilencesSessions
BY Invariance, PTL DEF Inv

(* Only a client with an exhausted message is swept, whatever happens      *)
(* between its listing and its sweep (udp_timeout, sigint_handler).        *)
THEOREM SweepJustified == Spec => []SweepOnlyUnresponsive
BY Invariance, PTL DEF Inv

(* A session that ended is not opened again (process_msg). *)
THEOREM EndsAreFinal == Spec => EndIsFinal
<1>1. Inv /\ [Next]_vars =>
        [\A f \in DOMAIN clients \cap DOMAIN clients' :
           clients[f].state = "s_en" => clients'[f].state = "s_en"]_vars
  BY NextInv DEF StepOK, KeepsEnds
<1> QED
  BY <1>1, Invariance, PTL DEF Spec, EndIsFinal

(* A UDP client is deleted only after its session ended (udp_timeout,      *)
(* delete_client).                                                         *)
THEOREM UdpEndsFirst == Spec => UdpEndsBeforeDeletion
<1>1. Inv /\ [Next]_vars =>
        [\A f \in DOMAIN clients \ DOMAIN clients' :
           clients[f].protocol = "e_udp" => clients[f].state = "s_en"]_vars
  BY NextInv DEF StepOK, DropsOnlyEnded
<1> QED
  BY <1>1, Invariance, PTL DEF Spec, UdpEndsBeforeDeletion

(* A chat message goes to nobody but clients on the channel of the client  *)
(* it comes from, which is authorized (forward_msg_channel, process_msg).  *)
THEOREM ChatStaysOnChannel == Spec => ChatFromMember
<1>1. Inv /\ [Next]_vars => [ChatHeard]_vars
  BY NextInv DEF StepOK
<1> QED
  BY <1>1, Invariance, PTL DEF Spec, ChatFromMember, ChatHeard

(* Nobody changes the channel unannounced: members of the channel that is  *)
(* left, and of the one that is entered, are told (execute_msg, e_auth and *)
(* e_join).                                                                *)
THEOREM MovesAreAnnounced == Spec => MoveAnnounced
<1>1. Inv /\ [Next]_vars => [MoveHeard]_vars
  BY NextInv DEF StepOK
<1> QED
  BY <1>1, Invariance, PTL DEF Spec, MoveAnnounced, MoveHeard, Gets

(* The event loop implements Session: when the server starts every session *)
(* is free, and every step of the server moves one session along, ends all *)
(* of them, or changes none (process_msg, close_client, delete_client,     *)
(* sigint_handler).                                                        *)
THEOREM SessionRefinement == Spec => ImplementsSession
<1>1. Init => Sessions!Init
  <2> SUFFICES ASSUME Init PROVE Sessions!Init
    OBVIOUS
  <2>1. DOMAIN clients = {} /\ stop_flag = FALSE
    BY DEF Init
  <2> QED
    BY <2>1, SessionIs DEF Sessions!Init, Sessions!Free, NoSession
<1>2. Inv /\ [Next]_vars => [Sessions!Next]_(Sessions!svars)
  BY NextInv DEF StepOK, SessionStep
<1> QED
  BY <1>1, <1>2, Invariance, PTL DEF Spec, ImplementsSession, Sessions!Spec
=============================================================================
