-------------------------- MODULE HandshakeProofs --------------------------
(***************************************************************************)
(* Proofs about Handshake.  The steps of the server are those of           *)
(* ChatServer, so its invariant Inv holds here too; on top of it come one  *)
(* fact about the clients (at most one, with the address of the client)    *)
(* and one about the copies of AUTH on their way (they are told apart by   *)
(* the number of the try).                                                 *)
(***************************************************************************)
EXTENDS Handshake, ChatServerProofs, FiniteSetTheorems

OnlyThisClient ==
  \A f \in DOMAIN clients :
    clients[f].addr = ClientAddr /\ \A g \in DOMAIN clients : g = f

(* Copies of AUTH on their way. *)
Coming == {d \in net : d.type = "e_auth"}

NetOK ==
  /\ tries \in Nat /\ sessions \in Nat /\ losses \in Nat
  /\ \A d \in Coming : \E copy \in 0..(tries - 1) : d = Auth(copy)
  /\ IsFiniteSet(Coming) /\ IsFiniteSet(leaked)

HInv ==
  /\ Inv
  /\ OnlyThisClient
  /\ NetOK
  /\ LeakedPerCopy

-----------------------------------------------------------------------------
(* The clients *)

(* Whatever a handler does, it adds no record to its table, and changes no *)
(* address there (process_msg, delete_client).                             *)
LEMMA FinishAddr ==
  ASSUME NEW cl, NEW f, NEW r, TableOK(cl, f), Finish(cl, f, r)
  PROVE  /\ DOMAIN clients' \subseteq DOMAIN cl
         /\ \A g \in DOMAIN clients' : clients'[g].addr = cl[g].addr
<1> DEFINE after == [cl EXCEPT ![f] = Updated(cl[f], r)]
<1>1. PICK gone : clients' = Restrict(after, DOMAIN cl \ gone)
  BY DEF Finish
<1>2. /\ DOMAIN clients' = DOMAIN cl \ gone
      /\ \A g \in DOMAIN clients' : clients'[g] = after[g]
  BY <1>1 DEF Restrict
<1>3. \A g \in DOMAIN cl : after[g].addr = cl[g].addr
  BY DEF TableOK, Updated
<1> QED
  BY <1>2, <1>3

(* AUTH on the welcome socket is a first datagram: a step of the server,   *)
(* after which the client is the only one.                                 *)
LEMMA RecvAuth ==
  ASSUME HInv, NEW d, FreeFd # {}, recv_auth(d, LowestFd)
  PROVE  Inv' /\ StepOK /\ OnlyThisClient'
<1> DEFINE f == LowestFd
           cl == AddClient(f, NewClient("e_udp", ClientAddr))
           msg == [type |-> "e_auth"]
<1>1. f \in FreeFd /\ f \in Fd
  BY DEF LowestFd, FreeFd
<1>2. msg \in UdpMsg
  BY DEF UdpMsg, TcpMsg, Plain
<1>3. udp_polling(f, ClientAddr, msg)
  BY DEF recv_auth
<1> HIDE DEF f, msg
<1>4. Inv' /\ StepOK
  BY <1>1, <1>2, <1>3, UdpPollingInv, NetworkAssumption DEF HInv
<1>5. DOMAIN clients = {}
  BY <1>3 DEF udp_polling, InUse, HInv, OnlyThisClient
<1>6. TableOK(cl, f) /\ Finish(cl, f, process_msg(cl, f, msg))
  BY <1>1, <1>3, TableAdded, NetworkAssumption DEF udp_polling, HInv
<1>7. DOMAIN cl = {f} /\ cl[f].addr = ClientAddr
  BY <1>5 DEF AddClient, NewClient
<1> HIDE DEF cl
<1> QED
  BY <1>4, <1>6, <1>7, FinishAddr DEF OnlyThisClient

(* AUTH from the address of the client that exists is one, and leaves the  *)
(* clients alone.                                                          *)
LEMMA RecvAuthInUse ==
  ASSUME HInv, NEW d, FreeFd # {}, recv_auth_in_use(d, LowestFd)
  PROVE  Inv' /\ StepOK /\ OnlyThisClient'
<1>1. LowestFd \in Fd
  BY DEF LowestFd, FreeFd
<1>2. udp_polling_in_use(LowestFd, ClientAddr)
  BY DEF recv_auth_in_use
<1>3. Inv' /\ StepOK
  BY <1>1, <1>2, InUseInv, NetworkAssumption DEF HInv
<1> QED
  BY <1>2, <1>3 DEF udp_polling_in_use, HInv, OnlyThisClient

(* CONFIRM on the socket of the client is a datagram of the client. *)
LEMMA RecvConfirm ==
  ASSUME HInv, NEW d, recv_confirm(d)
  PROVE  Inv' /\ StepOK /\ OnlyThisClient'
<1> DEFINE msg == [type |-> "e_confirm", ref_id |-> RefId(d)]
           cl == From(d.fd, ClientAddr)
<1>1. RefId(d) \in msg_out_buf \cup {Unknown}
  BY DEF RefId
<1>2. msg \in UdpMsg
  BY <1>1 DEF UdpMsg, Confirm
<1>3. process_msg_sock_udp(d.fd, ClientAddr, msg)
  BY DEF recv_confirm
<1>4. d.fd \in DOMAIN clients /\ d.fd \in Fd
  BY <1>3 DEF process_msg_sock_udp, Readable, HInv, Inv, TypeOK
<1> HIDE DEF msg
<1>5. Inv' /\ StepOK
  BY <1>2, <1>3, <1>4, ProcessUdpInv, NetworkAssumption DEF HInv
<1>6. TableOK(cl, d.fd) /\ Finish(cl, d.fd, process_msg(cl, d.fd, msg))
  BY <1>3, <1>4, TableMoved, NetworkAssumption DEF process_msg_sock_udp, HInv
<1>7. DOMAIN cl = DOMAIN clients /\ \A g \in DOMAIN cl : cl[g].addr = ClientAddr
  BY <1>4 DEF From, HInv, OnlyThisClient, Inv, TypeOK, Client
<1> HIDE DEF cl
<1> QED
  BY <1>5, <1>6, <1>7, FinishAddr DEF HInv, OnlyThisClient

(* An idle round is one. *)
LEMMA ServerIdle ==
  ASSUME HInv, NEW due \in SUBSET msg_out_buf, server_idle(due)
  PROVE  Inv' /\ StepOK /\ OnlyThisClient'
<1>1. Inv' /\ StepOK
  BY IdleInv DEF server_idle, HInv
<1> QED
  BY <1>1 DEF server_idle, poll_idle, HInv, OnlyThisClient

(* The sweep is one: it only takes clients away. *)
LEMMA ServerSweep ==
  ASSUME HInv, server_sweep
  PROVE  Inv' /\ StepOK /\ OnlyThisClient' /\ UNCHANGED leaked
<1>1. PICK f \in Fd : udp_timeout_close(f) \/ udp_timeout_delete(f)
  BY DEF server_sweep, Sweep
<1>2. Inv' /\ StepOK /\ UNCHANGED leaked
  BY <1>1, SweepCloseInv, SweepDeleteInv
  DEF HInv, udp_timeout_close, udp_timeout_delete
<1>3. /\ DOMAIN clients' \subseteq DOMAIN clients
      /\ \A g \in DOMAIN clients' : clients'[g].addr = clients[g].addr
  <2>1. CASE udp_timeout_close(f)
    <3>1. TableOK(clients, f)
      BY <2>1, TableAsIs DEF udp_timeout_close, HInv, Inv, TypeOK
    <3>2. \E r : Finish(clients, f, r)
      BY <2>1 DEF udp_timeout_close
    <3> QED
      BY <3>1, <3>2, FinishAddr
  <2>2. CASE udp_timeout_delete(f)
    BY <2>2 DEF udp_timeout_delete, Restrict
  <2> QED
    BY <1>1, <2>1, <2>2
<1> QED
  BY <1>2, <1>3 DEF HInv, OnlyThisClient

-----------------------------------------------------------------------------
(* The network *)

(* The server never sends AUTH. *)
LEMMA SentNoAuth ==
  ASSUME Inv', NEW n
  PROVE  \A d \in Sent(n) : d.type # "e_auth"
BY DEF Sent, Reliable, Inv, TypeOK, OutMsg, OutType

(* A copy of AUTH on its way is for the server, and a copy the client      *)
(* sends next is not on its way yet.                                       *)
LEMMA ComingIs ==
  ASSUME NetOK
  PROVE  /\ \A d \in Coming : d.to = "server"
         /\ Auth(tries) \notin Coming
<1>1. ASSUME NEW d \in Coming
      PROVE  d.to = "server" /\ d # Auth(tries)
  <2>1. PICK copy \in 0..(tries - 1) : d = Auth(copy)
    BY DEF NetOK
  <2>2. copy # tries
    BY DEF NetOK
  <2>3. d.copy = copy /\ d.to = "server" /\ Auth(tries).copy = tries
    BY <2>1 DEF Auth
  <2> QED
    BY <2>2, <2>3
<1> QED
  BY <1>1

(* What LeakedPerCopy counts, as a sum of numbers. *)
LEMMA CopiesCounted ==
  ASSUME NetOK
  PROVE  /\ Cardinality(Coming) \in Nat /\ Cardinality(leaked) \in Nat
         /\ LeakedPerCopy <=>
              LET sum == sessions + Cardinality(leaked) + Cardinality(Coming)
              IN  tries - losses <= sum /\ sum <= tries
<1>1. Cardinality(Coming) \in Nat /\ Cardinality(leaked) \in Nat
  BY FS_CardinalityType DEF NetOK
<1> QED
  BY <1>1 DEF LeakedPerCopy, Coming, NetOK

(* ... and after a step. *)
LEMMA CopiesCountedNext ==
  ASSUME NetOK'
  PROVE  /\ Cardinality(Coming') \in Nat /\ Cardinality(leaked') \in Nat
         /\ LeakedPerCopy' <=>
              LET sum == sessions' + Cardinality(leaked') + Cardinality(Coming')
              IN  tries' - losses' <= sum /\ sum <= tries'
<1>1. Cardinality(Coming') \in Nat /\ Cardinality(leaked') \in Nat
  BY FS_CardinalityType DEF NetOK
<1> QED
  BY <1>1 DEF LeakedPerCopy, Coming, NetOK

(* A step that takes no copy of AUTH off the network, nor counts one.      *)
LEMMA CopiesSame ==
  ASSUME HInv, Coming' = Coming,
         UNCHANGED <<tries, sessions, losses, leaked>>
  PROVE  NetOK' /\ LeakedPerCopy'
<1>1. NetOK'
  BY DEF HInv, NetOK
<1> QED
  BY <1>1, CopiesCounted, CopiesCountedNext DEF HInv

(* A step that takes one off and counts it: as a session opened, as a      *)
(* descriptor leaked or as lost.                                           *)
LEMMA CopyTaken ==
  ASSUME HInv, NEW d \in Coming, Coming' = Coming \ {d}, UNCHANGED tries,
         \/ /\ sessions' = sessions + 1
            /\ UNCHANGED <<losses, leaked>>
         \/ /\ \E f : f \notin leaked /\ leaked' = leaked \cup {f}
            /\ UNCHANGED <<losses, sessions>>
         \/ /\ losses' = losses + 1
            /\ UNCHANGED <<sessions, leaked>>
  PROVE  NetOK' /\ LeakedPerCopy'
<1>1. /\ IsFiniteSet(Coming') /\ Cardinality(Coming') = Cardinality(Coming) - 1
  BY FS_RemoveElement DEF HInv, NetOK
<1>2. /\ IsFiniteSet(leaked')
      /\ sessions' + Cardinality(leaked') + losses'
           = sessions + Cardinality(leaked) + losses + 1
      /\ losses <= losses' /\ losses' \in Nat /\ sessions' \in Nat
      /\ sessions' + Cardinality(leaked') <= sessions + Cardinality(leaked) + 1
  <2>1. CASE \E f : f \notin leaked /\ leaked' = leaked \cup {f}
    <3>1. PICK f : f \notin leaked /\ leaked' = leaked \cup {f}
      BY <2>1
    <3>2. leaked' # leaked
      BY <3>1
    <3>3. UNCHANGED <<losses, sessions>>
      BY <3>2
    <3>4. IsFiniteSet(leaked') /\ Cardinality(leaked') = Cardinality(leaked) + 1
      BY <3>1, FS_AddElement DEF HInv, NetOK
    <3> QED
      BY <3>3, <3>4, CopiesCounted DEF HInv, NetOK
  <2>2. CASE UNCHANGED leaked
    BY <2>2, CopiesCounted DEF HInv, NetOK
  <2> QED
    BY <2>1, <2>2
<1>3. NetOK'
  BY <1>1, <1>2 DEF HInv, NetOK
<1> QED
  BY <1>1, <1>2, <1>3, CopiesCounted, CopiesCountedNext DEF HInv, NetOK

(* Every step keeps NetOK and LeakedPerCopy, given that it keeps Inv. *)
LEMMA HNextNet ==
  ASSUME HInv, HNext, Inv'
  PROVE  NetOK' /\ LeakedPerCopy'
<1> USE DEF Coming
<1>1. CASE client_send_auth
  <2>1. Coming' = Coming \cup {Auth(tries)} /\ tries' = tries + 1
    BY <1>1 DEF client_send_auth, Auth
  <2>2. UNCHANGED <<sessions, losses, leaked>>
    BY <1>1 DEF client_send_auth, vars
  <2> HIDE DEF Coming
  <2>3. /\ IsFiniteSet(Coming')
        /\ Cardinality(Coming') = Cardinality(Coming) + 1
    BY <2>1, FS_AddElement, ComingIs DEF HInv, NetOK
  <2>4. NetOK'
    BY <2>1, <2>2, <2>3 DEF HInv, NetOK
  <2> QED
    BY <2>1, <2>2, <2>3, <2>4, CopiesCounted, CopiesCountedNext DEF HInv, NetOK
<1>2. ASSUME NEW d \in net, client_recv(d)
      PROVE  NetOK' /\ LeakedPerCopy'
  <2>1. d \notin Coming
    BY <1>2, ComingIs DEF client_recv, HInv
  <2>2. Coming' = Coming
    BY <1>2, <2>1 DEF client_recv, Confirms
  <2> QED
    BY <1>2, <2>2, CopiesSame DEF client_recv, vars
<1>3. ASSUME NEW d \in net, NEW f, recv_auth(d, f)
      PROVE  NetOK' /\ LeakedPerCopy'
  <2>1. d \in Coming /\ Coming' = Coming \ {d}
    BY <1>3, SentNoAuth DEF recv_auth, AuthConfirm
  <2> QED
    BY <1>3, <2>1, CopyTaken DEF recv_auth, client_vars, udp_polling
<1>4. ASSUME NEW d \in net, NEW f, recv_auth_in_use(d, f)
      PROVE  NetOK' /\ LeakedPerCopy'
  <2>1. d \in Coming /\ Coming' = Coming \ {d}
    BY <1>4, SentNoAuth DEF recv_auth_in_use
  <2>2. f \notin leaked /\ leaked' = leaked \cup {f}
    BY <1>4 DEF recv_auth_in_use, udp_polling_in_use, FreeFd
  <2> QED
    BY <1>4, <2>1, <2>2, CopyTaken DEF recv_auth_in_use, client_vars
<1>5. ASSUME NEW d \in net, recv_confirm(d)
      PROVE  NetOK' /\ LeakedPerCopy'
  <2>1. Coming' = Coming
    BY <1>5, SentNoAuth DEF recv_confirm
  <2> QED
    BY <1>5, <2>1, CopiesSame DEF recv_confirm, client_vars, process_msg_sock_udp
<1>6. ASSUME NEW d \in net, recv_nowhere(d)
      PROVE  NetOK' /\ LeakedPerCopy'
  <2>1. Coming' = Coming
    BY <1>6 DEF recv_nowhere
  <2> QED
    BY <1>6, <2>1, CopiesSame DEF recv_nowhere, client_vars, vars
<1>7. ASSUME NEW due \in SUBSET msg_out_buf, server_idle(due)
      PROVE  NetOK' /\ LeakedPerCopy'
  <2>1. Coming' = Coming
    BY <1>7, SentNoAuth DEF server_idle
  <2> QED
    BY <1>7, <2>1, CopiesSame DEF server_idle, poll_idle, client_vars
<1>8. CASE server_sweep
  <2>1. Coming' = Coming
    BY <1>8, SentNoAuth DEF server_sweep
  <2> QED
    BY <1>8, <2>1, CopiesSame, ServerSweep DEF server_sweep, client_vars
<1>9. ASSUME NEW d \in net, Lose(d)
      PROVE  NetOK' /\ LeakedPerCopy'
  <2>1. Coming' = Coming \ {d}
    BY <1>9 DEF Lose
  <2>2. losses' = losses + 1 /\ UNCHANGED <<tries, sessions, leaked>>
    BY <1>9 DEF Lose, client_vars, vars
  <2>3. CASE d \in Coming
    BY <2>1, <2>2, <2>3, CopyTaken
  <2>4. CASE d \notin Coming
    <3>1. Coming' = Coming
      BY <2>1, <2>4
    <3> HIDE DEF Coming
    <3>2. NetOK'
      BY <2>2, <3>1 DEF HInv, NetOK
    <3> QED
      BY <2>2, <3>1, <3>2, CopiesCounted, CopiesCountedNext DEF HInv, NetOK
  <2> QED
    BY <2>3, <2>4
<1>10. CASE UNCHANGED hvars
  BY <1>10, CopiesSame DEF hvars, vars
<1> QED
  BY <1>1, <1>2, <1>3, <1>4, <1>5, <1>6, <1>7, <1>8, <1>9, <1>10
  DEF HNext, Deliver

-----------------------------------------------------------------------------
(* The invariant holds in every reachable state *)

(* A step of the client or of the network leaves the server alone. *)
LEMMA ServerIdles ==
  ASSUME HInv, UNCHANGED vars
  PROVE  Inv' /\ StepOK /\ OnlyThisClient'
BY StutterInv DEF HInv, OnlyThisClient, vars

(* Every step of the client, the server and the network keeps HInv, and    *)
(* does to the clients and their sessions what ChatServer may.             *)
LEMMA HNextInv ==
  ASSUME HInv, [HNext]_hvars
  PROVE  HInv' /\ StepOK
<1>1. Inv' /\ StepOK /\ OnlyThisClient'
  <2>1. CASE client_send_auth
    BY <2>1, ServerIdles DEF client_send_auth
  <2>2. CASE Deliver
    BY <2>2, ServerIdles, RecvAuth, RecvAuthInUse, RecvConfirm
    DEF Deliver, client_recv, recv_nowhere
  <2>3. CASE \E due \in SUBSET msg_out_buf : server_idle(due)
    BY <2>3, ServerIdle
  <2>4. CASE server_sweep
    BY <2>4, ServerSweep
  <2>5. CASE \E d \in net : Lose(d)
    BY <2>5, ServerIdles DEF Lose
  <2>6. CASE UNCHANGED hvars
    BY <2>6, ServerIdles DEF hvars
  <2> QED
    BY <2>1, <2>2, <2>3, <2>4, <2>5, <2>6 DEF HNext
<1>2. NetOK' /\ LeakedPerCopy'
  <2>1. CASE HNext
    BY <1>1, <2>1, HNextNet
  <2>2. CASE UNCHANGED hvars
    BY <2>2, CopiesSame DEF hvars, vars, Coming
  <2> QED
    BY <2>1, <2>2
<1> QED
  BY <1>1, <1>2 DEF HInv

(* HInv holds before the client has sent anything. *)
LEMMA HInitInv ==
  ASSUME HInit
  PROVE  HInv
<1>1. Inv /\ OnlyThisClient
  BY InitInv DEF HInit, Init, OnlyThisClient
<1>2. /\ Coming = {} /\ leaked = {}
      /\ tries = 0 /\ sessions = 0 /\ losses = 0
  BY DEF HInit, Init, Coming
<1>3. NetOK
  BY <1>2, FS_EmptySet DEF NetOK
<1>4. LeakedPerCopy
  BY <1>2, <1>3, FS_EmptySet, CopiesCounted
<1> QED
  BY <1>1, <1>3, <1>4 DEF HInv

(* HInv holds in every reachable state, whatever is lost, delayed or       *)
(* reordered, for every number of retransmissions on either side.          *)
THEOREM HandshakeInvariance == HSpec => []HInv
<1>1. HInv /\ [HNext]_hvars => HInv'
  BY HNextInv
<1> QED
  BY <1>1, HInitInv, PTL DEF HSpec

(* However many copies of AUTH arrive, and however late, the address of    *)
(* the client has one client at most (udp_polling, get_client_by_addr).    *)
THEOREM OneClient == HSpec => []OneClientPerAddress
<1>1. HInv => OneClientPerAddress
  BY DEF HInv, OnlyThisClient, OneClientPerAddress
<1> QED
  BY <1>1, HandshakeInvariance, PTL

(* Each copy of AUTH that finds the client there leaves a descriptor open  *)
(* for ever, and nothing else does (udp_polling).                          *)
THEOREM CopiesLeak == HSpec => []LeakedPerCopy
BY HandshakeInvariance, PTL DEF HInv

(* The server's own invariants hold against this client and network too,   *)
(* and its sessions still go through their phases in order: the server of  *)
(* Handshake implements Session (udp_polling, process_msg, udp_timeout).   *)
THEOREM HandshakeSessions == HSpec => []Inv /\ ImplementsSession
<1>1. HInit => Sessions!Init
  <2> SUFFICES ASSUME HInit PROVE Sessions!Init
    OBVIOUS
  <2>1. DOMAIN clients = {} /\ stop_flag = FALSE
    BY DEF HInit, Init
  <2> QED
    BY <2>1, SessionIs DEF Sessions!Init, Sessions!Free, NoSession
<1>2. HInv /\ [HNext]_hvars => [Sessions!Next]_(Sessions!svars)
  BY HNextInv DEF StepOK, SessionStep
<1>3. HInv => Inv
  BY DEF HInv
<1> QED
  BY <1>1, <1>2, <1>3, HandshakeInvariance, PTL
  DEF HSpec, ImplementsSession, Sessions!Spec
=============================================================================
