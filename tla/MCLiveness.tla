----------------------------- MODULE MCLiveness -----------------------------
(***************************************************************************)
(* Progress of the event loop.  The peers send at most MaxInputs inputs;   *)
(* what has to happen then, happens by the server's own steps.             *)
(***************************************************************************)
EXTENDS ChatServer

CONSTANT MaxInputs    \* bound: inputs of the peers

VARIABLE inputs       \* inputs the peers have sent

lvars == <<vars, inputs>>

LiveInit == Init /\ inputs = 0

LiveNext ==
  \/ Input /\ Room' /\ inputs < MaxInputs /\ inputs' = inputs + 1
  \/ /\ Idle \/ Sweep \/ stop \/ sigint_handler \/ sigint_default \/ Gone
     /\ UNCHANGED inputs

(* A message for socket f falls due in an idle round. *)
Due(f) ==
  /\ \E due \in SUBSET msg_out_buf :
       (\E m \in due : m.sockfd = f) /\ poll_idle(due)
  /\ UNCHANGED inputs

(* poll() times out again and again; while a socket has messages in the    *)
(* buffer, time and again one of them falls due in such a round (the       *)
(* 16-bit countdown passes 0 once in 65536 rounds at the latest: UdpTimer);*)
(* and the sweep runs to its end.                                          *)
Fairness ==
  /\ SF_lvars((Idle \/ stop) /\ UNCHANGED inputs)
  /\ \A f \in Fd \cup {Welcome} : SF_lvars(Due(f))
  /\ WF_lvars(Sweep /\ UNCHANGED inputs)

LiveSpec == LiveInit /\ [][LiveNext]_lvars /\ Fairness

-----------------------------------------------------------------------------
Pending(f) == \E m \in msg_out_buf : m.sockfd = f

(* A message buffered for a client does not stay for ever: it is confirmed,*)
(* or its retransmissions run out, the client is closed, and the messages  *)
(* are erased with its record (udp_timeout, close_client, delete_client).  *)
(* (Or the process is gone.)                                               *)
PendingResolves ==
  \A f \in Fd : (f \in DOMAIN clients /\ Pending(f)) ~>
                  (~(f \in DOMAIN clients /\ Pending(f)) \/ ~Running)

(* After SIGINT the process ends, unless a message is buffered that        *)
(* belongs to no client (sigint_handler, udp_timeout, main).               *)
StopsUnlessOrphaned == stop_flag ~> (~Running \/ Orphans # {})

-----------------------------------------------------------------------------
(* What the repository says of the program, and the code does not do *)

(* main.c, close_client: "If udp -> client will be deleted when confirm    *)
(* will arrive"; a UDP client that has ended is deleted some time.         *)
EndedIsDeleted ==
  \A f \in Fd : (f \in DOMAIN clients /\ clients[f].state = "s_en") ~>
                  (f \notin DOMAIN clients \/ ~Running)
=============================================================================
