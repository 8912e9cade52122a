------------------------------- MODULE Session -------------------------------
(***************************************************************************)
(* What the server promises about the sessions of its clients, one per     *)
(* descriptor: accepted, then open, then ended, in this order and each     *)
(* time anew.  A UDP session is kept while it is ended, because messages   *)
(* of it wait for a CONFIRM; a TCP session is free the moment it ends.     *)
(* Whatever one client does may cost other TCP clients their session, when *)
(* a message to them cannot be sent, but never a UDP client.  Once the     *)
(* server is stopping no session opens.                                    *)
(***************************************************************************)
CONSTANT Fd     \* descriptors for clients

VARIABLES
  session,      \* the session of each descriptor
  stopping      \* the server is stopping

svars == <<session, stopping>>

Phase == {"accepted", "open", "ended"}

Free == [protocol |-> "none", phase |-> "free"]
In(protocol, phase) == [protocol |-> protocol, phase |-> phase]
Closed(protocol) == IF protocol = "e_tcp" THEN Free ELSE In(protocol, "ended")

Active(f) == session[f].phase \in {"accepted", "open"}
MayOpen(phase) == phase = "open" => ~stopping

(* Session f becomes s, and the TCP sessions in lost are lost on the way. *)
Move(f, s, lost) ==
  /\ session' = [g \in Fd |-> IF g = f THEN s
                              ELSE IF g \in lost THEN Free ELSE session[g]]
  /\ UNCHANGED stopping

Tcp == {f \in Fd : session[f].protocol = "e_tcp"}

-----------------------------------------------------------------------------
(* A TCP connection is accepted. *)
Accept(f) ==
  /\ session[f] = Free
  /\ Move(f, In("e_tcp", "accepted"), {})

(* The first datagram of a UDP client, which can already open or end it. *)
Arrive(f, phase, lost) ==
  /\ session[f] = Free
  /\ MayOpen(phase)
  /\ Move(f, In("e_udp", phase), lost)

Authorize(f, lost) ==
  /\ session[f].phase = "accepted"
  /\ MayOpen("open")
  /\ Move(f, In(session[f].protocol, "open"), lost)

Close(f, lost) ==
  /\ Active(f)
  /\ Move(f, Closed(session[f].protocol), lost)

(* A message that changes nothing for its sender. *)
Speak(f, lost) ==
  /\ session[f] # Free
  /\ Move(f, session[f], lost)

Delete(f) ==
  /\ session[f].phase = "ended"
  /\ Move(f, Free, {})

Stop ==
  /\ stopping' = TRUE
  /\ session' = [f \in Fd |-> IF Active(f) THEN Closed(session[f].protocol)
                              ELSE session[f]]

Init ==
  /\ session = [f \in Fd |-> Free]
  /\ stopping = FALSE

Next ==
  \/ Stop
  \/ \E f \in Fd :
       \/ Accept(f)
       \/ Delete(f)
       \/ \E lost \in SUBSET Tcp :
            \/ \E phase \in Phase : Arrive(f, phase, lost)
            \/ Authorize(f, lost)
            \/ Close(f, lost)
            \/ Speak(f, lost)

Spec == Init /\ [][Next]_svars
=============================================================================
