----------------------------- MODULE TcpStream -----------------------------
(***************************************************************************)
(* One TCP client from its socket to execute_msg: server_read_sock,        *)
(* read_msg and the loop of process_msg_sock (src/src/main.c), parse_tcp   *)
(* (src/src/parse.c).  TCP delivers a stream, in portions of any size; one *)
(* recv takes what is there, and the parser takes it for one message.  A   *)
(* message is a sequence of tokens, the pieces between which the stream    *)
(* can be cut.                                                             *)
(***************************************************************************)
EXTENDS Integers, Sequences, SequencesExt

CONSTANTS
  Word,         \* tokens for the text of a chat message
  Scripts,      \* what the client may write: sequences of messages
  CAPACITY      \* tokens in a buffer of STRING_MAX_LENGTH

VARIABLES
  script,       \* messages the client writes
  written,      \* how many of them it has written
  wire,         \* tokens written that have not arrived
  socket,       \* tokens that arrived and were not read
  fin,          \* the client closed its side: "no", "sent", "arrived"
  state,        \* state of the client, "gone" when it is deleted
  executed,     \* chunks handed to process_msg as messages
  err           \* ERR was sent

vars == <<script, written, wire, socket, fin, state, executed, err>>

EOL == <<"cr", "lf">>
Line(token) == <<token>> \o EOL
Msg(w) == <<"MSG", w>> \o EOL

(* The texts of each type of message. *)
Texts == [e_auth |-> {Line("AUTH")}, e_join |-> {Line("JOIN")},
          e_err |-> {Line("ERR")}, e_reply |-> {Line("REPLY")},
          e_bye |-> {Line("BYE")}, e_msg |-> {Msg(w) : w \in Word}]

Message == UNION {Texts[type] : type \in DOMAIN Texts}

ASSUME StreamAssumption ==
  /\ CAPACITY \in Nat
  /\ Scripts \subseteq Seq(Message)
  /\ \A text \in Message : Len(text) < CAPACITY

-----------------------------------------------------------------------------
(* The client and the connection *)

Write ==
  /\ fin = "no" /\ written < Len(script)
  /\ written' = written + 1
  /\ wire' = wire \o script[written']
  /\ UNCHANGED <<script, socket, fin, state, executed, err>>

Shutdown ==
  /\ fin = "no"
  /\ fin' = "sent"
  /\ UNCHANGED <<script, written, wire, socket, state, executed, err>>

Arrive(n) ==
  /\ socket' = socket \o SubSeq(wire, 1, n)
  /\ wire' = SubSeq(wire, n + 1, Len(wire))
  /\ UNCHANGED <<script, written, fin, state, executed, err>>

ArriveFin ==
  /\ fin = "sent" /\ wire = <<>>
  /\ fin' = "arrived"
  /\ UNCHANGED <<script, written, wire, socket, state, executed, err>>

-----------------------------------------------------------------------------
(* The server *)

(* The regular expressions, from ^ to $: the buffer is one message and     *)
(* nothing else, since no field of a message matches an end of line.       *)
parse_tcpFirst(buf) ==
  LET types == {type \in DOMAIN Texts : \E text \in Texts[type] : IsPrefix(text, buf)}
  IN  IF types = {} THEN "error" ELSE CHOOSE type \in types : TRUE
parse_tcp(buf) ==
  LET types == {type \in DOMAIN Texts : buf \in Texts[type]}
  IN  IF types = {} THEN "error" ELSE CHOOSE type \in types : TRUE

(* check_state_transition and execute_msg: REPLY, and whatever comes       *)
(* before AUTH, is answered with ERR and ends the session; a TCP client    *)
(* that is closed is deleted.                                              *)
Forbidden(type) == type = "e_reply" \/ (state = "s_ac" /\ type # "e_auth")

process_msgStrict(type) ==
  /\ state' = IF type = "e_auth" /\ state = "s_ac" THEN "s_op" ELSE "gone"
  /\ err' = (err \/ Forbidden(type))
process_msg(type) ==
  /\ state' = CASE type = "e_bye" \/ Forbidden(type) -> "gone"
                [] type = "e_auth" -> "s_op"
                [] OTHER -> state
  /\ err' = (err \/ Forbidden(type))

(* server_read_sock: recv takes what is there, up to the buffer's size. *)
Portion == IF Len(socket) < CAPACITY THEN Len(socket) ELSE CAPACITY

read_msgKeeping ==
  /\ state # "gone" /\ socket # <<>>
  /\ LET buf == SubSeq(socket, 1, Portion)
     IN  IF parse_tcp(buf) = "error"
         THEN err' = TRUE /\ UNCHANGED <<socket, state, executed>>
         ELSE /\ socket' = SubSeq(socket, Portion + 1, Len(socket))
              /\ executed' = Append(executed, buf)
              /\ process_msg(parse_tcp(buf))
  /\ UNCHANGED <<script, written, wire, fin>>
read_msg ==
  /\ state # "gone" /\ socket # <<>>
  /\ socket' = SubSeq(socket, Portion + 1, Len(socket))
  /\ LET buf == SubSeq(socket, 1, Portion)
     IN  IF parse_tcp(buf) = "error"
         THEN err' = TRUE /\ UNCHANGED <<state, executed>>
         ELSE /\ executed' = Append(executed, buf)
              /\ process_msg(parse_tcp(buf))
  /\ UNCHANGED <<script, written, wire, fin>>

(* recv returns 0: the client closed its side. *)
read_msg_finIgnored ==
  /\ state # "gone" /\ socket = <<>> /\ fin = "arrived"
  /\ UNCHANGED vars
read_msg_fin ==
  /\ state # "gone" /\ socket = <<>> /\ fin = "arrived"
  /\ state' = "gone"
  /\ UNCHANGED <<script, written, wire, socket, fin, executed, err>>

Init ==
  /\ script \in Scripts
  /\ written = 0
  /\ wire = <<>>
  /\ socket = <<>>
  /\ fin = "no"
  /\ state = "s_ac"
  /\ executed = <<>>
  /\ err = FALSE

Delivery == (\E n \in 1..Len(wire) : Arrive(n)) \/ ArriveFin
Polled == read_msg \/ read_msg_fin

Next ==
  \/ Write \/ Shutdown \/ Delivery \/ Polled
  \/ wire = <<>> /\ state = "gone" /\ UNCHANGED vars

(* TCP delivers in the end, and a readable socket is polled and read.  The *)
(* client may stop anywhere.                                               *)
Spec == Init /\ [][Next]_vars /\ WF_vars(Delivery) /\ WF_vars(Polled)

-----------------------------------------------------------------------------
Stream(msgs) == FlattenSeq(msgs)

(* Unless it was told ERR, a client loses nothing to the missing framing,  *)
(* however the stream was cut: what was executed, and what is still        *)
(* unread, is what it wrote, message by message (read_msg, parse_tcp).     *)
NothingLostSilently ==
  ~err => /\ IsPrefix(executed, script)
          /\ Stream(executed) \o socket \o wire = Stream(SubSeq(script, 1, written))

(* Unless it was told ERR, a client is dismissed only after its BYE or, by *)
(* its FIN, after everything it wrote was executed (read_msg).             *)
DismissedAsAsked ==
  state = "gone" /\ ~err =>
    \/ executed # <<>> /\ Last(executed) = Line("BYE")
    \/ fin = "arrived" /\ Len(executed) = written

(* A client that closes its side is deleted, whatever it left unread.      *)
FinIsNoticed == fin = "sent" ~> state = "gone"

(* Everything a client wrote is read in the end, unless it is gone: an ERR *)
(* in the middle of the loop leaves nothing behind for good.               *)
EverythingRead == []<>(wire \o socket = <<>> \/ state = "gone")
=============================================================================
