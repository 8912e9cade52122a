---------------------------- MODULE MCTcpStream ----------------------------
(* A client that authorizes and chats, with a text that reads as a command *)
(* of its own, and clients that skip AUTH, repeat it or send what only the *)
(* server may.                                                             *)
EXTENDS TcpStream

MC_Scripts ==
  {<<Line("AUTH"), Msg("hello"), Msg("BYE"), Line("BYE")>>,
   <<Line("AUTH"), Line("JOIN"), Line("AUTH"), Line("BYE"), Msg("hello")>>,
   <<Line("AUTH"), Line("ERR"), Line("REPLY"), Msg("BYE")>>,
   <<Msg("BYE"), Line("AUTH")>>}
=============================================================================
