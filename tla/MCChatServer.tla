---------------------------- MODULE MCChatServer ----------------------------
(* The event loop on a small set of descriptors, addresses and channels.   *)
EXTENDS ChatServer, TLC

Perms == Permutations(Fd) \cup Permutations(Addr)
=============================================================================
