----------------------------- MODULE MCPollList -----------------------------
(* The poll list for four descriptors and an array that is grown once.     *)
EXTENDS PollList
=============================================================================
