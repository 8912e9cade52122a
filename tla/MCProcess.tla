------------------------------ MODULE MCProcess ------------------------------
(* The process with two UDP clients, and command lines that exercise the   *)
(* widths, a missing value and a help request that is not reached.         *)
EXTENDS Process, TLC

Perms == Permutations(Fd)

MC_atoi == [s \in {"259", "-h"} |-> IF s = "259" THEN 259 ELSE 0]
MC_CommandLines == {<<>>, <<"-h">>, <<"-r", "259">>, <<"-r">>, <<"-x", "-h">>}
=============================================================================
