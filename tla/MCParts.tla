------------------------------ MODULE MCParts -------------------------------
(***************************************************************************)
(* The parts of the program that keep state of their own, in one run: the  *)
(* outgoing queue (TxQueue), the CONF lines (ConfFeed) and the RF log      *)
(* (RfLog).  They share no state; one part moves in each behaviour.        *)
(***************************************************************************)
EXTENDS TxQueue, ConfFeed, RfLog

VARIABLE part

partVars == <<part, vars, confVars, logVars>>

PartInit ==
    /\ part \in {"queue", "conf", "log"}
    /\ Init /\ ConfInit /\ LogInit
    /\ part # "queue" => now = 1 /\ ~tx_busy

PartNext ==
    \/ part = "queue" /\ Next /\ UNCHANGED <<part, confVars, logVars>>
    \/ part = "conf" /\ ConfNext /\ UNCHANGED <<part, vars, logVars>>
    \/ part = "log" /\ LogNext /\ UNCHANGED <<part, vars, confVars>>

PartSpec == PartInit /\ [][PartNext]_partVars

-----------------------------------------------------------------------------
(* A ring of three slots of which two are used, so that it wraps at a      *)
(* place that is not the limit.                                            *)
MCLengths == {0, 1, 2}
MCClock == 1..6
=============================================================================
