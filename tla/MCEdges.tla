------------------------------ MODULE MCEdges -------------------------------
(***************************************************************************)
(* The edges of the program, in one run: the bytes of a KISS client        *)
(* (KissLink), the packets to and from the air (Packets) and what the      *)
(* operator gives it (Startup).  They share no state; one part moves in    *)
(* each behaviour.                                                         *)
(***************************************************************************)
EXTENDS KissLink, Packets, MCStartup

VARIABLE part

edgeVars == <<part, vars, pktVars, startVars>>

EdgeInit ==
    /\ part \in {"kiss", "packets", "startup"}
    /\ Init /\ PktInit /\ StartInit
    /\ part # "packets" => input = "heard"
    /\ part # "startup" => ~with_file

EdgeNext ==
    \/ part = "kiss" /\ Next /\ UNCHANGED <<part, pktVars, startVars>>
    \/ part = "packets" /\ PktNext /\ UNCHANGED <<part, vars, startVars>>
    \/ part = "startup" /\ StartNext /\ UNCHANGED <<part, vars, pktVars>>

EdgeSpec == EdgeInit /\ [][EdgeNext]_edgeVars

-----------------------------------------------------------------------------
(* Every payload of at most two of the interesting bytes. *)
MCPayloads == UNION {[1..n -> {0, FEND, FESC, TFEND, TFESC}] : n \in 0..2}

(* One call sign in both cases and SSIDs with one out of range. *)
MCUpper == [c \in {"A", "a"} |-> "A"]
MCSsidText == [s \in {"-" \o ToString(n) : n \in 0..16} |->
                  CHOOSE n \in 0..16 : s = "-" \o ToString(n)]
MCTokens == {"A", "a", "!"} \cup DOMAIN MCSsidText \cup Signs

Run(n) == [i \in 1..n |-> "!"]

(* Whole and broken headers, line ends, and text up to the buffer's end. *)
MCHeard == {Hdr, <<"H0">>, <<"H1">>, <<"H2">>, <<"CR">>, <<"!">>, Run(11)}

MCLine ==
    {<<"A">>, <<"a", "-1">>, <<"A", "-0">>, <<"A", "-16">>, <<"*">>, <<">">>, <<",">>,
     <<":">>, <<"!">>, <<"CR">>, <<"NUL">>}

MCLineStarts == {<<>>, <<"A", ">", "A", ",">>}

MCInfo ==
    {<<"!">>, <<"LF">>, <<"NUL">>, <<"H0">>, <<"H0", "H1">>, <<"H2">>, <<":">>,
     <<",", "A">>, Run(3)}

MCGroups ==
    {[call |-> a[1], ssid |-> a[2], bit7 |-> b, last |-> l] :
        a \in {<<"A", 0>>, <<"a", 1>>}, b \in BOOLEAN, l \in BOOLEAN}
    \cup {[call |-> "?", ssid |-> 0, bit7 |-> FALSE, last |-> FALSE]}

MCMaxPieces == [heard |-> 6, line |-> 5, frame |-> 2]
=============================================================================
