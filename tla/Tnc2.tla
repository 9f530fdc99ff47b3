-------------------------------- MODULE Tnc2 --------------------------------
(***************************************************************************)
(* The TNC2 codec (tnc2.c) and the address text of ax25.c: one line of     *)
(* text SRC>DST,PATH:PAYLOAD for one frame.  A text is a sequence of       *)
(* tokens: a call sign of six characters, an SSID with its dash, or one    *)
(* character.  Call signs of six characters make two in a row too long for *)
(* one.  Lengths count tokens.                                             *)
(***************************************************************************)
EXTENDS Ax25, SequencesExt

CONSTANTS
    Upper,          \* toupper on call signs
    SsidText,       \* SSID tokens and the numbers they stand for
    Tokens,         \* what a text may hold
    MaxText         \* LHKT_TNC2_MAX_LINE

ASSUME UpperAssumption ==
    Upper \in [Calls -> Calls] /\ \A c \in Calls : Upper[Upper[c]] = Upper[c]
ASSUME MaxTextAssumption == MaxText \in Nat \ {0}

EOL == {"CR", "LF"}

Comma == ","

Space == " "

(* The single characters that mean something to the program; the last      *)
(* three are the header of a packet.                                       *)
Signs == EOL \cup {">", Comma, ":", "*", Space, "NUL", "H0", "H1", "H2"}

ASSUME TokensAssumption ==
    /\ Calls \cup DOMAIN SsidText \cup Signs \subseteq Tokens
    /\ Calls \cap (DOMAIN SsidText \cup Signs) = {}
    /\ DOMAIN SsidText \cap Signs = {}
ASSUME SsidTextAssumption ==
    /\ SsidText \in [DOMAIN SsidText -> Nat]
    /\ \A n \in 0..15 : \E s \in DOMAIN SsidText : SsidText[s] = n

(* The first token of the set S in t, 0 if there is none. *)
FirstOf(t, S) == SelectInSeq(t, LAMBDA c : c \in S)

-----------------------------------------------------------------------------
(* ax25_addr_parse: a call sign, an SSID of at most 15 and '*', the last   *)
(* two optional; anything else is an error.                                *)
IsAddr(t) ==
    /\ t # <<>> /\ t[1] \in Calls
    /\ \/ Len(t) = 1
       \/ Len(t) = 2 /\ (t[2] = "*" \/ t[2] \in DOMAIN SsidText)
       \/ Len(t) = 3 /\ t[2] \in DOMAIN SsidText /\ t[3] = "*"
    /\ Len(t) > 1 /\ t[2] \in DOMAIN SsidText => SsidText[t[2]] <= 15

AddrParse(t) ==
    [call |-> Upper[t[1]],
     ssid |-> IF Len(t) > 1 /\ t[2] # "*" THEN SsidText[t[2]] ELSE 0,
     repeated |-> Last(t) = "*"]

(* ax25_addr_format: SSID 0 is left out. *)
AddrFormat(a) ==
    <<a.call>>
    \o (IF a.ssid = 0 THEN <<>>
        ELSE <<CHOOSE s \in DOMAIN SsidText : SsidText[s] = a.ssid>>)
    \o (IF a.repeated THEN <<"*">> ELSE <<>>)

(* Slip: the mark is kept. *)
MarkKept(a) == a

(* Destination and source are never marked as repeated, neither when they  *)
(* are read (tnc2_parse_path, tnc2_parse_line) nor when they are written   *)
(* (tnc2_format_station).                                                  *)
Unmarked(a) == [a EXCEPT !.repeated = FALSE]

ParseStation(t) == Unmarked(AddrParse(t))

FormatStation(a) == AddrFormat(Unmarked(a))

-----------------------------------------------------------------------------
(* The parts of t between its commas: each ends before a comma or at the   *)
(* end, and begins behind the comma before.                                *)
PartTo(t, k) == SubSeq(t, Max({0} \cup {j \in 1..(k - 1) : t[j] = Comma}) + 1, k - 1)

Parts(t) ==
    FlattenSeq([k \in 1..(Len(t) + 1) |->
        IF k = Len(t) + 1 \/ t[k] = Comma THEN <<PartTo(t, k)>> ELSE <<>>])

(* tnc2_parse_path: the addresses of the list.  A comma after the last     *)
(* path address is accepted, one after the destination is not.             *)
PathParts(t) ==
    LET p == Parts(t) IN IF Len(p) > 2 /\ Last(p) = <<>> THEN Front(p) ELSE p

IsPath(t) ==
    /\ \A i \in DOMAIN PathParts(t) : IsAddr(PathParts(t)[i])
    /\ Len(PathParts(t)) <= 1 + MaxRepeaters

(* strlen, and tnc2_strip_eol on the copy. *)
CString(t) == IF FirstOf(t, {"NUL"}) = 0 THEN t ELSE SubSeq(t, 1, FirstOf(t, {"NUL"}) - 1)

StripEol(t) == SubSeq(t, 1, SelectLastInSeq(t, LAMBDA c : c \notin EOL))

(* tnc2_parse_line: source up to the first '>', addresses up to the first  *)
(* ':' after it, payload up to the end.                                    *)
Split(line) ==
    LET t == StripEol(CString(line))
        gt == FirstOf(t, {">"})
        rest == SubSeq(t, gt + 1, Len(t))
        sep == FirstOf(rest, {":"})
    IN  [ok |-> gt > 0 /\ sep > 0, src |-> SubSeq(t, 1, gt - 1),
         addrs |-> SubSeq(rest, 1, sep - 1), payload |-> SubSeq(rest, sep + 1, Len(rest))]

Parsable(line) ==
    LET s == Split(line)
    IN  /\ Len(CString(line)) < MaxText
        /\ s.ok /\ IsAddr(s.src) /\ IsPath(s.addrs)
        /\ Len(s.payload) <= MaxInfo

PathOf(p) == [i \in 1..(Len(p) - 1) |-> AddrParse(p[i + 1])]

ParseLine(line) ==
    LET s == Split(line)
        p == PathParts(s.addrs)
    IN  [dst |-> ParseStation(p[1]), src |-> ParseStation(s.src),
         path |-> PathOf(p), payload |-> s.payload]

-----------------------------------------------------------------------------
(* tnc2_format_line: CR and LF become spaces. *)
OneLine(t) == [i \in DOMAIN t |-> IF t[i] \in EOL THEN Space ELSE t[i]]

FormatLine(f) ==
    FormatStation(f.src) \o <<">">> \o FormatStation(f.dst)
    \o FlattenSeq([i \in DOMAIN f.path |-> <<Comma>> \o AddrFormat(f.path[i])])
    \o <<":">> \o OneLine(f.payload)

Formattable(f) ==
    /\ Len(f.path) <= MaxRepeaters
    /\ Len(f.payload) <= MaxInfo /\ ~Contains(f.payload, "NUL")
    /\ Len(FormatLine(f)) < MaxText
=============================================================================
