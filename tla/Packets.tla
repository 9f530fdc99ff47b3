------------------------------ MODULE Packets -------------------------------
(***************************************************************************)
(* The packet conversions on every bounded input, put together piece by    *)
(* piece: a packet heard on the air, a line of text, or a frame from the   *)
(* client.  What is said about the conversions holds of each of them.      *)
(***************************************************************************)
EXTENDS Aprs

CONSTANTS
    HeardPieces, LinePieces, InfoPieces,   \* pieces of text
    LineStarts,                            \* how a line may begin
    GivenGroups,                           \* address groups of client frames
    MaxPieces                              \* bound: pieces per kind of input

ASSUME PiecesAssumption ==
    /\ HeardPieces \cup LinePieces \cup InfoPieces \cup LineStarts \subseteq Seq(Tokens)
    /\ GivenGroups \subseteq Groups

VARIABLES
    input,        \* "heard", "line" or "frame"
    text,         \* the packet or the line
    raw,          \* the frame
    pieces        \* pieces added

pktVars == <<input, text, raw, pieces>>

NoFrame == [addrs |-> <<>>, control |-> "ui", info |-> <<>>]

PktInit ==
    /\ \/ input = "heard" /\ text = <<>>
       \/ input = "line" /\ text \in LineStarts
       \/ input = "frame" /\ text = <<>>
    /\ raw = NoFrame /\ pieces = 0

More(kind) == input = kind /\ pieces < MaxPieces[kind]

AddHeard(p) ==
    /\ More("heard")
    /\ text' = text \o p /\ pieces' = pieces + 1
    /\ UNCHANGED <<input, raw>>

AddToLine(p) ==
    /\ More("line")
    /\ text' = text \o p /\ pieces' = pieces + 1
    /\ UNCHANGED <<input, raw>>

(* One group more than the decoder takes is possible. *)
AddGroup(g) ==
    /\ input = "frame" /\ Len(raw.addrs) <= MaxAddrs
    /\ raw.addrs # <<>> => ~Last(raw.addrs).last
    /\ raw' = [raw EXCEPT !.addrs = Append(@, g)]
    /\ UNCHANGED <<input, text, pieces>>

AddInfo(p) ==
    /\ More("frame")
    /\ raw.addrs # <<>> /\ Last(raw.addrs).last
    /\ raw.control = "ui"
    /\ raw' = [raw EXCEPT !.info = @ \o p]
    /\ pieces' = pieces + 1
    /\ UNCHANGED <<input, text>>

OtherControl(c) ==
    /\ input = "frame" /\ raw.addrs # <<>> /\ raw.control = "ui" /\ raw.info = <<>>
    /\ raw' = [raw EXCEPT !.control = c]
    /\ UNCHANGED <<input, text, pieces>>

PktNext ==
    \/ \E p \in HeardPieces : AddHeard(p)
    \/ \E p \in LinePieces : AddToLine(p)
    \/ \E g \in GivenGroups : AddGroup(g)
    \/ \E p \in InfoPieces : AddInfo(p)
    \/ \E c \in {"other", "short"} : OtherControl(c)

PktSpec == PktInit /\ [][PktNext]_pktVars

-----------------------------------------------------------------------------
(* Whatever is heard, the byte-wise scan of loraham_extract_tnc2 finds     *)
(* exactly the texts between a header and the next header, line end or end *)
(* of the packet, also after false starts of a header, until a text is too *)
(* long for its buffer.                                                    *)
ExtractsTexts == input = "heard" => Extract(text) = TextsOf(text)

(* A line another station wrote, with lower case, "-0", a mark on the      *)
(* destination or a comma too many, is read once and for all: what         *)
(* tnc2_parse_line makes of it can be written and encoded, and reads back  *)
(* as the same frame, whose destination and source carry no '*'.           *)
NormalForm ==
    input = "line" /\ Parsable(text) =>
        \A f \in {ParseLine(text)} : \A line \in {FormatLine(f)} :
            /\ Encodable(f) /\ DecodeUi(EncodeUi(f)) = f
            /\ ~f.dst.repeated /\ ~f.src.repeated
            /\ Formattable(f) /\ Parsable(line)
            /\ ParseLine(line) = [f EXCEPT !.payload = OneLine(@)]

(* What a client sends arrives at the client of another bridge: one frame  *)
(* with the same addresses, marks and text, in the normal form of a        *)
(* command.  Only header bytes within the text cut it there.  On the air   *)
(* source and destination are not marked: every '*' stands behind the      *)
(* comma of the path or the colon of the text.                             *)
EndToEnd ==
    input = "frame" =>
        \A packet \in ClientToAir(raw) : \A heard \in {AirToClient(packet)} :
            LET sent == Normalised(raw)
                cut == Min({i \in DOMAIN sent.info : HeaderAt(sent.info, i)}
                           \cup {Len(sent.info) + 1})
            IN  /\ heard # <<>>
                /\ heard[1] = [sent EXCEPT !.info = SubSeq(@, 1, cut - 1)]
                /\ ~HasHeader(sent.info) => Len(heard) = 1
                /\ \A i \in DOMAIN packet :
                       packet[i] = "*" => \E j \in 1..(i - 1) : packet[j] \in {Comma, ":"}
=============================================================================
