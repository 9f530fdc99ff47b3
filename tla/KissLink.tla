------------------------------ MODULE KissLink ------------------------------
(***************************************************************************)
(* The KISS link to the client (kiss.c and its use in lhkt_bridge_run):    *)
(* the streaming decoder of what the client sends and the encoder of what  *)
(* it is sent.  A byte has its value; the client may send any bytes.       *)
(***************************************************************************)
EXTENDS Integers, FiniteSets, Sequences, SequencesExt

CONSTANTS
    MaxFrame,     \* LHKT_KISS_MAX_FRAME
    Bytes,        \* bytes the client may send
    Payloads,     \* AX.25 frames to encode
    MaxStream     \* bound: bytes per client

ASSUME SizesAssumption == MaxFrame \in Nat \ {0} /\ MaxStream \in Nat
ASSUME BytesAssumption == Bytes \subseteq 0..255
ASSUME PayloadsAssumption == Payloads \subseteq Seq(0..255)

VARIABLES
    dec,          \* kiss_dec
    frames,       \* data frames of port 0 handed on, since the client connected
    stream        \* history: bytes received from this client

vars == <<dec, frames, stream>>

FEND == 192
FESC == 219
TFEND == 220
TFESC == 221
CMD_DATA == 0

(* kiss_decoder_init, reset_frame and drop_frame. *)
Fresh == [in_frame |-> FALSE, escaped |-> FALSE, buf |-> <<>>]
FrameStart == [in_frame |-> TRUE, escaped |-> FALSE, buf |-> <<>>]
Dropped == Fresh

TypeOK ==
    /\ dec \in [in_frame : BOOLEAN, escaped : BOOLEAN, buf : Seq(0..255)]
    /\ Len(dec.buf) <= MaxFrame
    /\ frames \in Seq(Seq(0..255))
    /\ stream \in Seq(Bytes)

Init == dec = Fresh /\ frames = <<>> /\ stream = <<>>

-----------------------------------------------------------------------------
(* Slip: one byte more than the buffer holds. *)
StoreOffByOne(d, b) ==
    IF Len(d.buf) > MaxFrame THEN Dropped
    ELSE [d EXCEPT !.escaped = FALSE, !.buf = Append(@, b)]

(* The end of kiss_decode_byte: the byte is stored if there is room. *)
Store(d, b) ==
    IF Len(d.buf) >= MaxFrame THEN Dropped
    ELSE [d EXCEPT !.escaped = FALSE, !.buf = Append(@, b)]

(* Slip: an unknown escape is passed through. *)
UnescapeLenient(d, b) ==
    Store(d, IF b = TFEND THEN FEND ELSE IF b = TFESC THEN FESC ELSE b)

(* A byte after FESC; any but the two known ones makes the frame malformed. *)
Unescape(d, b) ==
    CASE b = TFEND -> Store(d, FEND)
      [] b = TFESC -> Store(d, FESC)
      [] OTHER -> Dropped

(* Slip: after a malformed frame FEND ends it instead of starting the next. *)
AfterFendDropped(d) == IF d.in_frame /\ d.escaped THEN Dropped ELSE FrameStart

(* FEND ends a frame and starts the next one, also after a dangling FESC. *)
AfterFend(d) == FrameStart

(* kiss_decode_byte: the decoder after byte b. *)
DecodeByte(d, b) ==
    CASE b = FEND -> AfterFend(d)
      [] b # FEND /\ ~d.in_frame -> d
      [] b # FEND /\ d.in_frame /\ d.escaped -> Unescape(d, b)
      [] b = FESC /\ d.in_frame /\ ~d.escaped -> [d EXCEPT !.escaped = TRUE]
      [] OTHER -> Store(d, b)

(* kiss_decode_byte returns 1: kiss_make_frame has a frame for the caller. *)
Completes(d, b) == b = FEND /\ d.in_frame /\ ~d.escaped /\ d.buf # <<>>

(* bridge_kiss_handle_frame: only data frames of port 0 go on. *)
Handled(d, b) ==
    IF Completes(d, b) /\ d.buf[1] % 16 = CMD_DATA /\ (d.buf[1] \div 16) = 0
    THEN <<Tail(d.buf)>> ELSE <<>>

Receive(b) ==
    /\ Len(stream) < MaxStream
    /\ stream' = Append(stream, b)
    /\ dec' = DecodeByte(dec, b)
    /\ frames' = frames \o Handled(dec, b)

(* The client is gone and another one may come: kiss_decoder_init. *)
ClientChange ==
    /\ dec' = Fresh
    /\ frames' = <<>>
    /\ stream' = <<>>

Next == (\E b \in Bytes : Receive(b)) \/ ClientChange

Spec == Init /\ [][Next]_vars

-----------------------------------------------------------------------------
(* kiss_put_escaped *)
Escaped(b) ==
    CASE b = FEND -> <<FESC, TFEND>>
      [] b = FESC -> <<FESC, TFESC>>
      [] OTHER -> <<b>>

NoSpace == [ok |-> FALSE, out |-> <<>>]

Put(e, b, out_size) ==
    IF ~e.ok \/ Len(e.out) + Len(Escaped(b)) > out_size THEN NoSpace
    ELSE [ok |-> TRUE, out |-> e.out \o Escaped(b)]

(* Slip: the last FEND is not counted. *)
CloseFrameUnchecked(e, out_size) ==
    IF ~e.ok THEN NoSpace ELSE [ok |-> TRUE, out |-> Append(e.out, FEND)]

CloseFrame(e, out_size) ==
    IF ~e.ok \/ Len(e.out) + 1 > out_size THEN NoSpace
    ELSE [ok |-> TRUE, out |-> Append(e.out, FEND)]

(* kiss_encode_data_frame into a buffer of out_size bytes. *)
Encode(data, out_size) ==
    IF out_size < 3 THEN NoSpace
    ELSE CloseFrame(FoldLeft(LAMBDA e, b : Put(e, b, out_size),
                             [ok |-> TRUE, out |-> <<FEND>>], <<CMD_DATA>> \o data),
                    out_size)

-----------------------------------------------------------------------------
(* The stretch of stream s before place k starts after the last FEND. *)
Begin(s, k) == Max({0} \union {j \in 1..(k - 1) : s[j] = FEND}) + 1

StretchTo(s, k) == SubSeq(s, Begin(s, k), k - 1)

(* A stretch is well-formed if FESC only occurs in the two known pairs. *)
Second(s, i) == s[i] \in {TFEND, TFESC} /\ i > 1 /\ s[i - 1] = FESC

WellFormed(s) == \A i \in DOMAIN s : s[i] = FESC => i < Len(s) /\ Second(s, i + 1)

(* What a well-formed stretch stands for. *)
Plain(s) ==
    LET byte(i) == CASE Second(s, i) /\ s[i] = TFEND -> <<FEND>>
                     [] Second(s, i) /\ s[i] = TFESC -> <<FESC>>
                     [] s[i] = FESC -> <<>>
                     [] OTHER -> <<s[i]>>
    IN  FlattenSeq([i \in DOMAIN s |-> byte(i)])

IsDataFrame(s) ==
    WellFormed(s) /\ Len(Plain(s)) \in 1..MaxFrame /\ Plain(s)[1] = CMD_DATA

(* Whatever the client sends, exactly the well-formed stretches between    *)
(* two FENDs that fit and carry data for port 0 are handed on, unescaped   *)
(* and in order: a malformed or over-long frame costs none of its          *)
(* neighbours.                                                             *)
DecodesStretches ==
    frames = FlattenSeq([k \in DOMAIN stream |->
        IF stream[k] = FEND /\ Begin(stream, k) # 1 /\ IsDataFrame(StretchTo(stream, k))
        THEN <<Tail(Plain(StretchTo(stream, k)))>> ELSE <<>>])

(* A byte on its way through the decoder, with the frames handed on. *)
Deliver(a, b) == [d |-> DecodeByte(a.d, b), out |-> a.out \o Handled(a.d, b)]

(* Whatever bytes came before, the encoding of a frame is decoded to that  *)
(* frame: the encoder and the decoder agree, and one FEND brings the       *)
(* decoder back into step.                                                 *)
Resyncs ==
    stream # <<>> => \A p \in Payloads :
        Len(p) < MaxFrame =>
            LET e == Encode(p, 3 + 2 * Len(p)).out
                r == FoldLeft(Deliver, [d |-> dec, out |-> <<>>], e)
            IN  r.d = FrameStart /\ r.out # <<>> /\ Last(r.out) = p

(* The room the encoding of data takes. *)
Needed(data) ==
    3 + Len(data) + Cardinality({i \in DOMAIN data : data[i] \in {FEND, FESC}})

(* For any bytes, the encoder reports success exactly if the whole frame   *)
(* fits, and never writes past its buffer.                                 *)
EncodeFits ==
    \A out_size \in 0..(Needed(stream) + 1) :
        LET e == Encode(stream, out_size)
        IN  /\ e.ok = (Needed(stream) <= out_size)
            /\ Len(e.out) <= out_size
=============================================================================
