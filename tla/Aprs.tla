-------------------------------- MODULE Aprs --------------------------------
(***************************************************************************)
(* What becomes of a packet between the client and the air: APRS packets   *)
(* of loraham_sock.c (three header bytes and TNC2 text), the way out       *)
(* (bridge_kiss_handle_data_frame) and the way in                          *)
(* (bridge_rx_send_loraham_packet_to_kiss_client).                         *)
(***************************************************************************)
EXTENDS Tnc2

CONSTANT
    TxMax           \* LHKT_LORAHAM_TX_MAX

ASSUME TxMaxAssumption == TxMax \in Nat

(* loraham_hdr_byte *)
Hdr == <<"H0", "H1", "H2">>

(* loraham_build_aprs_packet *)
BuildPacket(tnc2) == Hdr \o tnc2

Fits(tnc2) == Len(Hdr) + Len(tnc2) <= TxMax

-----------------------------------------------------------------------------
(* loraham_rx_state_t, with the texts emitted so far (out).  seen: within a *)
(* packet; hdr: header bytes just matched; err: nothing more is read.      *)
RxFresh == [seen |-> FALSE, hdr |-> 0, text |-> <<>>, out |-> <<>>, err |-> FALSE]

(* loraham_append_payload and loraham_append_hdr_prefix *)
AppendText(s, t) ==
    IF Len(s.text) + Len(t) > MaxText - 1 THEN [RxFresh EXCEPT !.out = s.out, !.err = TRUE]
    ELSE [s EXCEPT !.text = @ \o t, !.hdr = 0]

Prefix(s) == SubSeq(Hdr, 1, s.hdr)

(* loraham_emit_tnc2 *)
Emit(s, keep_header_seen) ==
    [s EXCEPT !.seen = keep_header_seen, !.hdr = 0, !.text = <<>>,
              !.out = IF s.text = <<>> THEN @ ELSE Append(@, s.text)]

(* Slip: a header byte that ends a false match cannot start a new one. *)
SearchHeaderOnce(s, b) ==
    LET h == IF b = Hdr[s.hdr + 1] THEN s.hdr + 1 ELSE 0
    IN  IF h = Len(Hdr) THEN [s EXCEPT !.seen = TRUE, !.hdr = 0, !.text = <<>>]
        ELSE [s EXCEPT !.hdr = h]

(* Before a header nothing is text. *)
SearchHeader(s, b) ==
    LET h == IF b = Hdr[s.hdr + 1] THEN s.hdr + 1 ELSE IF b = Hdr[1] THEN 1 ELSE 0
    IN  IF h = Len(Hdr) THEN [s EXCEPT !.seen = TRUE, !.hdr = 0, !.text = <<>>]
        ELSE [s EXCEPT !.hdr = h]

(* A byte of the text that does not go on with a header begun before it. *)
TextByte(s, b) ==
    LET r == AppendText(s, Prefix(s))
    IN  CASE r.err -> r
          [] ~r.err /\ b \in EOL -> Emit(r, FALSE)
          [] ~r.err /\ b = Hdr[1] -> [r EXCEPT !.hdr = 1]
          [] OTHER -> AppendText(r, <<b>>)

(* One round of the loop of loraham_extract_tnc2. *)
ExtractByte(s, b) ==
    CASE s.err -> s
      [] ~s.err /\ ~s.seen -> SearchHeader(s, b)
      [] ~s.err /\ s.seen /\ s.hdr > 0 /\ b = Hdr[s.hdr + 1] ->
            IF s.hdr + 1 = Len(Hdr) THEN Emit(s, TRUE) ELSE [s EXCEPT !.hdr = @ + 1]
      [] OTHER -> TextByte(s, b)

(* Slip: a header begun at the end of the packet is not given back. *)
FlushTextOnly(s) == IF s.seen /\ ~s.err THEN Emit(s, FALSE) ELSE s

(* The call without data after the packet. *)
Flush(s) ==
    LET r == AppendText(s, Prefix(s))
    IN  CASE ~s.seen \/ s.err -> s
          [] s.seen /\ ~s.err /\ r.err -> r
          [] OTHER -> Emit(r, FALSE)

(* The texts in one packet, before the error that ends its reading. *)
Extract(packet) == Flush(FoldLeft(ExtractByte, RxFresh, packet)).out

-----------------------------------------------------------------------------
(* bridge_kiss_handle_data_frame up to the queue: the packet for the air,  *)
(* if there is one.                                                        *)
ClientToAir(raw) ==
    LET frames == IF Decodable(raw) THEN {DecodeUi(raw)} ELSE {}
        lines == {FormatLine(f) : f \in {g \in frames : Formattable(g)}}
    IN  {BuildPacket(l) : l \in {m \in lines : Fits(m)}}

(* bridge_rx_send_tnc2_to_kiss_client up to the KISS encoder. *)
Deliverable(line) == Parsable(line) /\ Encodable(ParseLine(line))

(* bridge_rx_send_loraham_packet_to_kiss_client: the frames for the client. *)
(* The first text that is no frame ends the handling of the packet.        *)
DeliverLine(r, line) ==
    IF r.err \/ ~Deliverable(line) THEN [r EXCEPT !.err = TRUE]
    ELSE [r EXCEPT !.frames = Append(@, EncodeUi(ParseLine(line)))]

AirToClient(packet) ==
    FoldLeft(DeliverLine, [frames |-> <<>>, err |-> FALSE], Extract(packet)).frames

-----------------------------------------------------------------------------
(* Where a header begins in t. *)
HeaderAt(t, i) == i + 2 <= Len(t) /\ SubSeq(t, i, i + 2) = Hdr

HasHeader(t) == \E i \in DOMAIN t : HeaderAt(t, i)

(* The text a header at i introduces ends before the next header or line   *)
(* end, or with the packet.                                                *)
TextAfter(t, i) ==
    LET ends == {j \in (i + 3)..Len(t) : HeaderAt(t, j) \/ t[j] \in EOL} \cup {Len(t) + 1}
    IN  SubSeq(t, i + 3, Min(ends) - 1)

Overlong(t, i) == HeaderAt(t, i) /\ Len(TextAfter(t, i)) >= MaxText

(* What the texts of a packet are, said without a scanner: one for every   *)
(* header with something behind it, up to the first that is too long.      *)
TextsOf(packet) ==
    FlattenSeq([i \in DOMAIN packet |->
        IF /\ HeaderAt(packet, i) /\ TextAfter(packet, i) # <<>>
           /\ \A j \in 1..i : ~Overlong(packet, j)
        THEN <<TextAfter(packet, i)>> ELSE <<>>])

(* A frame as it comes back: call signs in capitals, the C bits of a       *)
(* command, one line of text.                                              *)
Normalised(raw) ==
    [raw EXCEPT !.addrs = [i \in DOMAIN raw.addrs |->
                              [raw.addrs[i] EXCEPT !.call = Upper[@],
                                                   !.bit7 = IF i <= 2 THEN i = 1 ELSE @]],
                !.info = OneLine(@)]
=============================================================================
