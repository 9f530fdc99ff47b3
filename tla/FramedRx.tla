------------------------------ MODULE FramedRx ------------------------------
(***************************************************************************)
(* The receiving side of the framed DATA socket, byte by byte: the decoder *)
(* loraham_framed_decode_byte, the handlers of what it emits, and its two  *)
(* callers, bridge_rx_handle_framed_chunk in the main loop and             *)
(* bridge_loraham_wait_tx_result during a transmission.  Delivery to the   *)
(* KISS client is part of it: a client can accept a part of a frame only,  *)
(* and the two callers deal with that in different ways.                   *)
(*                                                                         *)
(* A frame is the sequence of its bytes: type, length (two bytes, low byte *)
(* first), payload.  A byte is a number below Base (256 in the code).  The *)
(* decoder state is the sequence of bytes of the frame begun: its first    *)
(* three are state->header, the others state->payload.                     *)
(***************************************************************************)
EXTENDS Integers, Sequences, SequencesExt

CONSTANTS
    Base,             \* number of byte values
    MaxPayload,       \* LHKT_FRAMED_MAX_PAYLOAD
    MetaLen,          \* BRIDGE_RX_LORAHAM_META_LEN
    ResultLen,        \* LORAHAM_TX_RESULT_LEN
    MaxStatus,        \* LORAHAM_TX_STATUS_INVALID_BAND
    ReadMax,          \* size of the read buffers
    Frames,           \* frames the daemon may send
    MaxFrames         \* bound: frames sent

RX_PACKET == 1
ERROR == 3
TX_RESULT == 4

Byte == 0..(Base - 1)

ASSUME SizesAssumption ==
    /\ Base \in Nat /\ Base > TX_RESULT
    /\ MaxPayload \in Nat /\ MetaLen \in Nat /\ ResultLen \in Nat \ {0}
    /\ MaxStatus \in Nat /\ ReadMax \in Nat \ {0}
    /\ MaxFrames \in Nat

VARIABLES
    conn,         \* the DATA connection is up
    wire,         \* bytes the daemon wrote and the bridge has not read
    chunk,        \* bytes read and not yet decoded
    partial,      \* the decoder: bytes of the frame begun
    mode,         \* who reads: "main", "wait" or "rest" (result accepted,
                  \* the rest of the buffer is being decoded)
    client,       \* a KISS client is attached
    muted,        \* wait_tx_result has set its client_fd to -1
    tail,         \* history: how the byte stream to the attached client ends
    owed,         \* history: frames sent on this connection, not yet emitted
    skipped,      \* history: bytes of this connection were left undecoded
    count         \* frames sent so far

vars == <<conn, wire, chunk, partial, mode, client, muted, tail, owed, skipped, count>>

(* "whole": after a whole frame.  "part": inside a frame, a write of which *)
(* failed, and the failure is being dealt with.  "kept": as "part", but    *)
(* the failure was forgotten and the client kept.  "glued": after bytes    *)
(* that followed a part.                                                   *)
Tails == {"whole", "part", "kept", "glued"}

PayloadLen(s) == s[2] + Base * s[3]

(* What the daemon may send: frames that are what their header says. *)
ASSUME FramesAssumption ==
    \A f \in Frames : /\ f \in Seq(Byte)
                      /\ Len(f) >= 3
                      /\ Len(f) = 3 + PayloadLen(f)
                      /\ PayloadLen(f) <= MaxPayload

TypeOK ==
    /\ conn \in BOOLEAN
    /\ wire \in Seq(Byte)
    /\ chunk \in Seq(Byte) /\ Len(chunk) <= ReadMax
    /\ partial \in Seq(Byte)
    /\ mode \in {"main", "wait", "rest"}
    /\ client \in BOOLEAN
    /\ muted \in BOOLEAN
    /\ tail \in Tails
    /\ owed \in Seq(Frames)
    /\ skipped \in BOOLEAN
    /\ count \in 0..MaxFrames

Init ==
    /\ conn = TRUE
    /\ wire = <<>>
    /\ chunk = <<>>
    /\ partial = <<>>
    /\ mode = "main"
    /\ client \in BOOLEAN
    /\ muted = FALSE
    /\ tail = "whole"
    /\ owed = <<>>
    /\ skipped = FALSE
    /\ count = 0

-----------------------------------------------------------------------------
(* Slip: the limit is taken to be that of a whole frame. *)
TooLongWithHeader(s) == Len(s) = 3 /\ PayloadLen(s) > MaxPayload + 3

(* loraham_framed_decode_byte: with the next byte s is what has been seen  *)
(* of the frame; it is an error, a whole frame, or the decoder goes on.    *)
TooLong(s) == Len(s) = 3 /\ PayloadLen(s) > MaxPayload

Complete(s) == Len(s) >= 3 /\ Len(s) = 3 + PayloadLen(s)

(* loraham_decode_tx_result *)
ValidResult(f) == PayloadLen(f) = ResultLen /\ f[4] <= MaxStatus

(* The client a frame would be delivered to. *)
Attached == client /\ ~muted

(* bridge_rx_handle_framed_frame: "ok", or "unparsable" when the packet    *)
(* cannot be converted for the client, or "client" when the client cannot  *)
(* be written to.                                                          *)
FrameResults(f) ==
    IF f[1] = RX_PACKET /\ Attached /\ PayloadLen(f) >= MetaLen
    THEN {"ok", "unparsable", "client"}
    ELSE {"ok"}

(* bridge_rx_write_all_fd, for each KISS frame of a packet: how the stream *)
(* to the client may end after a write that begins in t.                   *)
Begun(t) == IF t = "part" THEN "glued" ELSE t
Torn(t) == IF t = "whole" THEN "part" ELSE Begun(t)

(* After frame f was handled with result r.  A packet that turned out to   *)
(* be unparsable may have had parsable lines before; a write that failed   *)
(* may have failed at its first byte.                                      *)
TailsAfter(f, r) ==
    IF FrameResults(f) = {"ok"} THEN {tail}
    ELSE {Begun(tail)} \union (IF r = "ok" THEN {} ELSE {tail})
                       \union (IF r = "client" THEN {Torn(tail)} ELSE {})

(* The main loop closes the client's connection: bridge_rx reported        *)
(* LHKT_ERR_CLIENT_SOCKET (should_disconnect_kiss_client).                 *)
CloseClient == client' = FALSE /\ tail' = "whole"

(* The wait ends with another error than the client's, which is lost: the  *)
(* main loop keeps the client.                                             *)
ForgetClientError == tail' = IF tail = "part" THEN "kept" ELSE tail

(* bridge_loraham_disconnect_data_socket and loraham_framed_rx_state_init. *)
Disconnect ==
    /\ conn' = FALSE
    /\ wire' = <<>>
    /\ chunk' = <<>>
    /\ partial' = <<>>
    /\ owed' = <<>>
    /\ skipped' = FALSE

(* The reader goes on with the next byte of the buffer. *)
NextByte(s) ==
    /\ chunk' = Tail(chunk)
    /\ partial' = s
    /\ UNCHANGED <<conn, wire>>

Emitted == owed' = IF owed = <<>> THEN owed ELSE Tail(owed)

-----------------------------------------------------------------------------
(* One byte in bridge_rx_handle_framed_chunk.  A frame whose handling      *)
(* fails ends the loop: the rest of the buffer is not looked at.  The main *)
(* loop then closes the client, or the DATA connection.                    *)
DecodeMain ==
    /\ mode = "main" /\ chunk # <<>>
    /\ LET s == Append(partial, Head(chunk)) IN
       \/ /\ TooLong(s)
          /\ Disconnect
          /\ UNCHANGED <<client, tail>>
       \/ /\ ~TooLong(s) /\ ~Complete(s)
          /\ NextByte(s)
          /\ UNCHANGED <<client, tail, owed, skipped>>
       \/ /\ Complete(s) /\ ~TooLong(s)
          /\ \/ /\ "ok" \in FrameResults(s)
                /\ NextByte(<<>>)
                /\ Emitted
                /\ tail' \in TailsAfter(s, "ok")
                /\ UNCHANGED <<client, skipped>>
             \/ /\ "unparsable" \in FrameResults(s)
                /\ Disconnect
                /\ tail' \in TailsAfter(s, "unparsable")
                /\ UNCHANGED client
             \/ /\ "client" \in FrameResults(s)
                /\ CloseClient
                /\ chunk' = <<>>
                /\ partial' = <<>>
                /\ Emitted
                /\ skipped' = (skipped \/ Len(chunk) > 1)
                /\ UNCHANGED <<conn, wire>>
    /\ UNCHANGED <<mode, muted, count>>

(* Slip: the wait goes on writing to a client that failed. *)
MuteNever(r) == muted' = muted

(* client_fd = -1 after LHKT_ERR_CLIENT_SOCKET. *)
Mute(r) == muted' = (muted \/ r = "client")

(* One byte in bridge_loraham_wait_tx_result.  The first valid TX_RESULT   *)
(* is the answer, later ones of the buffer are dropped; a failing client   *)
(* is not used again and the buffer is decoded to its end.                 *)
DecodeWait ==
    /\ mode \in {"wait", "rest"} /\ chunk # <<>>
    /\ LET s == Append(partial, Head(chunk)) IN
       \/ /\ \/ TooLong(s)
             \/ Complete(s) /\ mode = "wait" /\ s[1] = TX_RESULT /\ ~ValidResult(s)
          /\ Disconnect
          /\ mode' = "main"
          /\ muted' = FALSE
          /\ ForgetClientError
       \/ /\ ~TooLong(s) /\ ~Complete(s)
          /\ NextByte(s)
          /\ UNCHANGED <<tail, owed, skipped, mode, muted>>
       \/ /\ Complete(s) /\ ~TooLong(s)
          /\ s[1] = TX_RESULT => mode = "rest" \/ ValidResult(s)
          /\ NextByte(<<>>)
          /\ Emitted
          /\ mode' = IF s[1] = TX_RESULT THEN "rest" ELSE mode
          /\ \E r \in FrameResults(s) : /\ Mute(r)
                                        /\ tail' \in TailsAfter(s, r)
          /\ UNCHANGED skipped
    /\ UNCHANGED <<client, count>>

(* The buffer after the result is done: wait_tx_result returns, and its    *)
(* client error reaches the main loop, which closes the client, unless the *)
(* receive frequency could not be restored: then that is the result.       *)
WaitDone ==
    /\ mode = "rest" /\ chunk = <<>>
    /\ mode' = "main"
    /\ muted' = FALSE
    /\ \/ muted /\ CloseClient
       \/ ~muted /\ UNCHANGED <<client, tail>>
       \/ ForgetClientError /\ UNCHANGED client
    /\ UNCHANGED <<conn, wire, chunk, partial, owed, skipped, count>>

(* Deadline or stop: LHKT_ERR_TX_RESULT; a client error is forgotten. *)
WaitLost ==
    /\ mode = "wait" /\ chunk = <<>>
    /\ Disconnect
    /\ mode' = "main"
    /\ muted' = FALSE
    /\ ForgetClientError
    /\ UNCHANGED <<client, count>>

(* A packet was written and its result is awaited. *)
WaitBegin ==
    /\ mode = "main" /\ chunk = <<>> /\ conn
    /\ mode' = "wait"
    /\ UNCHANGED <<conn, wire, chunk, partial, client, muted, tail, owed, skipped, count>>

(* Slip: the read is not limited to the buffer. *)
ReadAll ==
    /\ conn /\ chunk = <<>> /\ mode # "rest" /\ wire # <<>>
    /\ chunk' = wire
    /\ wire' = <<>>
    /\ UNCHANGED <<conn, partial, mode, client, muted, tail, owed, skipped, count>>

(* A read returns some of what the daemon wrote. *)
Read ==
    /\ conn /\ chunk = <<>> /\ mode # "rest"
    /\ \E n \in 1..Len(wire) :
          /\ n <= ReadMax
          /\ chunk' = SubSeq(wire, 1, n)
          /\ wire' = SubSeq(wire, n + 1, Len(wire))
    /\ UNCHANGED <<conn, partial, mode, client, muted, tail, owed, skipped, count>>

(* End of file. *)
ReadEof ==
    /\ conn /\ chunk = <<>> /\ mode # "rest"
    /\ Disconnect
    /\ mode' = "main"
    /\ muted' = FALSE
    /\ ForgetClientError
    /\ UNCHANGED <<client, count>>

(* The main loop connects again, with a fresh decoder. *)
Reconnect ==
    /\ ~conn
    /\ conn' = TRUE
    /\ partial' = <<>>
    /\ UNCHANGED <<wire, chunk, mode, client, muted, tail, owed, skipped, count>>

(* A pending connection is accepted while no client is attached, from an   *)
(* allowed address and with a descriptor to be had (see Startup);          *)
(* otherwise nothing changes.  The DATA decoder is left alone.             *)
ClientConnects ==
    /\ mode = "main" /\ chunk = <<>> /\ ~client
    /\ client' = TRUE
    /\ tail' = "whole"
    /\ UNCHANGED <<conn, wire, chunk, partial, mode, muted, owed, skipped, count>>

(* Slip: the decoder is reset together with the KISS client. *)
ClientGoneResets ==
    /\ mode = "main" /\ chunk = <<>> /\ client
    /\ client' = FALSE
    /\ tail' = "whole"
    /\ partial' = <<>>
    /\ UNCHANGED <<conn, wire, chunk, mode, muted, owed, skipped, count>>

(* End of file or an error on the client's connection. *)
ClientGone ==
    /\ mode = "main" /\ chunk = <<>> /\ client
    /\ client' = FALSE
    /\ tail' = "whole"
    /\ UNCHANGED <<conn, wire, chunk, partial, mode, muted, owed, skipped, count>>

(* The daemon (external) writes a frame. *)
DaemonWrites(f) ==
    /\ conn /\ count < MaxFrames
    /\ count' = count + 1
    /\ wire' = wire \o f
    /\ owed' = Append(owed, f)
    /\ UNCHANGED <<conn, chunk, partial, mode, client, muted, tail, skipped>>

Next ==
    \/ DecodeMain \/ DecodeWait \/ WaitDone \/ WaitLost \/ WaitBegin
    \/ Read \/ ReadEof \/ Reconnect \/ ClientConnects \/ ClientGone
    \/ \E f \in Frames : DaemonWrites(f)

Spec == Init /\ [][Next]_vars

-----------------------------------------------------------------------------
(* The decoder never holds more than its buffers: a header of three bytes  *)
(* and fewer payload bytes than announced, which is at most MaxPayload.    *)
(* This holds for any bytes, in sync or not.                               *)
BufferSafe ==
    Len(partial) >= 3 =>
        /\ PayloadLen(partial) <= MaxPayload
        /\ Len(partial) < 3 + PayloadLen(partial)

(* What the decoder has begun, the buffer and the socket hold are together *)
(* exactly the frames the daemon still has to be credited with: decoding   *)
(* is always in step with the daemon (the comment before the decoding of   *)
(* the DATA socket in lhkt_bridge_run).                                    *)
InSync == FlattenSeq(owed) = partial \o chunk \o wire

(* Decoding is in step with the daemon until a failing client write leaves *)
(* the rest of a buffer undecoded, and again after the next reconnect:     *)
(* whoever reads, whatever the sizes of the reads, in whatever order       *)
(* clients come and go and fail, in the main loop and in the wait.         *)
InSyncUnlessSkipped == ~skipped => InSync

(* A client that was sent a part of a frame is sent nothing more while the *)
(* failure is known: the wait for a result mutes it until the main loop    *)
(* can close it, and the next client starts with a whole frame.  (If the   *)
(* wait ends with another error the failure is forgotten: "kept".)         *)
TornFrameIsLast == tail # "glued"

(* A DATA connection is given up for an error only if the stream is out of *)
(* step: as long as every byte is accounted for, a frame that cannot be    *)
(* used is dropped and the connection kept.                                *)
KeptWhileInSync ==
    [][DecodeMain /\ InSync => conn']_vars
=============================================================================
