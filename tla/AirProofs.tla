------------------------------ MODULE AirProofs -----------------------------
(***************************************************************************)
(* Machine-checked proofs about what goes through the air, for any sizes   *)
(* and inputs of any length.                                               *)
(*                                                                         *)
(* FramedRx: the decoder never overruns its buffers, nothing follows a     *)
(* torn frame to the client whose failure is known, and decoding stays in  *)
(* step with the daemon until bytes are left undecoded.                    *)
(*                                                                         *)
(* Ax25, Aprs, Tnc2 and Packets: the codecs undo one another, the scan of  *)
(* a packet finds its texts, and a frame of a client arrives.              *)
(*                                                                         *)
(* BufferSafe is inductive together with TypeOK: a decoder that goes on    *)
(* after a byte has either just read an acceptable length, or goes on with *)
(* the frame whose length it had accepted before.                          *)
(***************************************************************************)
EXTENDS FramedRx, Packets, SequenceLemmas

IInv == TypeOK /\ BufferSafe

(* The announced length is a number. *)
LEMMA PayloadLenNat ==
    ASSUME NEW s \in Seq(Byte), Len(s) >= 3
    PROVE  PayloadLen(s) \in Nat
<1>1. s[2] \in Byte /\ s[3] \in Byte
  OBVIOUS
<1>2. ASSUME NEW a \in Nat, NEW b \in Nat
      PROVE  a * b \in Nat
  BY <1>2
<1>3. Base * s[3] \in Nat
  BY <1>1, <1>2, SizesAssumption DEF Byte
<1> QED
  BY <1>1, <1>3 DEF PayloadLen, Byte

(* A byte more does not change the length announced. *)
LEMMA PayloadLenAppend ==
    ASSUME NEW s \in Seq(Byte), NEW b \in Byte, Len(s) >= 3
    PROVE  PayloadLen(Append(s, b)) = PayloadLen(s)
BY DEF PayloadLen

(* One byte of the decoder: going on keeps it within its buffers. *)
LEMMA DecodeSafe ==
    ASSUME NEW p \in Seq(Byte), NEW b \in Byte,
           Len(p) >= 3 => /\ PayloadLen(p) <= MaxPayload
                          /\ Len(p) < 3 + PayloadLen(p),
           ~TooLong(Append(p, b)), ~Complete(Append(p, b)),
           Len(Append(p, b)) >= 3
    PROVE  /\ PayloadLen(Append(p, b)) <= MaxPayload
           /\ Len(Append(p, b)) < 3 + PayloadLen(Append(p, b))
<1> DEFINE s == Append(p, b)
<1>1. s \in Seq(Byte) /\ Len(s) = Len(p) + 1 /\ Len(p) \in Nat /\ Len(s) >= 3
  OBVIOUS
<1>2. PayloadLen(s) \in Nat
  BY <1>1, PayloadLenNat
<1> HIDE DEF s
<1>3. CASE Len(p) = 2
  BY <1>1, <1>2, <1>3, SizesAssumption DEF TooLong, Complete, s
<1>4. CASE Len(p) >= 3
  <2>1. PayloadLen(s) = PayloadLen(p)
    BY <1>4, PayloadLenAppend DEF s
  <2> QED
    BY <1>1, <1>2, <1>4, <2>1 DEF Complete, s
<1>5. Len(p) = 2 \/ Len(p) >= 3
  <2>1. ASSUME NEW n \in Nat, n + 1 >= 3
        PROVE  n = 2 \/ n >= 3
    BY <2>1
  <2>2. Len(p) + 1 >= 3
    BY <1>1
  <2> QED
    BY <1>1, <2>1, <2>2
<1> QED
  BY <1>3, <1>4, <1>5

(* The empty sequence. *)
LEMMA EmptyIsSeq ==
    ASSUME NEW S
    PROVE  <<>> \in Seq(S) /\ Len(<<>>) = 0
OBVIOUS

(* The tail of a buffer is no longer than the buffer. *)
LEMMA TailType ==
    ASSUME NEW S, NEW s \in Seq(S), s # <<>>
    PROVE  /\ Tail(s) \in Seq(S)
           /\ Len(Tail(s)) = Len(s) - 1
           /\ Head(s) \in S
OBVIOUS

(* The reader goes on: the buffer shrinks, the decoder has s. *)
LEMMA NextByteType ==
    ASSUME TypeOK, chunk # <<>>, NEW s \in Seq(Byte), NextByte(s)
    PROVE  /\ conn' \in BOOLEAN /\ wire' \in Seq(Byte)
           /\ chunk' \in Seq(Byte) /\ Len(chunk') <= ReadMax
           /\ partial' \in Seq(Byte)
<1>1. chunk \in Seq(Byte) /\ Len(chunk) <= ReadMax /\ Len(chunk) \in Nat
  BY DEF TypeOK
<1>2. chunk' \in Seq(Byte) /\ Len(chunk') = Len(chunk) - 1
  BY <1>1, TailType DEF NextByte
<1>3. Len(chunk') <= ReadMax
  BY <1>1, <1>2, SizesAssumption
<1> QED
  BY <1>2, <1>3 DEF TypeOK, NextByte

(* The connection is given up: everything of it is empty. *)
LEMMA DisconnectSafe ==
    ASSUME Disconnect
    PROVE  /\ conn' \in BOOLEAN /\ wire' \in Seq(Byte)
           /\ chunk' \in Seq(Byte) /\ Len(chunk') <= ReadMax
           /\ partial' \in Seq(Byte) /\ owed' \in Seq(Frames)
           /\ skipped' \in BOOLEAN
           /\ BufferSafe'
<1>1. wire' = <<>> /\ chunk' = <<>> /\ partial' = <<>> /\ owed' = <<>> /\ conn' = FALSE
      /\ skipped' = FALSE
  BY DEF Disconnect
<1>2. Len(partial') = 0 /\ Len(chunk') = 0
  BY <1>1
<1>3. BufferSafe'
  <2>1. ~(Len(partial') >= 3)
    BY ONLY <1>2
  <2> QED BY ONLY <2>1, Zenon DEF BufferSafe
<1>4. /\ wire' \in Seq(Byte) /\ chunk' \in Seq(Byte) /\ partial' \in Seq(Byte)
      /\ owed' \in Seq(Frames)
  BY <1>1, EmptyIsSeq
<1>5. Len(chunk') <= ReadMax
  BY <1>2, SizesAssumption
<1> QED
  BY <1>1, <1>3, <1>4, <1>5

(* However a frame is handled, the end of the client's stream is known. *)
LEMMA TailStays ==
    ASSUME tail \in Tails, NEW f, NEW r, tail' \in TailsAfter(f, r)
    PROVE  tail' \in Tails
BY DEF TailsAfter, Begun, Torn, Tails

LEMMA EmittedType ==
    ASSUME TypeOK, Emitted
    PROVE  owed' \in Seq(Frames)
BY TailType DEF TypeOK, Emitted

(* The decoder in the main loop. *)
LEMMA DecodeMainIInv == IInv /\ DecodeMain => IInv'
<1> SUFFICES ASSUME IInv, DecodeMain
             PROVE  IInv'
  OBVIOUS
<1> DEFINE s == Append(partial, Head(chunk))
<1>1. /\ TypeOK /\ BufferSafe /\ chunk # <<>> /\ mode' = mode
      /\ muted' = muted /\ count' = count
      /\ partial \in Seq(Byte) /\ Head(chunk) \in Byte
      /\ tail' \in Tails
  BY TailType, TailStays DEF IInv, DecodeMain, TypeOK, CloseClient, Tails
<1>2. s \in Seq(Byte)
  BY <1>1
<1>3. CASE TooLong(s) /\ Disconnect /\ UNCHANGED <<client, tail>>
  BY <1>1, <1>3, DisconnectSafe DEF IInv, TypeOK
<1>4. CASE /\ ~TooLong(s) /\ ~Complete(s) /\ NextByte(s)
           /\ UNCHANGED <<client, tail, owed, skipped>>
  <2>1. BufferSafe'
    <3>1. partial' = s
      BY <1>4 DEF NextByte
    <3> QED
      BY <1>1, <1>4, <3>1, DecodeSafe DEF BufferSafe
  <2> QED
    BY <1>1, <1>2, <1>4, <2>1, NextByteType DEF IInv, TypeOK
<1>5. CASE /\ NextByte(<<>>) /\ Emitted /\ UNCHANGED <<client, skipped>>
  <2>1. BufferSafe'
    BY <1>5 DEF NextByte, BufferSafe
  <2>e. <<>> \in Seq(Byte)
    BY EmptyIsSeq
  <2> QED
    BY <1>1, <1>5, <2>1, <2>e, NextByteType, EmittedType DEF IInv, TypeOK
<1>6. CASE Disconnect /\ UNCHANGED client
  BY <1>1, <1>6, DisconnectSafe DEF IInv, TypeOK
<1>7. CASE /\ client' = FALSE /\ chunk' = <<>> /\ partial' = <<>>
           /\ Emitted /\ UNCHANGED <<conn, wire>>
           /\ skipped' = (skipped \/ Len(chunk) > 1)
  <2>1. Len(chunk') = 0 /\ Len(partial') = 0 /\ Len(chunk') <= ReadMax
    BY <1>7, SizesAssumption
  <2>2. BufferSafe'
    BY <2>1 DEF BufferSafe
  <2>3. chunk' \in Seq(Byte) /\ partial' \in Seq(Byte)
    BY <1>7, EmptyIsSeq
  <2> QED
    BY <1>1, <1>7, <2>1, <2>2, <2>3, EmittedType DEF IInv, TypeOK
<1> QED
  BY <1>3, <1>4, <1>5, <1>6, <1>7 DEF DecodeMain, CloseClient

(* The decoder during a transmission. *)
LEMMA DecodeWaitIInv == IInv /\ DecodeWait => IInv'
<1> SUFFICES ASSUME IInv, DecodeWait
             PROVE  IInv'
  OBVIOUS
<1> DEFINE s == Append(partial, Head(chunk))
<1>1. /\ TypeOK /\ BufferSafe /\ chunk # <<>>
      /\ client' = client /\ count' = count
      /\ partial \in Seq(Byte) /\ Head(chunk) \in Byte
      /\ tail' \in Tails
  BY TailType, TailStays DEF IInv, DecodeWait, TypeOK, ForgetClientError, Tails
<1>2. s \in Seq(Byte)
  BY <1>1
<1>3. CASE Disconnect /\ mode' = "main" /\ muted' = FALSE
  BY <1>1, <1>3, DisconnectSafe DEF IInv, TypeOK
<1>4. CASE /\ ~TooLong(s) /\ ~Complete(s) /\ NextByte(s)
           /\ UNCHANGED <<tail, owed, skipped, mode, muted>>
  <2>1. BufferSafe'
    <3>1. partial' = s
      BY <1>4 DEF NextByte
    <3> QED
      BY <1>1, <1>4, <3>1, DecodeSafe DEF BufferSafe
  <2> QED
    BY <1>1, <1>2, <1>4, <2>1, NextByteType DEF IInv, TypeOK
<1>5. CASE /\ NextByte(<<>>) /\ Emitted
           /\ mode' = IF s[1] = TX_RESULT THEN "rest" ELSE mode
           /\ \E r \in FrameResults(s) : Mute(r)
           /\ UNCHANGED skipped
  <2>1. BufferSafe'
    BY <1>5 DEF NextByte, BufferSafe
  <2>e. <<>> \in Seq(Byte)
    BY EmptyIsSeq
  <2>2. mode' \in {"main", "wait", "rest"} /\ muted' \in BOOLEAN
    BY <1>1, <1>5 DEF TypeOK, Mute
  <2> QED
    BY <1>1, <1>5, <2>1, <2>2, <2>e, NextByteType, EmittedType DEF IInv, TypeOK
<1> QED
  BY <1>3, <1>4, <1>5 DEF DecodeWait

(* A read is no longer than the buffer. *)
LEMMA ReadIInv == IInv /\ Read => IInv'
<1> SUFFICES ASSUME IInv, Read
             PROVE  IInv'
  OBVIOUS
<1>1. PICK n \in 1..Len(wire) : /\ n <= ReadMax
                                /\ chunk' = SubSeq(wire, 1, n)
                                /\ wire' = SubSeq(wire, n + 1, Len(wire))
  BY DEF Read
<1>2. wire \in Seq(Byte) /\ Len(wire) \in Nat
  BY DEF IInv, TypeOK
<1>3. chunk' \in Seq(Byte) /\ Len(chunk') = n
  BY <1>1, <1>2
<1>4. wire' \in Seq(Byte)
  BY <1>1, <1>2
<1> QED
  BY <1>1, <1>3, <1>4 DEF IInv, Read, TypeOK, BufferSafe

(* The daemon writes a frame. *)
LEMMA DaemonIInv ==
    ASSUME IInv, NEW f \in Frames, DaemonWrites(f)
    PROVE  IInv'
<1>1. f \in Seq(Byte)
  BY FramesAssumption
<1>2. wire' \in Seq(Byte) /\ owed' \in Seq(Frames)
  BY <1>1 DEF IInv, TypeOK, DaemonWrites
<1>3. count' \in 0..MaxFrames
  BY SizesAssumption DEF IInv, TypeOK, DaemonWrites
<1> QED
  BY <1>2, <1>3 DEF IInv, TypeOK, BufferSafe, DaemonWrites

(* Every step keeps the invariant. *)
LEMMA StepIInv == IInv /\ [Next]_vars => IInv'
<1> SUFFICES ASSUME IInv, [Next]_vars
             PROVE  IInv'
  OBVIOUS
<1>1. CASE DecodeMain
  BY <1>1, DecodeMainIInv
<1>2. CASE DecodeWait
  BY <1>2, DecodeWaitIInv
<1>3. CASE WaitDone
  BY <1>3 DEF WaitDone, CloseClient, ForgetClientError, Tails, IInv, TypeOK, BufferSafe
<1>4. CASE WaitLost
  BY <1>4, DisconnectSafe DEF WaitLost, ForgetClientError, Tails, IInv, TypeOK
<1>5. CASE WaitBegin
  BY <1>5 DEF WaitBegin, IInv, TypeOK, BufferSafe
<1>6. CASE Read
  BY <1>6, ReadIInv
<1>7. CASE ReadEof
  BY <1>7, DisconnectSafe DEF ReadEof, ForgetClientError, Tails, IInv, TypeOK
<1>8. CASE Reconnect
  BY <1>8 DEF Reconnect, IInv, TypeOK, BufferSafe
<1>9. CASE ClientConnects \/ ClientGone
  BY <1>9 DEF ClientConnects, ClientGone, Tails, IInv, TypeOK, BufferSafe
<1>10. CASE \E f \in Frames : DaemonWrites(f)
  BY <1>10, DaemonIInv
<1>11. CASE UNCHANGED vars
  BY <1>11 DEF vars, IInv, TypeOK, BufferSafe
<1> QED
  BY <1>1, <1>2, <1>3, <1>4, <1>5, <1>6, <1>7, <1>8, <1>9, <1>10, <1>11 DEF Next

LEMMA InitIInv == Init => IInv
<1> SUFFICES ASSUME Init
             PROVE  IInv
  OBVIOUS
<1>1. BufferSafe
  BY DEF Init, BufferSafe
<1>2. <<>> \in Seq(Byte) /\ <<>> \in Seq(Frames) /\ Len(<<>>) = 0
  BY EmptyIsSeq
<1>3. count \in 0..MaxFrames /\ Len(chunk) <= ReadMax
  BY <1>2, SizesAssumption DEF Init
<1>4. TypeOK
  BY <1>2, <1>3 DEF Init, TypeOK, Tails
<1> QED
  BY <1>1, <1>4 DEF IInv

LEMMA Invariant == Spec => []IInv
BY InitIInv, StepIInv, PTL DEF Spec

(* The state of the receiving side has its type, a read never exceeds its  *)
(* buffer, and every frame the daemon is owed is one it sent.              *)
THEOREM TypeCorrect == Spec => []TypeOK
<1>1. IInv => TypeOK
  BY DEF IInv
<1> QED
  BY <1>1, Invariant, PTL

(* loraham_framed_decode_byte never stores past its header or its payload  *)
(* buffer, also when client write failures have put it out of step with    *)
(* the stream and it takes arbitrary bytes for a header.                   *)
THEOREM DecoderBufferSafe == Spec => []BufferSafe
<1>1. IInv => BufferSafe
  BY DEF IInv
<1> QED
  BY <1>1, Invariant, PTL

-----------------------------------------------------------------------------
(* A part of a frame at the end of the client's stream means that the wait *)
(* for a result has muted the client; a muted client is written nothing.   *)
TailInv == TornFrameIsLast /\ (tail = "part" => muted)

(* Handling a frame tears the stream only if the client is attached, and   *)
(* then only with the result "client".                                     *)
LEMMA HandledTail ==
    ASSUME TailInv, NEW f, NEW r \in FrameResults(f), tail' \in TailsAfter(f, r)
    PROVE  tail' = tail \/ (r = "client" /\ tail' = "part")
<1>1. CASE tail = "part"
  <2>1. FrameResults(f) = {"ok"}
    BY <1>1 DEF TailInv, FrameResults, Attached
  <2> QED
    BY <2>1 DEF TailsAfter
<1>2. CASE tail # "part"
  BY <1>2 DEF TailInv, TornFrameIsLast, TailsAfter, Begun, Torn
<1> QED
  BY <1>1, <1>2

LEMMA StepTailInv == TailInv /\ [Next]_vars => TailInv'
<1> SUFFICES ASSUME TailInv, [Next]_vars
             PROVE  TailInv'
  OBVIOUS
<1> USE DEF TailInv, TornFrameIsLast
<1>1. CASE DecodeMain
  <2> DEFINE s == Append(partial, Head(chunk))
  <2>1. /\ muted' = muted
        /\ \/ tail' = tail
           \/ \E r \in {"ok", "unparsable"} \intersect FrameResults(s) : tail' \in TailsAfter(s, r)
           \/ CloseClient
    BY <1>1 DEF DecodeMain
  <2> QED
    BY <2>1, HandledTail DEF CloseClient
<1>2. CASE DecodeWait
  <2> DEFINE s == Append(partial, Head(chunk))
  <2>1. \/ ForgetClientError
        \/ tail' = tail /\ muted' = muted
        \/ \E r \in FrameResults(s) : Mute(r) /\ tail' \in TailsAfter(s, r)
    BY <1>2 DEF DecodeWait
  <2>2. ASSUME NEW r \in FrameResults(s), Mute(r), tail' \in TailsAfter(s, r)
        PROVE  TailInv'
    BY <2>2, HandledTail DEF Mute
  <2> QED
    BY <2>1, <2>2 DEF ForgetClientError
<1>3. CASE WaitDone
  BY <1>3 DEF WaitDone, CloseClient, ForgetClientError
<1>4. CASE WaitLost \/ ReadEof
  BY <1>4 DEF WaitLost, ReadEof, ForgetClientError
<1>5. CASE WaitBegin \/ Read \/ Reconnect
  BY <1>5 DEF WaitBegin, Read, Reconnect
<1>6. CASE ClientConnects \/ ClientGone
  BY <1>6 DEF ClientConnects, ClientGone
<1>7. CASE \E f \in Frames : DaemonWrites(f)
  BY <1>7 DEF DaemonWrites
<1>8. CASE UNCHANGED vars
  BY <1>8 DEF vars
<1> QED
  BY <1>1, <1>2, <1>3, <1>4, <1>5, <1>6, <1>7, <1>8 DEF Next

(* A client that was sent a part of a frame by bridge_rx_write_all_fd is   *)
(* sent nothing more before the main loop has closed it, in whatever order *)
(* packets, results and failures come.                                     *)
THEOREM TornFrameEndsStream == Spec => []TornFrameIsLast
<1>1. Init => TailInv
  BY DEF Init, TailInv, TornFrameIsLast
<1>2. TailInv => TornFrameIsLast
  BY DEF TailInv
<1> QED
  BY <1>1, <1>2, StepTailInv, PTL DEF Spec

-----------------------------------------------------------------------------
(* In step with the daemon *)

(* Nothing is left of a connection that is closed. *)
SyncInv == InSyncUnlessSkipped /\ (~conn => partial = <<>> /\ chunk = <<>>)

LEMMA SyncTypes ==
    ASSUME TypeOK
    PROVE  /\ partial \in Seq(Byte) /\ chunk \in Seq(Byte) /\ wire \in Seq(Byte)
           /\ owed \in Seq(Frames) /\ owed \in Seq(Seq(Byte)) /\ Frames \subseteq Seq(Byte)
<1>1. Frames \subseteq Seq(Byte)
  BY FramesAssumption
<1>2. partial \in Seq(Byte) /\ chunk \in Seq(Byte) /\ wire \in Seq(Byte) /\ owed \in Seq(Frames)
  BY DEF TypeOK
<1>3. Len(owed) \in Nat /\ owed \in [1..Len(owed) -> Seq(Byte)]
  BY <1>1, <1>2
<1>4. owed \in Seq(Seq(Byte))
  BY <1>3
<1> QED BY <1>1, <1>2, <1>4

(* The decoder takes a byte from the buffer. *)
LEMMA MoveByte ==
    ASSUME NEW p \in Seq(Byte), NEW c \in Seq(Byte), NEW w \in Seq(Byte), c # <<>>
    PROVE  /\ Append(p, Head(c)) \in Seq(Byte) /\ Tail(c) \in Seq(Byte)
           /\ p \o c \o w = Append(p, Head(c)) \o (Tail(c) \o w)
           /\ p \o c \o w = Append(p, Head(c)) \o Tail(c) \o w
<1> DEFINE a == Append(p, Head(c))
           t == Tail(c)
<1>1. Head(c) \in Byte /\ t \in Seq(Byte) /\ a \in Seq(Byte)
  OBVIOUS
<1>2. p \o c = a \o t
  <2>1. /\ Len(c) \in Nat /\ Len(c) > 0 /\ Len(t) = Len(c) - 1 /\ Head(c) = c[1]
        /\ \A i \in 1..(Len(c) - 1) : t[i] = c[i + 1]
        /\ Len(p) \in Nat /\ Len(a) = Len(p) + 1
        /\ \A i \in 1..Len(p) : a[i] = p[i]
        /\ a[Len(p) + 1] = Head(c)
    BY EmptySeq
  <2> HIDE DEF a, t
  <2>2. /\ p \o c \in Seq(Byte) /\ Len(p \o c) = Len(p) + Len(c)
        /\ \A i \in 1..(Len(p) + Len(c)) : (p \o c)[i] = IF i <= Len(p) THEN p[i] ELSE c[i - Len(p)]
    BY ConcatProperties
  <2>3. /\ a \o t \in Seq(Byte) /\ Len(a \o t) = Len(a) + Len(t)
        /\ \A i \in 1..(Len(a) + Len(t)) : (a \o t)[i] = IF i <= Len(a) THEN a[i] ELSE t[i - Len(a)]
    BY <1>1, ConcatProperties
  <2>4. Len(p \o c) = Len(a \o t)
    BY <2>1, <2>2, <2>3
  <2>5. ASSUME NEW i \in 1..Len(p \o c) PROVE (p \o c)[i] = (a \o t)[i]
    <3>0. i \in 1..(Len(p) + Len(c)) /\ i \in 1..(Len(a) + Len(t))
      BY <2>2, <2>3, <2>4
    <3>1. CASE i <= Len(p)
      BY <2>1, <2>2, <2>3, <3>0, <3>1
    <3>2. CASE i = Len(p) + 1
      BY <2>1, <2>2, <2>3, <3>0, <3>2
    <3>3. CASE i > Len(p) + 1
      <4>1. i - Len(a) \in 1..(Len(c) - 1) /\ (i - Len(a)) + 1 = i - Len(p)
        BY <2>1, <3>0, <3>3
      <4>2. t[i - Len(a)] = c[i - Len(p)]
        BY <2>1, <4>1
      <4>3. ~(i <= Len(p)) /\ ~(i <= Len(a))
        BY <2>1, <3>0, <3>3
      <4> QED BY <2>2, <2>3, <3>0, <4>2, <4>3
    <3> QED BY <2>1, <3>0, <3>1, <3>2, <3>3, SMTT(30)
  <2> QED BY <2>2, <2>3, <2>4, <2>5, SeqEqual
<1> HIDE DEF a, t
<1>3. (a \o t) \o w = a \o (t \o w)
  <2>1. \A x, y, z \in Seq(Byte) : (x \o y) \o z = x \o (y \o z)
    BY ConcatAssociative, SMTT(30)
  <2> QED BY <1>1, <2>1, ZenonT(40)
<1> QED BY <1>1, <1>2, <1>3 DEF a, t

(* A complete frame at the beginning of the stream is the first frame owed: *)
(* both begin with the same header, and the header says how long they are.  *)
LEMMA FirstFrame ==
    ASSUME NEW o \in Seq(Frames), o \in Seq(Seq(Byte)), NEW s \in Seq(Byte), NEW r \in Seq(Byte),
           Complete(s), FlattenSeq(o) = s \o r
    PROVE  o # <<>> /\ FlattenSeq(Tail(o)) = r
<1>1. Len(s) \in Nat /\ Len(s) >= 3 /\ Len(s) = 3 + PayloadLen(s)
  BY DEF Complete
<1>2. /\ Len(s \o r) = Len(s) + Len(r) /\ Len(r) \in Nat
      /\ \A i \in 1..Len(s) : (s \o r)[i] = s[i]
  BY ConcatProperties
<1>3. o # <<>>
  <2>1. SUFFICES ASSUME o = <<>> PROVE FALSE
    OBVIOUS
  <2>2. s \o r = <<>>
    BY <2>1, FlattenEmpty
  <2>3. Len(s \o r) = 0
    BY <2>2
  <2> QED BY <1>1, <1>2, <2>3
<1> DEFINE f == Head(o)
           q == FlattenSeq(Tail(o))
<1>4. f \in Frames /\ f \in Seq(Byte) /\ Tail(o) \in Seq(Seq(Byte))
  BY <1>3, FramesAssumption, TailType
<1>5. q \in Seq(Byte) /\ f \o q = s \o r
  BY <1>3, <1>4, FlattenType, FlattenHead
<1> HIDE DEF f, q
<1>6. Len(f) \in Nat /\ Len(f) >= 3 /\ Len(f) = 3 + PayloadLen(f)
  BY <1>4, FramesAssumption
<1>7. \A i \in 1..Len(f) : (f \o q)[i] = f[i]
  BY <1>4, <1>5, ConcatProperties, SMTT(30)
<1>8. f[2] = s[2] /\ f[3] = s[3]
  <2>1. 2 \in 1..Len(f) /\ 3 \in 1..Len(f) /\ 2 \in 1..Len(s) /\ 3 \in 1..Len(s)
    BY <1>1, <1>6
  <2> QED BY <1>2, <1>5, <1>7, <2>1
<1>9. Len(f) = Len(s)
  BY <1>1, <1>6, <1>8 DEF PayloadLen
<1>10. f = s
  <2>1. \A i \in 1..Len(f) : f[i] = s[i]
    BY <1>2, <1>5, <1>7, <1>9
  <2> QED BY <1>4, <1>9, <2>1, SeqEqual
<1>11. q = r
  <2>1. \A x, y, z \in Seq(Byte) : x \o y = x \o z => y = z
    BY ConcatSimplifications, Zenon
  <2> QED BY <1>5, <1>10, <2>1
<1> QED BY <1>3, <1>11 DEF q

(* What a closed connection leaves behind is in step with nothing owed. *)
LEMMA DisconnectSync ==
    ASSUME Disconnect
    PROVE  SyncInv'
<1>1. owed' = <<>> /\ partial' = <<>> /\ chunk' = <<>> /\ wire' = <<>>
  BY DEF Disconnect
<1>2. <<>> \in Seq(Byte)
  BY EmptyIsSeq
<1>3. <<>> \o <<>> = <<>>
  BY <1>2, ConcatEmptySeq
<1>4. InSync'
  BY <1>1, <1>3, FlattenEmpty, Zenon DEF InSync
<1> QED BY <1>1, <1>4, Zenon DEF SyncInv, InSyncUnlessSkipped

(* The decoder goes on with the frame it has begun. *)
LEMMA GoesOnSync ==
    ASSUME IInv, SyncInv, chunk # <<>>, NextByte(Append(partial, Head(chunk))),
           UNCHANGED <<owed, skipped>>
    PROVE  SyncInv'
<1>1. partial \in Seq(Byte) /\ chunk \in Seq(Byte) /\ wire \in Seq(Byte)
  BY SyncTypes DEF IInv
<1>2. conn /\ conn'
  BY DEF SyncInv, NextByte
<1>3. partial' \o chunk' \o wire' = partial \o chunk \o wire
  <2>1. partial \o chunk \o wire = Append(partial, Head(chunk)) \o Tail(chunk) \o wire
    BY <1>1, MoveByte
  <2> QED BY <2>1, Zenon DEF NextByte
<1>4. InSyncUnlessSkipped'
  BY <1>3, Zenon DEF SyncInv, InSyncUnlessSkipped, InSync
<1> QED BY <1>2, <1>4 DEF SyncInv

(* A frame is complete: it is the first one owed, and what follows it in   *)
(* the buffer and in the socket are the others.                            *)
LEMMA CompleteSync ==
    ASSUME IInv, SyncInv, chunk # <<>>, Complete(Append(partial, Head(chunk))),
           ~skipped, Emitted
    PROVE  /\ FlattenSeq(owed') = Tail(chunk) \o wire
           /\ Tail(chunk) \in Seq(Byte) /\ wire \in Seq(Byte)
<1> DEFINE s == Append(partial, Head(chunk))
           r == Tail(chunk) \o wire
<1>1. /\ partial \in Seq(Byte) /\ chunk \in Seq(Byte) /\ wire \in Seq(Byte)
      /\ owed \in Seq(Frames) /\ owed \in Seq(Seq(Byte))
  BY SyncTypes DEF IInv
<1>2. s \in Seq(Byte) /\ Tail(chunk) \in Seq(Byte) /\ partial \o chunk \o wire = s \o r
  BY <1>1, MoveByte, SMTT(30)
<1>3. r \in Seq(Byte)
  BY <1>1, <1>2, ConcatProperties
<1>4. FlattenSeq(owed) = s \o r
  BY <1>2, Zenon DEF SyncInv, InSyncUnlessSkipped, InSync
<1>5. Complete(s)
  OBVIOUS
<1> HIDE DEF s, r
<1>6. owed # <<>> /\ FlattenSeq(Tail(owed)) = r
  BY <1>1, <1>2, <1>3, <1>4, <1>5, FirstFrame
<1> QED BY <1>1, <1>2, <1>6 DEF Emitted, r

(* The frame is emitted, and the reader goes on with the byte after it. *)
LEMMA EmitsSync ==
    ASSUME IInv, SyncInv, chunk # <<>>, Complete(Append(partial, Head(chunk))),
           NextByte(<<>>), Emitted, UNCHANGED skipped
    PROVE  SyncInv'
<1>1. conn /\ conn'
  BY DEF SyncInv, NextByte
<1>2. ASSUME ~skipped' PROVE InSync'
  <2>1. FlattenSeq(owed') = Tail(chunk) \o wire /\ Tail(chunk) \in Seq(Byte)
    BY <1>2, CompleteSync
  <2>2. <<>> \o Tail(chunk) = Tail(chunk)
    BY <2>1, ConcatEmptySeq
  <2> QED BY <2>1, <2>2, Zenon DEF InSync, NextByte
<1> QED BY <1>1, <1>2 DEF SyncInv, InSyncUnlessSkipped

(* The frame is emitted, the client fails and the rest of the buffer is    *)
(* left: in step only if there was no rest.                                *)
LEMMA LeavesRestSync ==
    ASSUME IInv, SyncInv, chunk # <<>>, Complete(Append(partial, Head(chunk))),
           chunk' = <<>>, partial' = <<>>, Emitted,
           skipped' = (skipped \/ Len(chunk) > 1), UNCHANGED <<conn, wire>>
    PROVE  SyncInv'
<1>1. ASSUME ~skipped' PROVE InSync'
  <2>1. ~skipped /\ ~(Len(chunk) > 1)
    BY <1>1
  <2>2. /\ FlattenSeq(owed') = Tail(chunk) \o wire
        /\ Tail(chunk) \in Seq(Byte) /\ wire \in Seq(Byte)
    BY <2>1, CompleteSync
  <2>3. chunk \in Seq(Byte)
    BY SyncTypes DEF IInv
  <2>4. Tail(chunk) = <<>>
    <3>1. Len(Tail(chunk)) = Len(chunk) - 1 /\ Len(chunk) \in Nat /\ Len(chunk) # 0
      BY <2>3, TailType, EmptySeq
    <3>2. Len(Tail(chunk)) = 0
      BY <2>1, <3>1
    <3> QED BY <2>2, <3>2, EmptySeq
  <2>5. <<>> \o <<>> = <<>>
    BY EmptyIsSeq, ConcatEmptySeq
  <2> QED BY <2>2, <2>4, <2>5, Zenon DEF InSync
<1> QED BY <1>1 DEF SyncInv, InSyncUnlessSkipped

(* A read moves bytes from the socket to the empty buffer. *)
LEMMA ReadSync ==
    ASSUME IInv, SyncInv, Read
    PROVE  SyncInv'
<1>1. PICK n \in 1..Len(wire) : /\ chunk' = SubSeq(wire, 1, n)
                                /\ wire' = SubSeq(wire, n + 1, Len(wire))
  BY DEF Read
<1>2. /\ conn /\ conn' /\ chunk = <<>> /\ partial' = partial
      /\ owed' = owed /\ skipped' = skipped
  BY DEF Read
<1>3. partial \in Seq(Byte) /\ wire \in Seq(Byte) /\ Len(wire) \in Nat
  BY SyncTypes DEF IInv
<1>4. chunk' \in Seq(Byte) /\ wire' \in Seq(Byte)
  BY <1>1, <1>3
<1>5. chunk' \o wire' = wire
  <2>1. SubSeq(wire, 1, n) \o SubSeq(wire, n + 1, Len(wire)) = SubSeq(wire, 1, Len(wire))
    <3>1. 1 \in 1..(Len(wire) + 1) /\ n \in (1 - 1)..Len(wire) /\ Len(wire) \in n..Len(wire)
      BY <1>3
    <3> QED BY <1>3, <3>1, ConcatAdjacentSubSeq
  <2>2. SubSeq(wire, 1, Len(wire)) = wire
    BY <1>3, SubSeqFull
  <2> QED BY <1>1, <2>1, <2>2, Zenon
<1>6. partial' \o chunk' \o wire' = partial \o chunk \o wire
  <2>1. \A x, y, z \in Seq(Byte) : (x \o y) \o z = x \o (y \o z)
    BY ConcatAssociative, SMTT(30)
  <2>2. (partial \o chunk') \o wire' = partial \o wire
    BY <1>3, <1>4, <1>5, <2>1, Zenon
  <2>3. partial \o chunk = partial
    BY <1>2, <1>3, ConcatEmptySeq
  <2> QED BY <1>2, <2>2, <2>3, Zenon
<1>7. InSyncUnlessSkipped'
  BY <1>2, <1>6, Zenon DEF SyncInv, InSyncUnlessSkipped, InSync
<1> QED BY <1>2, <1>7 DEF SyncInv

(* A frame the daemon writes is owed, and is the last in the socket. *)
LEMMA DaemonSync ==
    ASSUME IInv, SyncInv, NEW f \in Frames, DaemonWrites(f)
    PROVE  SyncInv'
<1>1. /\ conn /\ conn' /\ chunk' = chunk /\ partial' = partial
      /\ wire' = wire \o f /\ owed' = Append(owed, f) /\ skipped' = skipped
  BY DEF DaemonWrites
<1>2. /\ partial \in Seq(Byte) /\ chunk \in Seq(Byte) /\ wire \in Seq(Byte)
      /\ owed \in Seq(Seq(Byte)) /\ f \in Seq(Byte)
  BY SyncTypes DEF IInv
<1>3. FlattenSeq(Append(owed, f)) = FlattenSeq(owed) \o f
  BY <1>2, FlattenAppend
<1>4. ((partial \o chunk) \o wire) \o f = (partial \o chunk) \o (wire \o f)
  <2>1. \A x, y, z \in Seq(Byte) : (x \o y) \o z = x \o (y \o z)
    BY ConcatAssociative
  <2>2. partial \o chunk \in Seq(Byte)
    BY <1>2, ConcatProperties
  <2> QED BY <1>2, <2>1, <2>2, Zenon
<1>5. InSyncUnlessSkipped'
  BY <1>1, <1>3, <1>4, Zenon DEF SyncInv, InSyncUnlessSkipped, InSync
<1> QED BY <1>1, <1>5 DEF SyncInv

(* Every step keeps the decoder in step. *)
LEMMA StepSync ==
    ASSUME IInv, SyncInv, [Next]_vars
    PROVE  SyncInv'
<1> DEFINE s == Append(partial, Head(chunk))
<1>1. CASE DecodeMain
  <2>1. chunk # <<>>
    BY <1>1 DEF DecodeMain
  <2>2. CASE Disconnect
    BY <2>2, DisconnectSync
  <2>3. CASE NextByte(s) /\ UNCHANGED <<owed, skipped>>
    BY <2>1, <2>3, GoesOnSync
  <2>4. CASE Complete(s) /\ NextByte(<<>>) /\ Emitted /\ UNCHANGED skipped
    BY <2>1, <2>4, EmitsSync
  <2>5. CASE /\ Complete(s) /\ chunk' = <<>> /\ partial' = <<>> /\ Emitted
             /\ skipped' = (skipped \/ Len(chunk) > 1) /\ UNCHANGED <<conn, wire>>
    BY <2>1, <2>5, LeavesRestSync
  <2> QED BY <1>1, <2>2, <2>3, <2>4, <2>5, Zenon DEF DecodeMain
<1>2. CASE DecodeWait
  <2>1. chunk # <<>>
    BY <1>2 DEF DecodeWait
  <2>2. CASE Disconnect
    BY <2>2, DisconnectSync
  <2>3. CASE NextByte(s) /\ UNCHANGED <<owed, skipped>>
    BY <2>1, <2>3, GoesOnSync
  <2>4. CASE Complete(s) /\ NextByte(<<>>) /\ Emitted /\ UNCHANGED skipped
    BY <2>1, <2>4, EmitsSync
  <2>5. \/ Disconnect
        \/ NextByte(s) /\ UNCHANGED <<owed, skipped>>
        \/ Complete(s) /\ NextByte(<<>>) /\ Emitted /\ UNCHANGED skipped
    BY <1>2, Zenon DEF DecodeWait
  <2> QED BY <2>2, <2>3, <2>4, <2>5, Zenon
<1>3. CASE WaitLost \/ ReadEof
  BY <1>3, DisconnectSync DEF WaitLost, ReadEof
<1>4. CASE Read
  BY <1>4, ReadSync
<1>5. CASE \E f \in Frames : DaemonWrites(f)
  BY <1>5, DaemonSync
<1>6. CASE Reconnect
  <2>1. partial' = partial /\ chunk' = chunk /\ wire' = wire /\ owed' = owed
        /\ skipped' = skipped /\ conn'
    BY <1>6 DEF Reconnect, SyncInv
  <2> QED BY <2>1, Zenon DEF SyncInv, InSyncUnlessSkipped, InSync
<1>7. CASE \/ WaitDone \/ WaitBegin \/ ClientConnects \/ ClientGone \/ UNCHANGED vars
  <2>1. UNCHANGED <<conn, wire, chunk, partial, owed, skipped>>
    BY <1>7 DEF WaitDone, WaitBegin, ClientConnects, ClientGone, vars
  <2> QED BY <2>1, Zenon DEF SyncInv, InSyncUnlessSkipped, InSync
<1> QED BY <1>1, <1>2, <1>3, <1>4, <1>5, <1>6, <1>7, Zenon DEF Next

(* What the decoder has begun, the buffer and the socket hold are together *)
(* exactly the frames the daemon sent and the bridge has not handled, as   *)
(* long as no client write failure in bridge_rx_handle_framed_chunk has    *)
(* left the rest of a buffer: for every set of well-formed frames, every   *)
(* payload limit, however the reads of the two readers cut the stream, and *)
(* in whatever order clients, results and connections come, go and fail.   *)
(* It rests on the header: a frame that is complete has the length that    *)
(* the first frame owed has, so it is that frame.                          *)
THEOREM StaysInStep == Spec => []InSyncUnlessSkipped
<1>1. Init => SyncInv
  <2>1. SUFFICES ASSUME Init PROVE SyncInv
    OBVIOUS
  <2>2. <<>> \o <<>> = <<>>
    BY EmptyIsSeq, ConcatEmptySeq
  <2>3. InSync
    BY <2>1, <2>2, FlattenEmpty, Zenon DEF Init, InSync
  <2> QED BY <2>1, <2>3 DEF Init, SyncInv, InSyncUnlessSkipped
<1>2. IInv /\ SyncInv /\ [Next]_vars => SyncInv'
  BY StepSync
<1>3. SyncInv => InSyncUnlessSkipped
  BY DEF SyncInv
<1> QED
  BY <1>1, <1>2, <1>3, Invariant, PTL DEF Spec

-----------------------------------------------------------------------------
(* The AX.25 codec *)

(* Two elements in front of a sequence. *)
LEMMA TwoBefore ==
    ASSUME NEW S, NEW a \in S, NEW b \in S, NEW s \in Seq(S)
    PROVE  LET t == <<a, b>> \o s
           IN  /\ t \in Seq(S) /\ Len(t) = Len(s) + 2
               /\ t[1] = a /\ t[2] = b
               /\ \A i \in 1..Len(s) : t[i + 2] = s[i]
<1>1. <<a, b>> \in Seq(S) /\ Len(<<a, b>>) = 2 /\ <<a, b>>[1] = a /\ <<a, b>>[2] = b
  OBVIOUS
<1>2. Len(s) \in Nat
  OBVIOUS
<1> DEFINE h == <<a, b>>
<1> HIDE DEF h
<1>3. h \in Seq(S) /\ Len(h) = 2 /\ h[1] = a /\ h[2] = b
  BY <1>1 DEF h
<1>4. /\ h \o s \in Seq(S) /\ Len(h \o s) = Len(h) + Len(s)
      /\ \A i \in 1..(Len(h) + Len(s)) :
            (h \o s)[i] = IF i <= Len(h) THEN h[i] ELSE s[i - Len(h)]
  BY <1>3, ConcatProperties, Zenon
<1> QED
  BY <1>2, <1>3, <1>4 DEF h

(* ax25_encode_addr and ax25_decode_addr of one address. *)
LEMMA GroupOfAddr ==
    ASSUME NEW a \in Addrs, NEW l \in BOOLEAN, NEW b \in BOOLEAN
    PROVE  /\ EncodeAddr(a, l, b) \in Groups
           /\ EncodeAddr(a, l, b).call \in Calls
           /\ EncodeAddr(a, l, b).last = l
<1>1. a.call \in Calls /\ a.ssid \in 0..15
  BY DEF Addrs
<1> QED
  BY <1>1, Zenon DEF EncodeAddr, Groups

LEMMA StationBack ==
    ASSUME NEW a \in Addrs, ~a.repeated, NEW l, NEW b
    PROVE  DecodeAddr(EncodeAddr(a, l, b), FALSE) = a
<1>1. a = [call |-> a.call, ssid |-> a.ssid, repeated |-> a.repeated] /\ a.repeated = FALSE
  BY DEF Addrs
<1> QED
  BY <1>1, Zenon DEF EncodeAddr, DecodeAddr

LEMMA RepeaterBack ==
    ASSUME NEW a \in Addrs, NEW l
    PROVE  DecodeAddr(EncodeAddr(a, l, a.repeated), TRUE) = a
<1>1. a = [call |-> a.call, ssid |-> a.ssid, repeated |-> a.repeated] /\ a.repeated \in BOOLEAN
  BY DEF Addrs
<1>2. (TRUE /\ a.repeated) = a.repeated
  BY <1>1
<1>3. DecodeAddr(EncodeAddr(a, l, a.repeated), TRUE)
        = [call |-> a.call, ssid |-> a.ssid, repeated |-> (TRUE /\ a.repeated)]
  BY Zenon DEF EncodeAddr, DecodeAddr
<1> QED
  BY <1>1, <1>2, <1>3

(* The groups ax25_encode_ui writes: destination, source, then the path in *)
(* its order.                                                              *)
LEMMA EncodedGroups ==
    ASSUME NEW Text, NEW f \in UiFrames(Text)
    PROVE  LET r == EncodeUi(f)
               n == Len(f.path)
           IN  /\ Len(r.addrs) = n + 2
               /\ r.addrs[1] = EncodeAddr(f.dst, FALSE, TRUE)
               /\ r.addrs[2] = EncodeAddr(f.src, f.path = <<>>, FALSE)
               /\ \A i \in 1..n :
                     r.addrs[i + 2] = EncodeAddr(f.path[i], i = n, f.path[i].repeated)
<1> DEFINE n == Len(f.path)
           g(i) == EncodeAddr(f.path[i], i = n, f.path[i].repeated)
           d == EncodeAddr(f.dst, FALSE, TRUE)
           s == EncodeAddr(f.src, f.path = <<>>, FALSE)
           rest == [i \in DOMAIN f.path |-> g(i)]
<1>1. f.dst \in Addrs /\ f.src \in Addrs /\ f.path \in Seq(Addrs)
  BY DEF UiFrames
<1>2. n \in Nat /\ DOMAIN f.path = 1..n /\ \A i \in 1..n : f.path[i] \in Addrs
  BY <1>1
<1>3. \A a \in Addrs : a.repeated \in BOOLEAN
  BY DEF Addrs
<1>4. d \in Groups /\ s \in Groups
  BY <1>1, GroupOfAddr
<1>5. \A i \in 1..n : g(i) \in Groups
  BY <1>2, <1>3, GroupOfAddr
<1>6. EncodeUi(f).addrs = <<d, s>> \o rest
  BY DEF EncodeUi
<1> HIDE DEF g, d, s
<1>7. rest \in Seq(Groups) /\ Len(rest) = n /\ \A i \in 1..n : rest[i] = g(i)
  BY <1>2, <1>5
<1> HIDE DEF rest
<1>8. LET t == <<d, s>> \o rest
      IN  /\ Len(t) = Len(rest) + 2 /\ t[1] = d /\ t[2] = s
          /\ \A i \in 1..Len(rest) : t[i + 2] = rest[i]
  BY <1>4, <1>7, TwoBefore
<1> QED
  BY <1>6, <1>7, <1>8 DEF g, d, s

(* What the bridge encodes for its client (ax25_encode_ui) is a UI frame   *)
(* ax25_decode_ui takes and decodes to the same addresses, marks and       *)
(* payload: neither the extension bit nor the C and H bits get mixed up.   *)
THEOREM EncodeThenDecode ==
    ASSUME NEW Text, NEW f \in UiFrames(Text), Encodable(f),
           ~f.dst.repeated, ~f.src.repeated
    PROVE  Decodable(EncodeUi(f)) /\ DecodeUi(EncodeUi(f)) = f
<1> DEFINE n == Len(f.path)
           r == EncodeUi(f)
<1>1. f.dst \in Addrs /\ f.src \in Addrs /\ f.path \in Seq(Addrs) /\ n \in Nat
      /\ \A i \in 1..n : f.path[i] \in Addrs
  BY DEF UiFrames
<1>2. /\ Len(r.addrs) = n + 2
      /\ r.addrs[1] = EncodeAddr(f.dst, FALSE, TRUE)
      /\ r.addrs[2] = EncodeAddr(f.src, f.path = <<>>, FALSE)
      /\ \A i \in 1..n : r.addrs[i + 2] = EncodeAddr(f.path[i], i = n, f.path[i].repeated)
  BY EncodedGroups
<1>3. r.control = "ui" /\ r.info = f.payload
  BY DEF EncodeUi
<1>4. Decodable(r)
  <2> HIDE DEF r
  <2>1. n + 2 \in 2..MaxAddrs /\ Len(r.info) <= MaxInfo
    BY <1>1, <1>3, LimitsAssumption DEF Encodable
  <2>2. \A i \in 1..(n + 2) : r.addrs[i].call \in Calls /\ (r.addrs[i].last <=> i = n + 2)
    <3>1. r.addrs[1].call \in Calls /\ r.addrs[1].last = FALSE
      BY <1>1, <1>2, GroupOfAddr
    <3>2. r.addrs[2].call \in Calls /\ r.addrs[2].last = (f.path = <<>>)
      BY <1>1, <1>2, GroupOfAddr
    <3>3. (f.path = <<>>) <=> n = 0
      BY <1>1, EmptySeq
    <3>4. ASSUME NEW i \in 1..n
          PROVE  r.addrs[i + 2].call \in Calls /\ r.addrs[i + 2].last = (i = n)
      <4>1. f.path[i] \in Addrs /\ f.path[i].repeated \in BOOLEAN
        BY <1>1 DEF Addrs
      <4>2. (i = n) \in BOOLEAN
        OBVIOUS
      <4>3. LET e == EncodeAddr(f.path[i], i = n, f.path[i].repeated)
            IN  e.call \in Calls /\ e.last = (i = n)
        BY <4>1, <4>2, GroupOfAddr, Zenon
      <4> QED
        BY <4>3, <1>2, Zenon
    <3>5. ASSUME NEW i \in 1..(n + 2)
          PROVE  r.addrs[i].call \in Calls /\ (r.addrs[i].last <=> i = n + 2)
      <4>1. i = 1 \/ i = 2 \/ (i - 2 \in 1..n /\ (i - 2) + 2 = i)
        BY <1>1
      <4>2. CASE i = 1
        <5>1. 1 # n + 2
          BY <1>1
        <5> QED
          BY <4>2, <3>1, <5>1, Zenon
      <4>3. CASE i = 2
        <5>1. (2 = n + 2) <=> (n = 0)
          BY <1>1
        <5> QED
          BY <4>3, <3>2, <3>3, <5>1, Zenon
      <4>4. CASE i - 2 \in 1..n /\ (i - 2) + 2 = i
        <5>1. r.addrs[i].call \in Calls /\ r.addrs[i].last = (i - 2 = n)
          BY <4>4, <3>4
        <5>2. (i - 2 = n) <=> (i = n + 2)
          BY <1>1
        <5> QED
          BY <5>1, <5>2
      <4> QED
        BY <4>1, <4>2, <4>3, <4>4
    <3> QED
      BY <3>5
  <2> QED
    BY <1>2, <1>3, <2>1, <2>2 DEF Decodable
<1>5. DecodeUi(r) = f
  <2> HIDE DEF r
  <2>1. DecodeAddr(r.addrs[1], FALSE) = f.dst /\ DecodeAddr(r.addrs[2], FALSE) = f.src
    <3>1. DecodeAddr(EncodeAddr(f.dst, FALSE, TRUE), FALSE) = f.dst
      BY <1>1, StationBack, Zenon
    <3>2. \A l : DecodeAddr(EncodeAddr(f.src, l, FALSE), FALSE) = f.src
      BY <1>1, StationBack, Zenon
    <3>3. \E l : r.addrs[2] = EncodeAddr(f.src, l, FALSE)
      BY <1>2, Zenon
    <3>4. DecodeAddr(r.addrs[2], FALSE) = f.src
      BY <3>2, <3>3, Zenon
    <3>5. r.addrs[1] = EncodeAddr(f.dst, FALSE, TRUE)
      BY <1>2
    <3> QED
      BY <3>1, <3>4, <3>5, Zenon
  <2>2. \A i \in 1..n : DecodeAddr(r.addrs[i + 2], TRUE) = f.path[i]
    <3> SUFFICES ASSUME NEW i \in 1..n
                 PROVE  DecodeAddr(r.addrs[i + 2], TRUE) = f.path[i]
      OBVIOUS
    <3>1. DecodeAddr(EncodeAddr(f.path[i], i = n, f.path[i].repeated), TRUE) = f.path[i]
      BY <1>1, RepeaterBack, Zenon
    <3> QED
      BY <3>1, <1>2, Zenon
  <2>3. [i \in 1..n |-> DecodeAddr(r.addrs[i + 2], TRUE)] = f.path
    <3>1. f.path = [i \in 1..n |-> f.path[i]]
      BY <1>1
    <3>2. [i \in 1..n |-> DecodeAddr(r.addrs[i + 2], TRUE)] = [i \in 1..n |-> f.path[i]]
      BY <2>2, Zenon
    <3> QED
      BY <3>1, <3>2, Zenon
  <2>4. Len(r.addrs) - 2 = n
    BY <1>1, <1>2
  <2> QED
    BY <2>1, <2>3, <2>4, <1>3 DEF DecodeUi, UiFrames
<1> QED
  BY <1>4, <1>5

-----------------------------------------------------------------------------
(* Headers and texts of a packet *)

LEMMA HeaderIs ==
    ASSUME NEW t \in Seq(Tokens), NEW i \in Nat \ {0}
    PROVE  HeaderAt(t, i) <=> i + 2 <= Len(t) /\ t[i] = "H0" /\ t[i + 1] = "H1" /\ t[i + 2] = "H2"
<1>1. CASE i + 2 <= Len(t)
  <2> DEFINE s == SubSeq(t, i, i + 2)
  <2>1. /\ Len(s) = 3 /\ s[1] = t[i] /\ s[2] = t[i + 1] /\ s[3] = t[i + 2] /\ s \in Seq(Tokens)
    BY <1>1
  <2>2. Hdr = <<"H0", "H1", "H2">> /\ Len(Hdr) = 3 /\ Hdr[1] = "H0" /\ Hdr[2] = "H1" /\ Hdr[3] = "H2"
    BY DEF Hdr
  <2> HIDE DEF s
  <2>3. ASSUME s[1] = "H0", s[2] = "H1", s[3] = "H2" PROVE s = <<"H0", "H1", "H2">>
    BY <2>1, <2>3
  <2> QED BY <1>1, <2>1, <2>2, <2>3 DEF HeaderAt, s
<1>2. CASE ~(i + 2 <= Len(t))
  BY <1>2 DEF HeaderAt
<1> QED BY <1>1, <1>2

(* The header bytes are no line ends. *)
LEMMA HdrFacts ==
    /\ "H0" \notin EOL /\ "H1" \notin EOL /\ "H2" \notin EOL
    /\ "H0" # "H1" /\ "H0" # "H2" /\ "H1" # "H2"
    /\ "H0" \in Tokens /\ "H1" \in Tokens /\ "H2" \in Tokens
BY TokensAssumption DEF EOL, Signs

(* The place where a text ends, and the text of a header. *)
Stops(t, j) == HeaderAt(t, j) \/ t[j] \in EOL

EndsAt(t, i, m) ==
    /\ m \in (i + 3)..(Len(t) + 1)
    /\ m = Len(t) + 1 \/ Stops(t, m)
    /\ \A j \in (i + 3)..(m - 1) : ~Stops(t, j)

LEMMA TextTo ==
    ASSUME NEW t \in Seq(Tokens), NEW i \in Nat \ {0}, NEW m, EndsAt(t, i, m)
    PROVE  TextAfter(t, i) = SubSeq(t, i + 3, m - 1)
<1> DEFINE S == {j \in (i + 3)..Len(t) : HeaderAt(t, j) \/ t[j] \in EOL} \cup {Len(t) + 1}
<1>1. S \in SUBSET Nat
  OBVIOUS
<1>2. m \in S
  BY DEF EndsAt, Stops
<1>3. \A j \in S : m <= j
  <2> SUFFICES ASSUME NEW j \in S, j < m PROVE FALSE
    BY <1>1, <1>2
  <2>1. j \in (i + 3)..(m - 1) /\ Stops(t, j)
    BY DEF EndsAt, Stops
  <2> QED BY <2>1 DEF EndsAt
<1>4. TextAfter(t, i) = SubSeq(t, i + 3, Min(S) - 1)
  BY DEF TextAfter
<1> HIDE DEF S
<1>5. Min(S) = m
  BY <1>1, <1>2, <1>3, MinIs
<1> QED BY <1>4, <1>5

LEMMA EndExists ==
    ASSUME NEW t \in Seq(Tokens), NEW i \in Nat \ {0}, i + 2 <= Len(t)
    PROVE  \E m : EndsAt(t, i, m)
<1> DEFINE S == {j \in (i + 3)..(Len(t) + 1) : j = Len(t) + 1 \/ Stops(t, j)}
<1>1. Len(t) + 1 \in S /\ S \in SUBSET Nat
  OBVIOUS
<1>2. PICK m \in S : \A j \in S : m <= j
  <2> HIDE DEF S
  <2> QED BY <1>1, Smallest
<1>3. \A j \in (i + 3)..(m - 1) : ~Stops(t, j)
  <2> SUFFICES ASSUME NEW j \in (i + 3)..(m - 1), Stops(t, j) PROVE FALSE
    OBVIOUS
  <2>1. j \in S /\ j < m
    OBVIOUS
  <2> QED BY <1>1, <1>2, <2>1
<1>4. EndsAt(t, i, m)
  BY <1>2, <1>3 DEF EndsAt
<1> QED BY <1>4

(* A text that has an end within t, before its last byte. *)
Ended(t, i) == \E j \in (i + 3)..Len(t) : Stops(t, j)

(* How many bytes of a header t ends with. *)
HdrBegun(t) ==
    CASE t # <<>> /\ t[Len(t)] = "H0" -> 1
      [] Len(t) > 1 /\ t[Len(t)] = "H1" /\ t[Len(t) - 1] = "H0" -> 2
      [] OTHER -> 0

LEMMA BegunFacts ==
    ASSUME NEW t \in Seq(Tokens)
    PROVE  /\ HdrBegun(t) \in 0..2 /\ HdrBegun(t) <= Len(t)
           /\ HdrBegun(t) = 1 <=> t # <<>> /\ t[Len(t)] = "H0"
           /\ HdrBegun(t) = 2 <=> Len(t) > 1 /\ t[Len(t)] = "H1" /\ t[Len(t) - 1] = "H0"
           /\ t # <<>> <=> Len(t) > 0
<1>1. t # <<>> <=> Len(t) > 0
  OBVIOUS
<1>2. CASE t # <<>> /\ t[Len(t)] = "H0"
  BY <1>1, <1>2, HdrFacts DEF HdrBegun
<1>3. CASE Len(t) > 1 /\ t[Len(t)] = "H1" /\ t[Len(t) - 1] = "H0"
  BY <1>1, <1>3, HdrFacts DEF HdrBegun
<1>4. CASE ~(t # <<>> /\ t[Len(t)] = "H0") /\ ~(Len(t) > 1 /\ t[Len(t)] = "H1" /\ t[Len(t) - 1] = "H0")
  BY <1>1, <1>4, HdrFacts DEF HdrBegun
<1> QED BY <1>2, <1>3, <1>4

LEMMA BegunAppend ==
    ASSUME NEW t \in Seq(Tokens), NEW b \in Tokens
    PROVE  HdrBegun(Append(t, b)) = IF b = "H0" THEN 1 ELSE IF b = "H1" /\ HdrBegun(t) = 1 THEN 2 ELSE 0
<1> DEFINE v == Append(t, b)
           n == Len(t)
<1>1. /\ v \in Seq(Tokens) /\ n \in Nat /\ Len(v) = n + 1 /\ v[n + 1] = b
      /\ n > 0 => v[n] = t[n]
      /\ (n + 1) - 1 = n
  OBVIOUS
<1> HIDE DEF v, n
<1>2. /\ HdrBegun(v) \in 0..2
      /\ HdrBegun(v) = 1 <=> b = "H0"
      /\ HdrBegun(v) = 2 <=> n > 0 /\ b = "H1" /\ t[n] = "H0"
  BY <1>1, BegunFacts
<1>3. HdrBegun(t) = 1 <=> n > 0 /\ t[n] = "H0"
  BY BegunFacts DEF n
<1>4. HdrBegun(v) = IF b = "H0" THEN 1 ELSE IF b = "H1" /\ HdrBegun(t) = 1 THEN 2 ELSE 0
  BY <1>1, <1>2, <1>3, HdrFacts
<1> QED BY <1>4 DEF v

(* One byte more may complete a header. *)
LEMMA HeaderAppend ==
    ASSUME NEW t \in Seq(Tokens), NEW b \in Tokens, NEW i \in Nat \ {0}
    PROVE  HeaderAt(Append(t, b), i) <=>
               HeaderAt(t, i) \/ (i = Len(t) - 1 /\ HdrBegun(t) = 2 /\ b = "H2")
<1> DEFINE v == Append(t, b)
           n == Len(t)
<1>1. /\ v \in Seq(Tokens) /\ n \in Nat /\ Len(v) = n + 1 /\ v[n + 1] = b
      /\ \A j \in 1..n : v[j] = t[j]
  OBVIOUS
<1> HIDE DEF v
<1>2. HeaderAt(v, i) <=> i + 2 <= n + 1 /\ v[i] = "H0" /\ v[i + 1] = "H1" /\ v[i + 2] = "H2"
  BY <1>1, HeaderIs
<1>3. HeaderAt(t, i) <=> i + 2 <= n /\ t[i] = "H0" /\ t[i + 1] = "H1" /\ t[i + 2] = "H2"
  BY HeaderIs
<1>4. HdrBegun(t) = 2 <=> n > 1 /\ t[n] = "H1" /\ t[n - 1] = "H0"
  BY BegunFacts
<1>5. CASE i + 2 <= n
  <2>1. v[i] = t[i] /\ v[i + 1] = t[i + 1] /\ v[i + 2] = t[i + 2] /\ i # n - 1
    BY <1>1, <1>5
  <2> QED BY <1>1, <1>2, <1>3, <1>5, <2>1 DEF v
<1>6. CASE i + 2 = n + 1
  <2>1. i = n - 1 /\ i + 1 = n /\ v[i] = t[i] /\ v[n] = t[n] /\ n > 1 /\ ~(i + 2 <= n) /\ i + 2 <= n + 1
    BY <1>1, <1>6
  <2> QED BY <1>1, <1>2, <1>3, <1>4, <1>6, <2>1 DEF v
<1>7. CASE i + 2 > n + 1
  BY <1>1, <1>2, <1>3, <1>7 DEF v
<1> QED BY <1>1, <1>5, <1>6, <1>7

LEMMA HeaderMono ==
    ASSUME NEW t \in Seq(Tokens), NEW b \in Tokens, NEW i \in 1..Len(t), Stops(t, i)
    PROVE  Stops(Append(t, b), i)
<1>1. i \in Nat \ {0} /\ Append(t, b)[i] = t[i]
  OBVIOUS
<1> QED BY <1>1, HeaderAppend DEF Stops

(* A header begun at the end lies behind every complete one. *)
LEMMA BegunBehind ==
    ASSUME NEW t \in Seq(Tokens), NEW i \in Nat \ {0}, HeaderAt(t, i)
    PROVE  i + 2 <= Len(t) - HdrBegun(t)
<1>1. i + 2 <= Len(t) /\ t[i + 1] = "H1" /\ t[i + 2] = "H2"
  BY HeaderIs
<1>2. CASE HdrBegun(t) = 0
  BY <1>1, <1>2
<1>3. CASE HdrBegun(t) = 1
  <2>1. t[Len(t)] = "H0"
    BY <1>3, BegunFacts
  <2>2. i + 2 # Len(t)
    BY <1>1, <2>1, HdrFacts
  <2> QED BY <1>1, <1>3, <2>2
<1>4. CASE HdrBegun(t) = 2
  <2>1. t[Len(t)] = "H1" /\ t[Len(t) - 1] = "H0"
    BY <1>4, BegunFacts
  <2>2. i + 2 # Len(t) /\ i + 2 # Len(t) - 1
    BY <1>1, <2>1, HdrFacts
  <2> QED BY <1>1, <1>4, <2>2
<1> QED BY <1>2, <1>3, <1>4, BegunFacts

(* Only the last header can be without an end. *)
LEMMA LaterEnds ==
    ASSUME NEW t \in Seq(Tokens), NEW i \in Nat \ {0}, NEW j \in Nat \ {0},
           HeaderAt(t, i), HeaderAt(t, j), i < j
    PROVE  Ended(t, i)
<1>1. /\ i + 2 <= Len(t) /\ t[i + 1] = "H1" /\ t[i + 2] = "H2"
      /\ j + 2 <= Len(t) /\ t[j] = "H0"
  BY HeaderIs
<1>2. j # i + 1 /\ j # i + 2
  BY <1>1, HdrFacts
<1>3. j \in (i + 3)..Len(t)
  BY <1>1, <1>2
<1> QED BY <1>3 DEF Ended, Stops

LEMMA TextType ==
    ASSUME NEW t \in Seq(Tokens), NEW i \in Nat \ {0}, HeaderAt(t, i)
    PROVE  /\ TextAfter(t, i) \in Seq(Tokens)
           /\ ~Ended(t, i) => TextAfter(t, i) = SubSeq(t, i + 3, Len(t))
<1>1. i + 2 <= Len(t)
  BY HeaderIs
<1>2. PICK m : EndsAt(t, i, m)
  BY <1>1, EndExists
<1>3. TextAfter(t, i) = SubSeq(t, i + 3, m - 1)
  BY <1>2, TextTo
<1>4. m \in (i + 3)..(Len(t) + 1)
  BY <1>2 DEF EndsAt
<1>5. SubSeq(t, i + 3, m - 1) \in Seq(Tokens)
  BY <1>4
<1>6. ASSUME ~Ended(t, i) PROVE m - 1 = Len(t)
  <2>1. m = Len(t) + 1
    BY <1>2, <1>4, <1>6 DEF EndsAt, Ended
  <2> QED BY <2>1
<1> QED BY <1>3, <1>5, <1>6

(* What has ended stays as it is. *)
LEMMA EndedStays ==
    ASSUME NEW t \in Seq(Tokens), NEW b \in Tokens, NEW i \in Nat \ {0}, HeaderAt(t, i), Ended(t, i)
    PROVE  Ended(Append(t, b), i) /\ TextAfter(Append(t, b), i) = TextAfter(t, i)
<1> DEFINE v == Append(t, b)
           n == Len(t)
<1>1. /\ v \in Seq(Tokens) /\ n \in Nat /\ Len(v) = n + 1
      /\ \A j \in 1..n : v[j] = t[j]
  OBVIOUS
<1>2. i + 2 <= n
  BY HeaderIs
<1>3. PICK m : EndsAt(t, i, m)
  BY <1>2, EndExists
<1>4. m \in (i + 3)..n /\ Stops(t, m)
  BY <1>3 DEF EndsAt, Ended
<1>5. Stops(v, m)
  BY <1>4, HeaderMono
<1> HIDE DEF v
<1>6. ASSUME NEW j \in (i + 3)..(m - 1) PROVE ~Stops(v, j)
  <2>1. j \in 1..n /\ j \in Nat \ {0} /\ j < m
    BY <1>1, <1>4
  <2>2. ~HeaderAt(t, j) /\ t[j] \notin EOL
    BY <1>3 DEF EndsAt, Stops
  <2>3. ~(j = n - 1 /\ HdrBegun(t) = 2)
    <3> SUFFICES ASSUME j = n - 1, HdrBegun(t) = 2 PROVE FALSE
      OBVIOUS
    <3>1. m = n /\ t[n] = "H1"
      BY <1>1, <1>4, <2>1, BegunFacts
    <3>2. ~HeaderAt(t, n)
      BY <1>1, <2>1, HeaderIs
    <3> QED BY <1>4, <3>1, <3>2, HdrFacts DEF Stops
  <2>4. ~HeaderAt(v, j)
    BY <2>1, <2>2, <2>3, HeaderAppend DEF v
  <2> QED BY <1>1, <2>1, <2>2, <2>4 DEF Stops
<1>7. EndsAt(v, i, m)
  BY <1>1, <1>4, <1>5, <1>6 DEF EndsAt
<1>8. TextAfter(v, i) = SubSeq(v, i + 3, m - 1) /\ TextAfter(t, i) = SubSeq(t, i + 3, m - 1)
  BY <1>1, <1>3, <1>7, TextTo
<1>9. SubSeq(v, i + 3, m - 1) = SubSeq(t, i + 3, m - 1)
  <2>1. i + 3 \in Nat \ {0} /\ m - 1 \in 0..n
    BY <1>1, <1>4
  <2> QED BY <2>1, SubSeqSame DEF v
<1>10. Ended(v, i)
  BY <1>1, <1>4, <1>5 DEF Ended
<1> QED BY <1>8, <1>9, <1>10 DEF v

(* What has not ends with a line end or another header. *)
CompletesHeader(t, b) == HdrBegun(t) = 2 /\ b = "H2"

LEMMA EndsNow ==
    ASSUME NEW t \in Seq(Tokens), NEW b \in Tokens, NEW i \in Nat \ {0}, HeaderAt(t, i), ~Ended(t, i)
    PROVE  /\ Ended(Append(t, b), i) <=> b \in EOL \/ CompletesHeader(t, b)
           /\ b \in EOL => TextAfter(Append(t, b), i) = SubSeq(t, i + 3, Len(t))
           /\ CompletesHeader(t, b) => TextAfter(Append(t, b), i) = SubSeq(t, i + 3, Len(t) - 2)
           /\ \A j \in (i + 3)..Len(t) : ~CompletesHeader(t, b) => ~Stops(Append(t, b), j)
<1> DEFINE v == Append(t, b)
           n == Len(t)
<1>1. /\ v \in Seq(Tokens) /\ n \in Nat /\ Len(v) = n + 1 /\ v[n + 1] = b
      /\ \A j \in 1..n : v[j] = t[j]
  OBVIOUS
<1>2. i + 2 <= n /\ i + 2 <= n - HdrBegun(t)
  BY HeaderIs, BegunBehind
<1> HIDE DEF v
<1>3. ASSUME NEW j \in (i + 3)..n PROVE Stops(v, j) <=> j = n - 1 /\ CompletesHeader(t, b)
  <2>1. j \in 1..n /\ j \in Nat \ {0}
    BY <1>1
  <2>2. ~HeaderAt(t, j) /\ t[j] \notin EOL
    BY DEF Ended, Stops
  <2>3. HeaderAt(v, j) <=> j = n - 1 /\ CompletesHeader(t, b)
    BY <2>1, <2>2, HeaderAppend DEF v, CompletesHeader
  <2> QED BY <1>1, <2>1, <2>2, <2>3 DEF Stops
<1>4. Stops(v, n + 1) <=> b \in EOL
  <2>1. ~HeaderAt(v, n + 1)
    BY <1>1, HeaderIs
  <2> QED BY <1>1, <2>1 DEF Stops
<1>5. ASSUME b \in EOL PROVE Ended(v, i) /\ TextAfter(v, i) = SubSeq(v, i + 3, n)
  <2>1. ~CompletesHeader(t, b)
    BY <1>5, HdrFacts DEF CompletesHeader
  <2>2. n + 1 \in (i + 3)..Len(v) /\ (n + 1) - 1 = n
    BY <1>1, <1>2
  <2>3. EndsAt(v, i, n + 1)
    <3>1. \A j \in (i + 3)..((n + 1) - 1) : ~Stops(v, j)
      BY <1>3, <2>1, <2>2
    <3>2. n + 1 \in (i + 3)..(Len(v) + 1)
      BY <1>1, <2>2
    <3> QED BY <1>4, <1>5, <3>1, <3>2, Zenon DEF EndsAt
  <2>4. TextAfter(v, i) = SubSeq(v, i + 3, (n + 1) - 1)
    BY <1>1, <2>3, TextTo
  <2> QED BY <1>4, <1>5, <2>2, <2>4 DEF Ended
<1>6. ASSUME CompletesHeader(t, b) PROVE Ended(v, i) /\ TextAfter(v, i) = SubSeq(v, i + 3, n - 2)
  <2>1. n - 1 \in (i + 3)..n /\ (n - 1) - 1 = n - 2
    BY <1>1, <1>2, <1>6 DEF CompletesHeader
  <2>2. Stops(v, n - 1)
    BY <1>3, <1>6, <2>1
  <2>3. \A j \in (i + 3)..((n - 1) - 1) : ~Stops(v, j)
    BY <1>1, <1>3
  <2>4. n - 1 \in (i + 3)..Len(v) /\ n - 1 \in (i + 3)..(Len(v) + 1)
    BY <1>1, <2>1
  <2>5. EndsAt(v, i, n - 1)
    BY <2>2, <2>3, <2>4 DEF EndsAt
  <2>6. TextAfter(v, i) = SubSeq(v, i + 3, (n - 1) - 1)
    BY <1>1, <2>5, TextTo
  <2> QED BY <2>1, <2>2, <2>4, <2>6 DEF Ended
<1>7. ASSUME Ended(v, i) PROVE b \in EOL \/ CompletesHeader(t, b)
  <2>1. PICK j \in (i + 3)..(n + 1) : Stops(v, j)
    BY <1>1, <1>7 DEF Ended
  <2>2. CASE j = n + 1
    BY <1>4, <2>1, <2>2
  <2>3. CASE j # n + 1
    <3>1. j \in (i + 3)..n
      BY <1>1, <2>3
    <3> QED BY <1>3, <2>1, <3>1
  <2> QED BY <2>2, <2>3
<1>8. SubSeq(v, i + 3, n) = SubSeq(t, i + 3, n)
  <2>1. i + 3 \in Nat \ {0} /\ n \in 0..n
    BY <1>1
  <2> QED BY <2>1, SubSeqSame DEF v
<1>9. CompletesHeader(t, b) => SubSeq(v, i + 3, n - 2) = SubSeq(t, i + 3, n - 2)
  <2>1. i + 3 \in Nat \ {0} /\ n - 2 \in 0..n
    BY <1>1, <1>2
  <2> QED BY <2>1, SubSeqSame DEF v
<1> QED BY <1>3, <1>5, <1>6, <1>7, <1>8, <1>9 DEF v

(* Giving back a header that was only begun completes the text. *)
LEMMA PrefixBack ==
    ASSUME NEW t \in Seq(Tokens), NEW h \in Nat, h + 2 <= Len(t) - HdrBegun(t)
    PROVE  /\ SubSeq(t, h + 3, Len(t) - HdrBegun(t)) \in Seq(Tokens)
           /\ Len(SubSeq(t, h + 3, Len(t) - HdrBegun(t))) = Len(t) - HdrBegun(t) - h - 2
           /\ SubSeq(Hdr, 1, HdrBegun(t)) \in Seq(Tokens) /\ Len(SubSeq(Hdr, 1, HdrBegun(t))) = HdrBegun(t)
           /\ SubSeq(t, h + 3, Len(t) - HdrBegun(t)) \o SubSeq(Hdr, 1, HdrBegun(t))
                = SubSeq(t, h + 3, Len(t))
<1> DEFINE n == Len(t)
           g == HdrBegun(t)
           a == SubSeq(t, h + 3, n - g)
           c == SubSeq(Hdr, 1, g)
           d == SubSeq(t, h + 3, n)
<1>1. n \in Nat /\ g \in 0..2 /\ g <= n
  BY BegunFacts
<1>2. g = 1 => t[n] = "H0"
  BY BegunFacts
<1>3. g = 2 => t[n] = "H1" /\ t[n - 1] = "H0"
  BY BegunFacts
<1>4. Hdr \in Seq(Tokens) /\ Len(Hdr) = 3 /\ Hdr[1] = "H0" /\ Hdr[2] = "H1"
  BY HdrFacts DEF Hdr
<1> HIDE DEF g, n
<1>5. /\ a \in Seq(Tokens) /\ Len(a) = (n - g) - h - 2 /\ \A i \in 1..Len(a) : a[i] = t[h + 2 + i]
  <2>1. h + 2 <= n - g /\ n - g \in 0..n
    BY <1>1 DEF g, n
  <2> QED BY <1>1, <2>1 DEF n
<1>6. c \in Seq(Tokens) /\ Len(c) = g /\ \A i \in 1..g : c[i] = Hdr[i]
  <2>1. \A i \in 1..g : Hdr[i] \in Tokens
    <3>1. \A i \in 1..3 : Hdr[i] \in Tokens
      BY HdrFacts DEF Hdr
    <3>2. \A i \in 1..g : i \in 1..3
      BY <1>1
    <3> QED BY <3>1, <3>2
  <2>2. g \in Nat /\ g <= 3 /\ (IF 1 <= g THEN (g - 1) + 1 ELSE 0) = g
    BY <1>1
  <2> QED BY <1>4, <2>1, <2>2, SubSeqProperties
<1>7. d \in Seq(Tokens) /\ Len(d) = n - h - 2 /\ \A i \in 1..Len(d) : d[i] = t[h + 2 + i]
  <2>1. h + 2 <= n - g /\ h + 2 <= n
    BY <1>1 DEF g, n
  <2> QED BY <1>1, <2>1 DEF n
<1>8. a \o c = d
  <2> HIDE DEF a, c, d
  <2>1. Len(a \o c) = Len(d) /\ a \o c \in Seq(Tokens)
    <3>1. Len(a \o c) = Len(a) + Len(c) /\ a \o c \in Seq(Tokens)
      BY <1>5, <1>6, ConcatProperties
    <3>2. Len(a) + Len(c) = Len(d)
      BY <1>1, <1>5, <1>6, <1>7
    <3> QED BY <3>1, <3>2
  <2>2. ASSUME NEW i \in 1..Len(d) PROVE (a \o c)[i] = d[i]
    <3>1. CASE i <= Len(a)
      BY <1>5, <1>6, <1>7, <3>1, SMTT(30)
    <3>2. CASE i > Len(a)
      <4>1. i - Len(a) \in 1..g /\ (a \o c)[i] = c[i - Len(a)]
        BY <1>1, <1>5, <1>6, <1>7, <3>2
      <4>2. (a \o c)[i] = Hdr[i - Len(a)]
        BY <1>6, <4>1
      <4>3. d[i] = t[n - g + (i - Len(a))]
        BY <1>1, <1>5, <1>7
      <4>4. CASE g = 1
        <5>1. i - Len(a) = 1 /\ n - g + (i - Len(a)) = n
          BY <1>1, <4>1, <4>4
        <5> QED BY <1>2, <1>4, <4>2, <4>3, <4>4, <5>1
      <4>5. CASE g = 2
        <5>1. CASE i - Len(a) = 1
          <6>1. n - g + (i - Len(a)) = n - 1
            BY <1>1, <4>5, <5>1
          <6> QED BY <1>3, <1>4, <4>2, <4>3, <4>5, <5>1, <6>1
        <5>2. CASE i - Len(a) = 2
          <6>1. n - g + (i - Len(a)) = n
            BY <1>1, <4>5, <5>2
          <6> QED BY <1>3, <1>4, <4>2, <4>3, <4>5, <5>2, <6>1
        <5> QED BY <4>1, <4>5, <5>1, <5>2
      <4> QED BY <1>1, <4>1, <4>4, <4>5
    <3>3. i <= Len(a) \/ i > Len(a)
      <4>1. i \in Int /\ Len(a) \in Int
        BY <1>1, <1>5, <1>7
      <4> QED BY <4>1
    <3> QED BY <3>1, <3>2, <3>3, Zenon
  <2> QED BY <1>7, <2>1, <2>2, SeqEqual
<1> QED BY <1>5, <1>6, <1>8 DEF g, n

-----------------------------------------------------------------------------
(* The texts that have ended *)

EntryAt(t, i) ==
    IF HeaderAt(t, i) /\ Ended(t, i) /\ TextAfter(t, i) # <<>> THEN <<TextAfter(t, i)>> ELSE <<>>

Entries(t, k) == [i \in 1..k |-> EntryAt(t, i)]

EndedTexts(t, k) == FlattenSeq(Entries(t, k))

LEMMA EntryType ==
    ASSUME NEW t \in Seq(Tokens), NEW k \in Nat
    PROVE  /\ Entries(t, k) \in Seq(Seq(Seq(Tokens))) /\ Len(Entries(t, k)) = k
           /\ \A i \in 1..k : Entries(t, k)[i] = EntryAt(t, i)
<1>1. ASSUME NEW i \in 1..k PROVE EntryAt(t, i) \in Seq(Seq(Tokens))
  <2>0. i \in Nat \ {0}
    OBVIOUS
  <2>1. CASE HeaderAt(t, i)
    <3> DEFINE x == TextAfter(t, i)
    <3>1. x \in Seq(Tokens)
      BY <2>0, <2>1, TextType
    <3>2. EntryAt(t, i) \in {<<>>, <<x>>}
      BY DEF EntryAt
    <3> HIDE DEF x
    <3>3. <<>> \in Seq(Seq(Tokens)) /\ <<x>> \in Seq(Seq(Tokens))
      BY <3>1
    <3> QED BY <3>2, <3>3, Zenon
  <2>2. CASE ~HeaderAt(t, i)
    BY <2>2 DEF EntryAt
  <2> QED BY <2>1, <2>2
<1> QED BY <1>1 DEF Entries

LEMMA TextsCut ==
    ASSUME NEW t \in Seq(Tokens), NEW k \in Nat, NEW q \in Seq(Seq(Seq(Tokens))), k <= Len(q),
           \A i \in 1..k : q[i] = EntryAt(t, i), \A i \in (k + 1)..Len(q) : q[i] = <<>>
    PROVE  FlattenSeq(q) = EndedTexts(t, k)
<1> DEFINE p == Entries(t, k)
<1>1. /\ p \in Seq(Seq(Seq(Tokens))) /\ Len(p) = k /\ \A i \in 1..k : p[i] = EntryAt(t, i)
  BY EntryType
<1> HIDE DEF p
<1>2. /\ Len(p) <= Len(q) /\ \A i \in 1..Len(p) : p[i] = q[i]
  BY <1>1
<1>3. \A i \in (Len(p) + 1)..Len(q) : q[i] = <<>>
  BY <1>1
<1>4. FlattenSeq(q) = FlattenSeq(p)
  BY ONLY <1>1, <1>2, <1>3, q \in Seq(Seq(Seq(Tokens))), FlattenCut
<1> QED BY <1>4 DEF p, EndedTexts

LEMMA TextsOne ==
    ASSUME NEW t \in Seq(Tokens), NEW k \in Nat, NEW q \in Seq(Seq(Seq(Tokens))),
           NEW h \in 1..k, h <= Len(q), \A i \in 1..(h - 1) : q[i] = EntryAt(t, i),
           \A i \in h..k : EntryAt(t, i) = <<>>, \A i \in (h + 1)..Len(q) : q[i] = <<>>
    PROVE  /\ FlattenSeq(q) = EndedTexts(t, k) \o q[h]
           /\ EndedTexts(t, k) = EndedTexts(t, h - 1)
<1> DEFINE p == Entries(t, k)
<1>1. /\ p \in Seq(Seq(Seq(Tokens))) /\ Len(p) = k /\ \A i \in 1..k : p[i] = EntryAt(t, i)
  BY EntryType
<1> HIDE DEF p
<1>2. h \in 1..Len(p) /\ h <= Len(q) /\ \A i \in 1..(h - 1) : q[i] = p[i]
  BY <1>1, SMTT(30)
<1>3. \A i \in h..Len(p) : p[i] = <<>>
  BY <1>1
<1>4. FlattenSeq(q) = FlattenSeq(p) \o q[h]
  <2>1. Fills(p, q, h)
    BY <1>2, <1>3 DEF Fills
  <2> QED BY <1>1, <2>1, FlattenOne, SMTT(30)
<1>5. FlattenSeq(p) = EndedTexts(t, h - 1)
  <2> DEFINE g == h - 1
  <2>1. g \in Nat /\ g <= Len(p) /\ g + 1 = h
    BY <1>1
  <2>2. \A i \in 1..g : p[i] = EntryAt(t, i)
    BY <1>1
  <2>3. \A i \in (g + 1)..Len(p) : p[i] = <<>>
    BY <1>3, <2>1
  <2> HIDE DEF g
  <2>4. FlattenSeq(p) = EndedTexts(t, g)
    BY ONLY <1>1, <2>1, <2>2, <2>3, t \in Seq(Tokens), TextsCut
  <2> QED BY <2>4 DEF g
<1> QED BY <1>4, <1>5 DEF p, EndedTexts

(* A byte that ends a text. *)
Ending(t, b) == b \in EOL \/ CompletesHeader(t, b)

LEMMA EntryStep ==
    ASSUME NEW t \in Seq(Tokens), NEW b \in Tokens
    PROVE  /\ \A i \in 1..Len(t) :
                 ~(HeaderAt(t, i) /\ ~Ended(t, i) /\ Ending(t, b)) =>
                     EntryAt(Append(t, b), i) = EntryAt(t, i)
           /\ EntryAt(Append(t, b), Len(t) + 1) = <<>>
<1> DEFINE v == Append(t, b)
           n == Len(t)
<1>1. v \in Seq(Tokens) /\ n \in Nat /\ Len(v) = n + 1
  OBVIOUS
<1>2. ~HeaderAt(v, n + 1)
  <2> HIDE DEF v
  <2> QED BY <1>1, HeaderIs
<1>3. ASSUME NEW i \in 1..n, ~(HeaderAt(t, i) /\ ~Ended(t, i) /\ Ending(t, b))
      PROVE  EntryAt(v, i) = EntryAt(t, i)
  <2>0. i \in Nat \ {0}
    OBVIOUS
  <2>1. CASE HeaderAt(t, i) /\ Ended(t, i)
    <3>1. Ended(v, i) /\ TextAfter(v, i) = TextAfter(t, i) /\ HeaderAt(v, i)
      BY <2>0, <2>1, EndedStays, HeaderAppend
    <3> QED BY <2>1, <3>1, Zenon DEF EntryAt
  <2>2. CASE HeaderAt(t, i) /\ ~Ended(t, i)
    <3>1. ~Ended(v, i)
      BY <1>3, <2>0, <2>2, EndsNow DEF Ending
    <3> QED BY <2>2, <3>1 DEF EntryAt
  <2>3. CASE ~HeaderAt(t, i)
    <3>1. HeaderAt(v, i) => i = n - 1
      BY <2>0, <2>3, HeaderAppend
    <3>2. ~(HeaderAt(v, i) /\ Ended(v, i))
      <4> HIDE DEF v
      <4> QED BY <1>1, <3>1 DEF Ended
    <3> QED BY <2>3, <3>2 DEF EntryAt
  <2> QED BY <2>1, <2>2, <2>3
<1> QED BY <1>2, <1>3 DEF EntryAt

(* Nothing ends. *)
LEMMA TextsSame ==
    ASSUME NEW t \in Seq(Tokens), NEW b \in Tokens,
           \A i \in 1..Len(t) : ~(HeaderAt(t, i) /\ ~Ended(t, i) /\ Ending(t, b))
    PROVE  EndedTexts(Append(t, b), Len(t) + 1) = EndedTexts(t, Len(t))
<1> DEFINE v == Append(t, b)
           n == Len(t)
           q == Entries(v, n + 1)
<1>1. v \in Seq(Tokens) /\ n \in Nat /\ n + 1 \in Nat
  OBVIOUS
<1>2. (\A i \in 1..n : EntryAt(v, i) = EntryAt(t, i)) /\ EntryAt(v, n + 1) = <<>>
  BY EntryStep
<1> HIDE DEF v, n
<1>3. q \in Seq(Seq(Seq(Tokens))) /\ Len(q) = n + 1 /\ \A i \in 1..(n + 1) : q[i] = EntryAt(v, i)
  BY <1>1, EntryType
<1> HIDE DEF q
<1>4. n <= Len(q) /\ (\A i \in 1..n : q[i] = EntryAt(t, i)) /\ \A i \in (n + 1)..Len(q) : q[i] = <<>>
  BY <1>1, <1>2, <1>3
<1>5. FlattenSeq(q) = EndedTexts(t, n)
  BY ONLY <1>1, <1>3, <1>4, t \in Seq(Tokens), TextsCut
<1> QED BY <1>5 DEF q, v, n, EndedTexts

Pending(t, h) == h \in 1..Len(t) /\ HeaderAt(t, h) /\ ~Ended(t, h)

LEMMA PendingLast ==
    ASSUME NEW t \in Seq(Tokens), NEW h, Pending(t, h)
    PROVE  /\ \A i \in 1..Len(t) : HeaderAt(t, i) /\ i # h => i < h /\ Ended(t, i)
           /\ \A i \in h..Len(t) : EntryAt(t, i) = <<>>
           /\ EndedTexts(t, Len(t)) = EndedTexts(t, h - 1)
<1>1. h \in 1..Len(t) /\ h \in Nat \ {0} /\ HeaderAt(t, h) /\ ~Ended(t, h)
  BY DEF Pending
<1>2. ASSUME NEW i \in 1..Len(t), HeaderAt(t, i), i # h PROVE i < h /\ Ended(t, i)
  <2>1. i \in Nat \ {0}
    OBVIOUS
  <2>2. ~(h < i)
    BY <1>1, <1>2, <2>1, LaterEnds
  <2>3. i < h
    BY <1>1, <1>2, <2>1, <2>2
  <2> QED BY <1>1, <1>2, <2>1, <2>3, LaterEnds
<1>3. ASSUME NEW i \in h..Len(t) PROVE EntryAt(t, i) = <<>>
  <2>1. i \in 1..Len(t) /\ ~(i < h)
    BY <1>1
  <2>2. ~(HeaderAt(t, i) /\ Ended(t, i))
    BY <1>1, <1>2, <2>1
  <2> QED BY <2>2 DEF EntryAt
<1>4. EndedTexts(t, Len(t)) = EndedTexts(t, h - 1)
  <2> DEFINE q == Entries(t, Len(t))
             g == h - 1
  <2>1. Len(t) \in Nat /\ g \in Nat /\ g <= Len(t) /\ g + 1 = h
    BY <1>1
  <2>2. q \in Seq(Seq(Seq(Tokens))) /\ Len(q) = Len(t) /\ \A i \in 1..Len(t) : q[i] = EntryAt(t, i)
    BY <2>1, EntryType
  <2> HIDE DEF q, g
  <2>3. \A i \in 1..g : q[i] = EntryAt(t, i)
    BY <2>1, <2>2
  <2>4. \A i \in (g + 1)..Len(q) : q[i] = <<>>
    BY <1>1, <1>3, <2>1, <2>2
  <2>5. FlattenSeq(q) = EndedTexts(t, g)
    BY ONLY <2>1, <2>2, <2>3, <2>4, t \in Seq(Tokens), TextsCut
  <2> QED BY <2>5 DEF q, g, EndedTexts
<1> QED BY <1>2, <1>3, <1>4

(* It ends. *)
LEMMA TextsMore ==
    ASSUME NEW t \in Seq(Tokens), NEW b \in Tokens, NEW h, Pending(t, h), Ending(t, b)
    PROVE  EndedTexts(Append(t, b), Len(t) + 1) =
               EndedTexts(t, Len(t)) \o EntryAt(Append(t, b), h)
<1> DEFINE v == Append(t, b)
           n == Len(t)
           q == Entries(v, n + 1)
<1>1. v \in Seq(Tokens) /\ n \in Nat /\ n + 1 \in Nat
  OBVIOUS
<1>2. h \in 1..n
  BY DEF Pending
<1>3. ASSUME NEW i \in 1..n, i # h PROVE EntryAt(v, i) = EntryAt(t, i)
  BY <1>3, EntryStep, PendingLast
<1>4. EntryAt(v, n + 1) = <<>>
  BY EntryStep
<1>5. \A i \in h..n : EntryAt(t, i) = <<>>
  BY PendingLast
<1> HIDE DEF v, n
<1>6. q \in Seq(Seq(Seq(Tokens))) /\ Len(q) = n + 1 /\ \A i \in 1..(n + 1) : q[i] = EntryAt(v, i)
  BY <1>1, EntryType
<1> HIDE DEF q
<1>7. h <= Len(q) /\ \A i \in 1..(h - 1) : q[i] = EntryAt(t, i)
  BY <1>1, <1>2, <1>3, <1>6
<1>8. ASSUME NEW i \in (h + 1)..Len(q) PROVE q[i] = <<>>
  <2>1. CASE i = n + 1
    BY <1>1, <1>4, <1>6, <2>1, SMTT(30)
  <2>2. CASE i # n + 1
    <3>1. i \in h..n /\ i \in 1..n /\ i # h /\ i \in 1..(n + 1)
      BY <1>1, <1>2, <1>6, <2>2
    <3> QED BY <1>3, <1>5, <1>6, <3>1
  <2> QED BY <2>1, <2>2
<1>9. FlattenSeq(q) = EndedTexts(t, n) \o q[h]
  BY ONLY <1>1, <1>2, <1>5, <1>6, <1>7, <1>8, t \in Seq(Tokens), TextsOne
<1>10. q[h] = EntryAt(v, h)
  BY <1>1, <1>2, <1>6
<1> QED BY <1>9, <1>10 DEF q, v, n, EndedTexts

-----------------------------------------------------------------------------
(* The scanner *)

Scanner == [seen : BOOLEAN, hdr : 0..2, text : Seq(Tokens), out : Seq(Seq(Tokens)), err : BOOLEAN]

(* The texts that have ended are short enough. *)
Short(t, k) == \A i \in 1..k : HeaderAt(t, i) /\ Ended(t, i) => Len(TextAfter(t, i)) < MaxText

(* Within the text of the header at h. *)
Reads(x, t, h) ==
    Pending(t, h) /\ x = SubSeq(t, h + 3, Len(t) - HdrBegun(t)) /\ Len(x) < MaxText

Going(s, t) ==
    /\ s.hdr = HdrBegun(t) /\ s.out = EndedTexts(t, Len(t)) /\ Short(t, Len(t))
    /\ s.seen => \E h : Reads(s.text, t, h)
    /\ ~s.seen => \A h : ~Pending(t, h)

(* The text at k is too long whatever follows. *)
Overflows(t, k) ==
    /\ k \in 1..Len(t) /\ HeaderAt(t, k) /\ k + 2 + MaxText <= Len(t) - HdrBegun(t)
    /\ \A j \in (k + 3)..(k + 2 + MaxText) : ~Stops(t, j)

Failed(s, t) == \E k : Overflows(t, k) /\ Short(t, k - 1) /\ s.out = EndedTexts(t, k - 1)

Scans(s, t) == s \in Scanner /\ (s.err => Failed(s, t)) /\ (~s.err => Going(s, t))

LEMMA ShortStep ==
    ASSUME NEW t \in Seq(Tokens), NEW b \in Tokens, Short(t, Len(t)),
           \A h : Pending(t, h) /\ Ending(t, b) => Len(TextAfter(Append(t, b), h)) < MaxText
    PROVE  Short(Append(t, b), Len(t) + 1)
<1> DEFINE v == Append(t, b)
           n == Len(t)
<1>1. v \in Seq(Tokens) /\ n \in Nat /\ Len(v) = n + 1
  OBVIOUS
<1> SUFFICES ASSUME NEW i \in 1..(n + 1), HeaderAt(v, i), Ended(v, i)
             PROVE  Len(TextAfter(v, i)) < MaxText
  BY DEF Short
<1>2. i \in Nat \ {0}
  OBVIOUS
<1>3. i # n - 1 /\ i \in 1..n
  <2>1. i + 3 <= n + 1
    <3> HIDE DEF v
    <3> QED BY <1>1, <1>2 DEF Ended
  <2> QED BY <1>1, <1>2, <2>1
<1>4. HeaderAt(t, i)
  BY <1>2, <1>3, HeaderAppend
<1>5. CASE Ended(t, i)
  <2>1. TextAfter(v, i) = TextAfter(t, i)
    BY <1>2, <1>4, <1>5, EndedStays
  <2> QED BY <1>3, <1>4, <1>5, <2>1 DEF Short
<1>6. CASE ~Ended(t, i)
  <2>1. Pending(t, i)
    BY <1>3, <1>4, <1>6 DEF Pending
  <2>2. Ending(t, b)
    BY <1>2, <1>4, <1>6, EndsNow DEF Ending
  <2> QED BY <2>1, <2>2
<1> QED BY <1>5, <1>6

(* Which text is open after one byte more. *)
LEMMA PendingStep ==
    ASSUME NEW t \in Seq(Tokens), NEW b \in Tokens, NEW h
    PROVE  Pending(Append(t, b), h) <=>
               \/ Pending(t, h) /\ ~Ending(t, b)
               \/ h = Len(t) - 1 /\ CompletesHeader(t, b)
<1> DEFINE v == Append(t, b)
           n == Len(t)
<1>1. v \in Seq(Tokens) /\ n \in Nat /\ Len(v) = n + 1
  OBVIOUS
<1>2. ASSUME Pending(v, h) PROVE (Pending(t, h) /\ ~Ending(t, b)) \/ (h = n - 1 /\ CompletesHeader(t, b))
  <2>1. h \in 1..(n + 1) /\ h \in Nat \ {0} /\ HeaderAt(v, h) /\ ~Ended(v, h)
    BY <1>1, <1>2 DEF Pending
  <2>2. CASE HeaderAt(t, h)
    <3>1. ~Ended(t, h)
      BY <2>1, <2>2, EndedStays
    <3>2. ~Ending(t, b)
      BY <2>1, <2>2, <3>1, EndsNow DEF Ending
    <3>3. h \in 1..n
      BY <2>1, <2>2, HeaderIs
    <3> QED BY <2>2, <3>1, <3>2, <3>3 DEF Pending
  <2>3. CASE ~HeaderAt(t, h)
    BY <2>1, <2>3, HeaderAppend DEF CompletesHeader
  <2> QED BY <2>2, <2>3
<1>3. ASSUME Pending(t, h), ~Ending(t, b) PROVE Pending(v, h)
  <2>1. h \in 1..n /\ h \in Nat \ {0} /\ HeaderAt(t, h) /\ ~Ended(t, h)
    BY <1>3 DEF Pending
  <2>2. HeaderAt(v, h)
    BY <2>1, HeaderAppend
  <2>3. ~Ended(v, h)
    BY <1>3, <2>1, EndsNow DEF Ending
  <2>4. h \in 1..Len(v)
    BY <1>1, <2>1
  <2> HIDE DEF v
  <2> QED BY <2>2, <2>3, <2>4 DEF Pending
<1>4. ASSUME h = n - 1, CompletesHeader(t, b) PROVE Pending(v, h)
  <2>1. n > 1
    BY <1>4, BegunFacts DEF CompletesHeader
  <2>2. h \in 1..(n + 1) /\ h \in Nat \ {0}
    <3> HIDE DEF n
    <3>1. n - 1 \in 1..(n + 1) /\ n - 1 \in Nat \ {0}
      BY <1>1, <2>1
    <3> QED BY <1>4, <3>1
  <2>3. HeaderAt(v, h)
    BY <1>4, <2>2, HeaderAppend DEF CompletesHeader
  <2> HIDE DEF v
  <2>4. ~Ended(v, h)
    BY <1>1, <1>4 DEF Ended
  <2> QED BY <1>1, <2>2, <2>3, <2>4 DEF Pending
<1> QED BY <1>2, <1>3, <1>4 DEF v

(* Before any header, or after a line end. *)
LEMMA SearchStep ==
    ASSUME NEW t \in Seq(Tokens), NEW b \in Tokens, NEW s \in Scanner, Going(s, t), ~s.seen,
           NEW r \in Scanner, r.hdr = HdrBegun(Append(t, b)), r.out = s.out,
           r.seen <=> CompletesHeader(t, b), r.seen => r.text = <<>>
    PROVE  Going(r, Append(t, b))
<1> DEFINE v == Append(t, b)
           n == Len(t)
<1>1. v \in Seq(Tokens) /\ n \in Nat /\ Len(v) = n + 1
  OBVIOUS
<1>2. \A h : ~Pending(t, h)
  BY DEF Going
<1>3. EndedTexts(v, n + 1) = EndedTexts(t, n)
  <2>1. \A i \in 1..n : ~(HeaderAt(t, i) /\ ~Ended(t, i) /\ Ending(t, b))
    BY <1>2 DEF Pending
  <2> QED BY <2>1, TextsSame
<1>4. Short(v, n + 1)
  <2>1. Short(t, n)
    BY DEF Going
  <2> QED BY <1>2, <2>1, ShortStep
<1>5. \A h : Pending(v, h) <=> h = n - 1 /\ CompletesHeader(t, b)
  BY <1>2, PendingStep
<1>6. ASSUME r.seen PROVE Reads(r.text, v, n - 1)
  <2>1. HdrBegun(v) = 0
    <3>1. b = "H2"
      BY <1>6 DEF CompletesHeader
    <3> QED BY <3>1, BegunAppend, HdrFacts
  <2>2. Pending(v, n - 1)
    BY <1>5, <1>6
  <2> HIDE DEF v
  <2>3. SubSeq(v, (n - 1) + 3, (n + 1) - 0) = <<>>
    <3>1. (n - 1) + 3 \in Int /\ (n + 1) - 0 \in Int /\ (n + 1) - 0 < (n - 1) + 3
      BY <1>1
    <3> QED BY <3>1, SubSeqEmpty
  <2>4. Len(<<>>) < MaxText
    BY MaxTextAssumption
  <2> QED BY <1>1, <1>6, <2>1, <2>2, <2>3, <2>4 DEF Reads
<1>7. s.out = EndedTexts(t, n)
  BY DEF Going
<1>8. r.out = EndedTexts(v, Len(v))
  BY <1>1, <1>3, <1>7
<1>9. ~r.seen => \A h : ~Pending(v, h)
  BY <1>5
<1>10. r.seen => \E h : Reads(r.text, v, h)
  BY <1>6
<1>11. Short(v, Len(v))
  BY <1>1, <1>4
<1> HIDE DEF v
<1>12. r.hdr = HdrBegun(v)
  BY DEF v
<1>13. Going(r, v)
  BY <1>8, <1>9, <1>10, <1>11, <1>12, Zenon DEF Going
<1> QED BY <1>13 DEF v

(* Within a text that goes on. *)
LEMMA ReadStep ==
    ASSUME NEW t \in Seq(Tokens), NEW b \in Tokens, NEW s \in Scanner, Going(s, t),
           NEW h, Pending(t, h), ~Ending(t, b),
           NEW r \in Scanner, r.hdr = HdrBegun(Append(t, b)), r.out = s.out, r.seen,
           r.text = SubSeq(Append(t, b), h + 3, (Len(t) + 1) - HdrBegun(Append(t, b))),
           Len(r.text) < MaxText
    PROVE  Going(r, Append(t, b))
<1> DEFINE v == Append(t, b)
           n == Len(t)
<1>1. v \in Seq(Tokens) /\ n \in Nat /\ Len(v) = n + 1
  OBVIOUS
<1>3. EndedTexts(v, n + 1) = EndedTexts(t, n)
  BY TextsSame
<1>4. Short(v, n + 1)
  <2>1. Short(t, n)
    BY DEF Going
  <2> QED BY <2>1, ShortStep
<1>5. Pending(v, h)
  BY PendingStep
<1>6. r.text = SubSeq(v, h + 3, Len(v) - HdrBegun(v)) /\ Len(r.text) < MaxText
  <2>1. r.text = SubSeq(v, h + 3, (n + 1) - HdrBegun(v))
    OBVIOUS
  <2>2. Len(v) - HdrBegun(v) = (n + 1) - HdrBegun(v)
    BY <1>1, Zenon
  <2> HIDE DEF v, n
  <2> QED BY <2>1, <2>2, Zenon
<1>7. s.out = EndedTexts(t, n)
  BY DEF Going
<1>8. r.out = EndedTexts(v, Len(v)) /\ Short(v, Len(v))
  BY <1>1, <1>3, <1>4, <1>7
<1> HIDE DEF v
<1>9. r.hdr = HdrBegun(v)
  BY DEF v
<1>10. Reads(r.text, v, h)
  BY <1>5, <1>6 DEF Reads
<1>11. Going(r, v)
  BY <1>8, <1>9, <1>10, Zenon DEF Going
<1> QED BY <1>11 DEF v

(* A text that ends. *)
LEMMA EndStep ==
    ASSUME NEW t \in Seq(Tokens), NEW b \in Tokens, NEW s \in Scanner, Going(s, t),
           NEW h, Pending(t, h), Ending(t, b), NEW x,
           b \in EOL => x = SubSeq(t, h + 3, Len(t)),
           CompletesHeader(t, b) => x = SubSeq(t, h + 3, Len(t) - 2),
           Len(x) < MaxText,
           NEW r \in Scanner, r.hdr = HdrBegun(Append(t, b)),
           r.out = s.out \o (IF x = <<>> THEN <<>> ELSE <<x>>),
           r.seen <=> CompletesHeader(t, b), r.text = <<>>
    PROVE  Going(r, Append(t, b))
<1> DEFINE v == Append(t, b)
           n == Len(t)
<1>1. v \in Seq(Tokens) /\ n \in Nat /\ Len(v) = n + 1
  OBVIOUS
<1>2. h \in 1..n /\ h \in Nat \ {0} /\ HeaderAt(t, h) /\ ~Ended(t, h)
  BY DEF Pending
<1>3. HeaderAt(v, h) /\ Ended(v, h) /\ TextAfter(v, h) = x
  BY <1>2, EndsNow, HeaderAppend DEF Ending
<1>4. EntryAt(v, h) = IF x = <<>> THEN <<>> ELSE <<x>>
  BY <1>3, Zenon DEF EntryAt
<1>5. EndedTexts(v, n + 1) = EndedTexts(t, n) \o EntryAt(v, h)
  BY TextsMore
<1>6. \A g : Pending(t, g) => g = h
  <2> SUFFICES ASSUME NEW g, Pending(t, g), g # h PROVE FALSE
    OBVIOUS
  <2>1. g \in 1..n /\ HeaderAt(t, g) /\ ~Ended(t, g)
    BY DEF Pending
  <2> QED BY <2>1, PendingLast
<1>7. Short(v, n + 1)
  <2>1. Short(t, n)
    BY DEF Going
  <2>2. \A g : Pending(t, g) /\ Ending(t, b) => Len(TextAfter(v, g)) < MaxText
    BY <1>3, <1>6
  <2> QED BY <2>1, <2>2, ShortStep
<1>8. \A g : Pending(v, g) <=> g = n - 1 /\ CompletesHeader(t, b)
  BY PendingStep
<1>9. ASSUME r.seen PROVE Reads(r.text, v, n - 1)
  <2>1. HdrBegun(v) = 0
    <3>1. b = "H2"
      BY <1>9 DEF CompletesHeader
    <3> QED BY <3>1, BegunAppend, HdrFacts
  <2>2. Pending(v, n - 1)
    BY <1>8, <1>9
  <2> HIDE DEF v
  <2>3. SubSeq(v, (n - 1) + 3, (n + 1) - 0) = <<>>
    <3>1. (n - 1) + 3 \in Int /\ (n + 1) - 0 \in Int /\ (n + 1) - 0 < (n - 1) + 3
      BY <1>1
    <3> QED BY <3>1, SubSeqEmpty
  <2>4. Len(<<>>) < MaxText
    BY MaxTextAssumption
  <2> QED BY <1>1, <2>1, <2>2, <2>3, <2>4 DEF Reads
<1>10. s.out = EndedTexts(t, n)
  BY DEF Going
<1>11. r.out = EndedTexts(v, Len(v)) /\ Short(v, Len(v))
  BY <1>1, <1>4, <1>5, <1>7, <1>10
<1>12. ~r.seen => \A g : ~Pending(v, g)
  BY <1>8
<1>13. r.seen => \E g : Reads(r.text, v, g)
  BY <1>9
<1> HIDE DEF v
<1>14. r.hdr = HdrBegun(v)
  BY DEF v
<1>15. Going(r, v)
  BY <1>11, <1>12, <1>13, <1>14, Zenon DEF Going
<1> QED BY <1>15 DEF v

(* What lies before a header is settled. *)
LEMMA Settled ==
    ASSUME NEW t \in Seq(Tokens), NEW b \in Tokens, NEW k \in 1..Len(t), HeaderAt(t, k)
    PROVE  /\ Short(t, k - 1) => Short(Append(t, b), k - 1)
           /\ EndedTexts(Append(t, b), k - 1) = EndedTexts(t, k - 1)
<1> DEFINE v == Append(t, b)
           n == Len(t)
<1>1. k + 2 <= n
  BY HeaderIs
<1>2. ASSUME NEW i \in 1..(k - 1), HeaderAt(v, i) \/ HeaderAt(t, i)
      PROVE  HeaderAt(t, i) /\ Ended(t, i) /\ TextAfter(v, i) = TextAfter(t, i)
  <2>1. i \in Nat \ {0} /\ i < k /\ i # n - 1
    BY <1>1
  <2>2. HeaderAt(t, i)
    BY <1>2, <2>1, HeaderAppend
  <2>3. Ended(t, i)
    BY <2>1, <2>2, LaterEnds
  <2> QED BY <2>1, <2>2, <2>3, EndedStays
<1>3. ASSUME Short(t, k - 1) PROVE Short(v, k - 1)
  BY <1>2, <1>3 DEF Short
<1>4. \A i \in 1..(k - 1) : EntryAt(v, i) = EntryAt(t, i)
  <2>1. \A i \in 1..(k - 1) : i \in 1..n
    OBVIOUS
  <2> QED BY <1>2, <2>1, EntryStep
<1>5. Entries(v, k - 1) = Entries(t, k - 1)
  <2> HIDE DEF v
  <2> QED BY <1>4 DEF Entries
<1> QED BY <1>3, <1>5 DEF EndedTexts

(* A text that becomes too long. *)
LEMMA FailStep ==
    ASSUME NEW t \in Seq(Tokens), NEW b \in Tokens, NEW s \in Scanner, Going(s, t),
           NEW h, Pending(t, h), ~CompletesHeader(t, b), b \in EOL => h + 2 + MaxText <= Len(t),
           h + 2 + MaxText <= (Len(t) + 1) - HdrBegun(Append(t, b)),
           NEW r \in Scanner, r.out = s.out
    PROVE  Failed(r, Append(t, b))
<1> DEFINE v == Append(t, b)
           n == Len(t)
<1>1. v \in Seq(Tokens) /\ n \in Nat /\ Len(v) = n + 1 /\ v[n + 1] = b
  OBVIOUS
<1>2. h \in 1..n /\ h \in Nat \ {0} /\ HeaderAt(t, h) /\ ~Ended(t, h) /\ h \in 1..(n + 1)
  BY DEF Pending
<1>3. HeaderAt(v, h)
  BY <1>2, HeaderAppend
<1>4. \A j \in (h + 3)..n : ~Stops(v, j)
  BY <1>2, EndsNow
<1>5. HdrBegun(v) \in 0..2
  <2> HIDE DEF v
  <2> QED BY <1>1, BegunFacts
<1>6. Stops(v, n + 1) => b \in EOL
  <2>1. ~HeaderAt(v, n + 1)
    <3> HIDE DEF v
    <3> QED BY <1>1, HeaderIs
  <2> QED BY <1>1, <2>1 DEF Stops
<1>7. h + 2 + MaxText <= (n + 1) - HdrBegun(v)
  BY Zenon
<1> HIDE DEF v, n
<1>8. ASSUME NEW j \in (h + 3)..(h + 2 + MaxText) PROVE ~Stops(v, j)
  <2>1. j \in (h + 3)..(n + 1)
    BY <1>1, <1>2, <1>5, <1>7, MaxTextAssumption
  <2>2. j \in (h + 3)..n \/ j = n + 1
    BY <1>1, <2>1
  <2>3. CASE j = n + 1
    <3>1. ~(h + 2 + MaxText <= n)
      BY <1>1, <1>2, <2>3, MaxTextAssumption
    <3> QED BY <1>6, <2>3, <3>1 DEF n
  <2> QED BY <1>4, <2>2, <2>3
<1>9. Overflows(v, h)
  BY <1>1, <1>2, <1>3, <1>7, <1>8 DEF Overflows
<1>10. Short(t, h - 1)
  <2>1. Short(t, n)
    BY DEF Going, n
  <2>2. \A i \in 1..(h - 1) : i \in 1..n
    BY <1>1, <1>2
  <2> QED BY <2>1, <2>2 DEF Short
<1>11. Short(v, h - 1) /\ EndedTexts(v, h - 1) = EndedTexts(t, h - 1)
  BY <1>2, <1>10, Settled DEF v, n
<1>12. s.out = EndedTexts(t, h - 1)
  BY PendingLast DEF Going
<1>13. Failed(r, v)
  BY <1>9, <1>11, <1>12 DEF Failed
<1> QED BY <1>13 DEF v

(* After it nothing changes. *)
LEMMA FailStays ==
    ASSUME NEW t \in Seq(Tokens), NEW b \in Tokens, NEW s \in Scanner, Failed(s, t)
    PROVE  Failed(s, Append(t, b))
<1> DEFINE v == Append(t, b)
           n == Len(t)
<1>1. v \in Seq(Tokens) /\ n \in Nat /\ Len(v) = n + 1 /\ \A j \in 1..n : v[j] = t[j]
  OBVIOUS
<1>2. PICK k : Overflows(t, k) /\ Short(t, k - 1) /\ s.out = EndedTexts(t, k - 1)
  BY DEF Failed
<1>3. /\ k \in 1..n /\ k \in Nat \ {0} /\ HeaderAt(t, k) /\ k + 2 + MaxText <= n - HdrBegun(t)
      /\ \A j \in (k + 3)..(k + 2 + MaxText) : ~Stops(t, j)
  BY <1>2 DEF Overflows
<1>4. HdrBegun(t) \in 0..2
  BY BegunFacts
<1>5. HeaderAt(v, k)
  BY <1>3, HeaderAppend
<1>6. HdrBegun(v) <= HdrBegun(t) + 1 /\ HdrBegun(v) \in Int
  <2>1. HdrBegun(v) = IF b = "H0" THEN 1 ELSE IF b = "H1" /\ HdrBegun(t) = 1 THEN 2 ELSE 0
    BY BegunAppend
  <2> HIDE DEF v
  <2> QED BY <1>4, <2>1
<1>7. ASSUME NEW j \in (k + 3)..(k + 2 + MaxText) PROVE ~Stops(v, j)
  <2>1. j \in Nat \ {0} /\ j \in 1..n /\ j <= n - HdrBegun(t)
    BY <1>1, <1>3, <1>4, MaxTextAssumption
  <2>2. ~(j = n - 1 /\ HdrBegun(t) = 2)
    BY <1>1, <2>1
  <2>3. ~HeaderAt(v, j)
    BY <1>3, <2>1, <2>2, HeaderAppend DEF Stops
  <2> HIDE DEF v
  <2> QED BY <1>1, <1>3, <2>1, <2>3 DEF Stops
<1> HIDE DEF v
<1>8. k \in 1..Len(v) /\ k + 2 + MaxText <= Len(v) - HdrBegun(v)
  BY <1>1, <1>3, <1>4, <1>6, MaxTextAssumption
<1>9. Overflows(v, k)
  BY <1>5, <1>7, <1>8 DEF Overflows
<1>10. Short(v, k - 1) /\ EndedTexts(v, k - 1) = EndedTexts(t, k - 1)
  BY <1>2, <1>3, Settled DEF v
<1>11. Failed(s, v)
  BY <1>2, <1>9, <1>10 DEF Failed
<1> QED BY <1>11 DEF v

LEMMA ScannerFields ==
    ASSUME NEW s \in Scanner
    PROVE  /\ s.seen \in BOOLEAN /\ s.hdr \in 0..2 /\ s.text \in Seq(Tokens)
           /\ s.out \in Seq(Seq(Tokens)) /\ s.err \in BOOLEAN
BY DEF Scanner

(* A scanner with some fields changed. *)
LEMMA ScannerWith ==
    ASSUME NEW s \in Scanner, NEW k \in BOOLEAN, NEW h \in 0..2, NEW x \in Seq(Tokens),
           NEW o \in Seq(Seq(Tokens))
    PROVE  /\ [s EXCEPT !.text = x, !.hdr = h] \in Scanner
           /\ [s EXCEPT !.hdr = h] \in Scanner
           /\ [s EXCEPT !.seen = k, !.hdr = h, !.text = x] \in Scanner
           /\ [s EXCEPT !.seen = k, !.hdr = h, !.text = x, !.out = o] \in Scanner
<1>1. [s EXCEPT !.text = x, !.hdr = h] \in Scanner
  BY DEF Scanner
<1>2. [s EXCEPT !.seen = k, !.hdr = h, !.text = x] \in Scanner
  BY DEF Scanner
<1>3. [s EXCEPT !.seen = k, !.hdr = h, !.text = x, !.out = o] \in Scanner
  BY DEF Scanner
<1>4. [s EXCEPT !.hdr = h] \in Scanner
  BY DEF Scanner
<1> QED BY <1>1, <1>2, <1>3, <1>4

LEMMA AppendTextFacts ==
    ASSUME NEW s \in Scanner, NEW x \in Seq(Tokens)
    PROVE  /\ AppendText(s, x) \in Scanner /\ AppendText(s, x).out = s.out
           /\ Len(s.text) + Len(x) >= MaxText => AppendText(s, x).err
           /\ ~(Len(s.text) + Len(x) >= MaxText) =>
                 /\ AppendText(s, x).err = s.err /\ AppendText(s, x).seen = s.seen
                 /\ AppendText(s, x).text = s.text \o x /\ AppendText(s, x).hdr = 0
<1>1. Len(s.text) + Len(x) > MaxText - 1 <=> Len(s.text) + Len(x) >= MaxText
  BY MaxTextAssumption, ScannerFields
<1>2. CASE Len(s.text) + Len(x) >= MaxText
  <2> DEFINE r == [seen |-> FALSE, hdr |-> 0, text |-> <<>>, out |-> s.out, err |-> TRUE]
  <2>1. AppendText(s, x) = r
    BY <1>1, <1>2 DEF AppendText, RxFresh
  <2>2. r \in Scanner /\ r.out = s.out /\ r.err
    BY ScannerFields DEF Scanner
  <2> QED BY <1>2, <2>1, <2>2
<1>3. CASE ~(Len(s.text) + Len(x) >= MaxText)
  <2> DEFINE r == [s EXCEPT !.text = @ \o x, !.hdr = 0]
  <2>1. AppendText(s, x) = r
    BY <1>1, <1>3 DEF AppendText
  <2>2. s.text \o x \in Seq(Tokens)
    BY ScannerFields, ConcatProperties
  <2>3. r \in Scanner
    <3>1. 0 \in 0..2 /\ TRUE \in BOOLEAN /\ <<>> \in Seq(Seq(Tokens))
      OBVIOUS
    <3> QED BY <2>2, <3>1, ScannerWith, Zenon
  <2>4. r.out = s.out /\ r.err = s.err /\ r.seen = s.seen /\ r.text = s.text \o x /\ r.hdr = 0
    BY Zenon DEF Scanner
  <2> QED BY <1>3, <2>1, <2>3, <2>4, Zenon
<1> QED BY <1>2, <1>3

LEMMA EmitFacts ==
    ASSUME NEW s \in Scanner, NEW k \in BOOLEAN
    PROVE  /\ Emit(s, k) \in Scanner /\ Emit(s, k).seen = k /\ Emit(s, k).hdr = 0
           /\ Emit(s, k).text = <<>> /\ Emit(s, k).err = s.err
           /\ Emit(s, k).out = s.out \o (IF s.text = <<>> THEN <<>> ELSE <<s.text>>)
<1> DEFINE o == IF s.text = <<>> THEN s.out ELSE Append(s.out, s.text)
           r == [s EXCEPT !.seen = k, !.hdr = 0, !.text = <<>>, !.out = o]
<1>1. Emit(s, k) = r
  BY DEF Emit
<1>2. o \in Seq(Seq(Tokens)) /\ o = s.out \o (IF s.text = <<>> THEN <<>> ELSE <<s.text>>)
  <2>1. s.out \in Seq(Seq(Tokens)) /\ s.text \in Seq(Tokens)
    BY ScannerFields
  <2>2. s.out \o <<>> = s.out
    BY <2>1, ConcatEmptySeq
  <2>3. Append(s.out, s.text) \in Seq(Seq(Tokens)) /\ Append(s.out, s.text) = s.out \o <<s.text>>
    BY <2>1, AppendIsConcat
  <2> QED BY <2>1, <2>2, <2>3, Zenon
<1> HIDE DEF o
<1>3. r \in Scanner
  <2>1. 0 \in 0..2 /\ <<>> \in Seq(Tokens)
    OBVIOUS
  <2> QED BY <1>2, <2>1, ScannerWith, Zenon
<1>4. r.seen = k /\ r.hdr = 0 /\ r.text = <<>> /\ r.err = s.err /\ r.out = o
  BY Zenon DEF Scanner
<1> QED BY <1>1, <1>2, <1>3, <1>4, Zenon

LEMMA SearchFacts ==
    ASSUME NEW t \in Seq(Tokens), NEW b \in Tokens, NEW s \in Scanner, Going(s, t), ~s.seen, ~s.err
    PROVE  Scans(SearchHeader(s, b), Append(t, b))
<1> DEFINE v == Append(t, b)
           r == SearchHeader(s, b)
           h == IF b = Hdr[s.hdr + 1] THEN s.hdr + 1 ELSE IF b = Hdr[1] THEN 1 ELSE 0
<1>1. s.hdr = HdrBegun(t) /\ s.hdr \in 0..2
  BY ScannerFields DEF Going
<1>2. Hdr[1] = "H0" /\ Hdr[2] = "H1" /\ Hdr[3] = "H2" /\ Len(Hdr) = 3
  BY DEF Hdr
<1>3. HdrBegun(v) = IF b = "H0" THEN 1 ELSE IF b = "H1" /\ HdrBegun(t) = 1 THEN 2 ELSE 0
  BY BegunAppend
<1> HIDE DEF v
<1>4. /\ h \in 0..3 /\ (h = 3 <=> CompletesHeader(t, b)) /\ (h # 3 => h = HdrBegun(v))
      /\ (h = 3 => HdrBegun(v) = 0)
  <2>1. CASE s.hdr = 0
    BY <1>1, <1>2, <1>3, <2>1, HdrFacts DEF CompletesHeader
  <2>2. CASE s.hdr = 1
    BY <1>1, <1>2, <1>3, <2>2, HdrFacts DEF CompletesHeader
  <2>3. CASE s.hdr = 2
    BY <1>1, <1>2, <1>3, <2>3, HdrFacts DEF CompletesHeader
  <2> QED BY <1>1, <2>1, <2>2, <2>3
<1>5. r = IF h = 3 THEN [s EXCEPT !.seen = TRUE, !.hdr = 0, !.text = <<>>] ELSE [s EXCEPT !.hdr = h]
  BY <1>2 DEF SearchHeader
<1> HIDE DEF h
<1>6. /\ r \in Scanner /\ r.hdr = HdrBegun(v) /\ r.out = s.out /\ (r.seen <=> CompletesHeader(t, b))
      /\ (r.seen => r.text = <<>>) /\ ~r.err
  <2>1. CASE h = 3
    <3> DEFINE q == [s EXCEPT !.seen = TRUE, !.hdr = 0, !.text = <<>>]
    <3>1. q \in Scanner
      <4>1. 0 \in 0..2 /\ <<>> \in Seq(Tokens) /\ TRUE \in BOOLEAN /\ <<>> \in Seq(Seq(Tokens))
        OBVIOUS
      <4> QED BY <4>1, ScannerWith, Zenon
    <3>2. q.hdr = 0 /\ q.out = s.out /\ q.seen = TRUE /\ q.text = <<>> /\ q.err = s.err
      BY Zenon DEF Scanner
    <3>3. r = q
      BY <1>5, <2>1
    <3> HIDE DEF q, r
    <3> QED BY <1>4, <2>1, <3>1, <3>2, <3>3
  <2>2. CASE h # 3
    <3> DEFINE q == [s EXCEPT !.hdr = h]
    <3>0. h \in 0..2
      BY <1>4, <2>2
    <3>1. q \in Scanner /\ q.hdr = h /\ q.out = s.out /\ q.seen = s.seen /\ q.err = s.err
      BY <3>0 DEF Scanner
    <3> QED BY <1>4, <1>5, <2>2, <3>1
  <2> QED BY <2>1, <2>2
<1> HIDE DEF r
<1>7. Going(r, v)
  BY <1>6, SearchStep DEF v
<1> QED BY <1>6, <1>7 DEF Scans, r, v

(* The next byte of a header begun in a text. *)
LEMMA HeaderByte ==
    ASSUME NEW t \in Seq(Tokens), NEW b \in Tokens, NEW s \in Scanner, Going(s, t), s.seen, ~s.err,
           s.hdr > 0, b = Hdr[s.hdr + 1],
           NEW r, r = IF s.hdr + 1 = Len(Hdr) THEN Emit(s, TRUE) ELSE [s EXCEPT !.hdr = @ + 1]
    PROVE  Scans(r, Append(t, b))
<1> DEFINE v == Append(t, b)
           n == Len(t)
<1>1. s.hdr = HdrBegun(t) /\ s.hdr \in 1..2 /\ s.text \in Seq(Tokens)
  BY ScannerFields DEF Going
<1>2. Hdr[2] = "H1" /\ Hdr[3] = "H2" /\ Len(Hdr) = 3
  BY DEF Hdr
<1>3. PICK h : Reads(s.text, t, h)
  BY DEF Going
<1>4. Pending(t, h) /\ s.text = SubSeq(t, h + 3, n - HdrBegun(t)) /\ Len(s.text) < MaxText
  BY <1>3 DEF Reads
<1>5. HdrBegun(v) = IF b = "H0" THEN 1 ELSE IF b = "H1" /\ HdrBegun(t) = 1 THEN 2 ELSE 0
  BY BegunAppend
<1>6. CASE s.hdr = 2
  <2>1. b = "H2" /\ CompletesHeader(t, b) /\ Ending(t, b) /\ b \notin EOL /\ HdrBegun(v) = 0
    BY <1>1, <1>2, <1>5, <1>6, HdrFacts DEF CompletesHeader, Ending
  <2>2. s.text = SubSeq(t, h + 3, n - 2)
    BY <1>1, <1>4, <1>6
  <2>3. r = Emit(s, TRUE)
    BY <1>2, <1>6
  <2>4. /\ r \in Scanner /\ r.seen = TRUE /\ r.hdr = 0 /\ r.text = <<>> /\ r.err = s.err
        /\ r.out = s.out \o (IF s.text = <<>> THEN <<>> ELSE <<s.text>>)
    <3>1. TRUE \in BOOLEAN
      OBVIOUS
    <3> DEFINE e == Emit(s, TRUE)
    <3>2. /\ e \in Scanner /\ e.seen = TRUE /\ e.hdr = 0 /\ e.text = <<>> /\ e.err = s.err
          /\ e.out = s.out \o (IF s.text = <<>> THEN <<>> ELSE <<s.text>>)
      BY ONLY s \in Scanner, <3>1, EmitFacts
    <3> HIDE DEF e
    <3>3. r = e
      BY <2>3 DEF e
    <3> QED BY ONLY <3>2, <3>3
  <2>5. r.hdr = HdrBegun(v) /\ (r.seen <=> CompletesHeader(t, b))
    BY <2>1, <2>4
  <2>6. Going(r, v)
    <3>1. /\ Pending(t, h) /\ Ending(t, b) /\ Len(s.text) < MaxText
          /\ b \in EOL => s.text = SubSeq(t, h + 3, Len(t))
          /\ CompletesHeader(t, b) => s.text = SubSeq(t, h + 3, Len(t) - 2)
      BY <1>4, <2>1, <2>2, Zenon
    <3>2. r.hdr = HdrBegun(Append(t, b)) /\ (r.seen <=> CompletesHeader(t, b))
      BY <2>5, Zenon
    <3> QED BY <2>4, <3>1, <3>2, EndStep, ZenonT(40)
  <2> QED BY <2>4, <2>6 DEF Scans
<1>7. CASE s.hdr = 1
  <2>1. b = "H1" /\ ~Ending(t, b) /\ HdrBegun(v) = 2
    BY <1>1, <1>2, <1>5, <1>7, HdrFacts DEF CompletesHeader, Ending
  <2> DEFINE q == [s EXCEPT !.hdr = 2]
  <2>2. r = q
    BY <1>2, <1>7
  <2>3. q \in Scanner
    <3>1. 2 \in 0..2 /\ <<>> \in Seq(Tokens) /\ TRUE \in BOOLEAN /\ <<>> \in Seq(Seq(Tokens))
      OBVIOUS
    <3> QED BY <3>1, ScannerWith, Zenon
  <2>4. q.hdr = 2 /\ q.text = s.text /\ q.seen = s.seen /\ q.out = s.out /\ q.err = s.err
    BY Zenon DEF Scanner
  <2>5. s.text = SubSeq(v, h + 3, (n + 1) - HdrBegun(v))
    <3>1. (n + 1) - HdrBegun(v) = n - 1 /\ n - HdrBegun(t) = n - 1
      BY <1>1, <1>7, <2>1
    <3>2. h + 3 \in Nat \ {0} /\ n - 1 \in 0..n
      BY <1>1, <1>4, <1>7, BegunFacts DEF Pending
    <3>3. SubSeq(v, h + 3, n - 1) = SubSeq(t, h + 3, n - 1)
      BY <3>2, SubSeqSame
    <3> QED BY <1>4, <3>1, <3>3
  <2> HIDE DEF q, v
  <2>6. q.hdr = HdrBegun(v) /\ q.seen /\ q.text = SubSeq(v, h + 3, (n + 1) - HdrBegun(v)) /\ Len(q.text) < MaxText
    BY <1>4, <2>1, <2>4, <2>5
  <2>7. Going(q, v)
    BY <1>4, <2>1, <2>3, <2>4, <2>6, ReadStep DEF v
  <2> QED BY <2>2, <2>3, <2>4, <2>7 DEF Scans, v
<1>8. s.hdr = 1 \/ s.hdr = 2
  BY <1>1
<1> QED BY <1>6, <1>7, <1>8, Zenon

(* Any other byte of a text. *)
LEMMA OtherByte ==
    ASSUME NEW t \in Seq(Tokens), NEW b \in Tokens, NEW s \in Scanner, Going(s, t), s.seen, ~s.err,
           ~(s.hdr > 0 /\ b = Hdr[s.hdr + 1])
    PROVE  Scans(TextByte(s, b), Append(t, b))
<1> DEFINE v == Append(t, b)
           n == Len(t)
           p == Prefix(s)
           a == AppendText(s, p)
           r == TextByte(s, b)
<1>1. s.hdr = HdrBegun(t) /\ s.hdr \in 0..2 /\ s.text \in Seq(Tokens)
  BY ScannerFields DEF Going
<1>2. Hdr[1] = "H0" /\ Hdr[2] = "H1" /\ Hdr[3] = "H2" /\ Len(Hdr) = 3
  BY DEF Hdr
<1>3. PICK h : Reads(s.text, t, h)
  BY DEF Going
<1>4. Pending(t, h) /\ s.text = SubSeq(t, h + 3, n - HdrBegun(t)) /\ Len(s.text) < MaxText
  BY <1>3 DEF Reads
<1>5. h \in 1..n /\ h \in Nat /\ h \in Nat \ {0} /\ h + 2 <= n - HdrBegun(t)
  BY <1>4, BegunBehind DEF Pending
<1>6. ~CompletesHeader(t, b) /\ HdrBegun(v) = IF b = "H0" THEN 1 ELSE 0
  <2>1. HdrBegun(v) = IF b = "H0" THEN 1 ELSE IF b = "H1" /\ HdrBegun(t) = 1 THEN 2 ELSE 0
    BY BegunAppend
  <2>2. ~(HdrBegun(t) = 1 /\ b = "H1") /\ ~(HdrBegun(t) = 2 /\ b = "H2")
    BY <1>1, <1>2
  <2> QED BY <2>1, <2>2 DEF CompletesHeader
<1> DEFINE y == SubSeq(t, h + 3, n)
<1>7. /\ p \in Seq(Tokens) /\ s.text \o p = y /\ Len(s.text) + Len(p) = (n - h) - 2
      /\ y \in Seq(Tokens) /\ Len(y) = (n - h) - 2
  <2>1. p = SubSeq(Hdr, 1, HdrBegun(t))
    BY <1>1 DEF Prefix
  <2>2. /\ p \in Seq(Tokens) /\ Len(p) = HdrBegun(t) /\ s.text \o p = y
        /\ Len(s.text) = Len(t) - HdrBegun(t) - h - 2
    BY <1>4, <1>5, <2>1, PrefixBack
  <2>3. HdrBegun(t) \in 0..2 /\ n \in Nat
    BY BegunFacts
  <2>4. Len(s.text) + Len(p) = (n - h) - 2
    BY <1>5, <2>2, <2>3
  <2>5. s.text \o p \in Seq(Tokens) /\ Len(s.text \o p) = Len(s.text) + Len(p)
    BY <1>1, <2>2, ConcatProperties
  <2> QED BY <2>2, <2>4, <2>5
<1>8. n \in Nat /\ v \in Seq(Tokens)
  OBVIOUS
<1> HIDE DEF p, v, y
<1>9. CASE (n - h) - 2 >= MaxText
  <2>1. a \in Scanner /\ a.out = s.out /\ a.err
    BY <1>7, <1>9, AppendTextFacts
  <2>2. r = a
    BY <2>1 DEF TextByte, p
  <2> HIDE DEF a
  <2>3. h + 2 + MaxText <= n /\ h + 2 + MaxText <= (n + 1) - HdrBegun(v)
    BY <1>5, <1>6, <1>8, <1>9, MaxTextAssumption
  <2>4. Failed(a, v)
    BY <1>4, <1>6, <2>1, <2>3, FailStep DEF v
  <2> QED BY <2>1, <2>2, <2>4 DEF Scans, v
<1>10. CASE ~((n - h) - 2 >= MaxText)
  <2>1. /\ a \in Scanner /\ a.out = s.out /\ a.err = s.err /\ a.seen = s.seen
        /\ a.text = y /\ a.hdr = 0
    BY <1>7, <1>10, AppendTextFacts
  <2>2. r = CASE b \in EOL -> Emit(a, FALSE)
              [] b \notin EOL /\ b = "H0" -> [a EXCEPT !.hdr = 1]
              [] OTHER -> AppendText(a, <<b>>)
    <3>1. ~a.err
      BY <2>1
    <3>2. b \in EOL => b # "H0"
      BY HdrFacts
    <3>3. r = CASE a.err -> a
                [] ~a.err /\ b \in EOL -> Emit(a, FALSE)
                [] ~a.err /\ b = "H0" -> [a EXCEPT !.hdr = 1]
                [] OTHER -> AppendText(a, <<b>>)
      BY <1>2 DEF TextByte, p
    <3> HIDE DEF a, r
    <3>4. CASE b \in EOL
      BY <3>1, <3>2, <3>3, <3>4
    <3>5. CASE b = "H0"
      BY <3>1, <3>2, <3>3, <3>5
    <3>6. CASE b \notin EOL /\ b # "H0"
      BY <3>1, <3>2, <3>3, <3>6
    <3> QED BY <3>4, <3>5, <3>6
  <2> HIDE DEF a, r
  <2>3. Len(y) < MaxText
    BY <1>5, <1>7, <1>8, <1>10, MaxTextAssumption
  <2>4. CASE b \in EOL
    <3>1. r = Emit(a, FALSE)
      BY <2>2, <2>4
    <3>2. /\ r \in Scanner /\ r.seen = FALSE /\ r.hdr = 0 /\ r.text = <<>> /\ r.err = a.err
          /\ r.out = s.out \o (IF y = <<>> THEN <<>> ELSE <<y>>)
      <4>1. FALSE \in BOOLEAN
        OBVIOUS
      <4>2. /\ r \in Scanner /\ r.seen = FALSE /\ r.hdr = 0 /\ r.text = <<>> /\ r.err = a.err
            /\ r.out = a.out \o (IF a.text = <<>> THEN <<>> ELSE <<a.text>>)
        BY <2>1, <3>1, <4>1, EmitFacts, Zenon
      <4> QED BY <2>1, <4>2, Zenon
    <3>3. Ending(t, b) /\ HdrBegun(v) = 0
      BY <1>6, <2>4, HdrFacts DEF Ending
    <3>4. r.hdr = HdrBegun(v) /\ (r.seen <=> CompletesHeader(t, b))
      BY <1>6, <3>2, <3>3
    <3>5. Going(r, v)
      BY <1>4, <1>6, <2>3, <3>2, <3>3, <3>4, EndStep DEF v, y
    <3> QED BY <2>1, <3>2, <3>5 DEF Scans, v, r
  <2>5. CASE b = "H0"
    <3> DEFINE q == [a EXCEPT !.hdr = 1]
    <3>1. r = q /\ b \notin EOL
      BY <2>2, <2>5, HdrFacts
    <3>2. q \in Scanner
      <4>1. 1 \in 0..2 /\ <<>> \in Seq(Tokens) /\ TRUE \in BOOLEAN /\ <<>> \in Seq(Seq(Tokens))
        OBVIOUS
      <4> QED BY <2>1, <4>1, ScannerWith, Zenon
    <3>3. q.hdr = 1 /\ q.text = a.text /\ q.seen = a.seen /\ q.out = a.out /\ q.err = a.err
      BY <2>1, Zenon DEF Scanner
    <3> HIDE DEF q
    <3>4. HdrBegun(v) = 1 /\ ~Ending(t, b)
      BY <1>6, <2>5, <3>1 DEF Ending
    <3>5. y = SubSeq(v, h + 3, (n + 1) - HdrBegun(v))
      <4>1. (n + 1) - HdrBegun(v) = n /\ h + 3 \in Nat \ {0} /\ n \in 0..n
        BY <1>5, <1>8, <3>4
      <4>2. SubSeq(v, h + 3, n) = SubSeq(t, h + 3, n)
        BY <4>1, SubSeqSame DEF v
      <4> QED BY <4>1, <4>2 DEF y
    <3>6. /\ q.hdr = HdrBegun(v) /\ q.seen /\ q.text = SubSeq(v, h + 3, (n + 1) - HdrBegun(v))
          /\ Len(q.text) < MaxText /\ q.out = s.out
      BY <2>1, <2>3, <3>3, <3>4, <3>5
    <3>7. Going(q, v)
      BY <1>4, <3>2, <3>4, <3>6, ReadStep DEF v
    <3> QED BY <2>1, <3>1, <3>2, <3>3, <3>7 DEF Scans, v, r
  <2>6. CASE b \notin EOL /\ b # "H0"
    <3>1. r = AppendText(a, <<b>>)
      BY <2>2, <2>6
    <3>2. HdrBegun(v) = 0 /\ ~Ending(t, b) /\ <<b>> \in Seq(Tokens) /\ Len(<<b>>) = 1
      BY <1>6, <2>6 DEF Ending
    <3>3. CASE Len(y) + 1 >= MaxText
      <4>1. r \in Scanner /\ r.out = s.out /\ r.err
        BY <2>1, <3>1, <3>2, <3>3, AppendTextFacts
      <4>2. h + 2 + MaxText <= (n + 1) - HdrBegun(v)
        BY <1>5, <1>7, <1>8, <3>2, <3>3, MaxTextAssumption
      <4>3. Failed(r, v)
        BY <1>4, <1>6, <2>6, <4>1, <4>2, FailStep DEF v
      <4> QED BY <4>1, <4>3 DEF Scans, v, r
    <3>4. CASE ~(Len(y) + 1 >= MaxText)
      <4>1. /\ r \in Scanner /\ r.out = s.out /\ r.err = s.err /\ r.seen = s.seen
            /\ r.text = y \o <<b>> /\ r.hdr = 0
        BY <2>1, <3>1, <3>2, <3>4, AppendTextFacts
      <4>2. y \o <<b>> = SubSeq(v, h + 3, (n + 1) - HdrBegun(v))
        <5>1. h + 3 \in 1..(n + 1) /\ (n + 1) - HdrBegun(v) = n + 1
          BY <1>1, <1>5, <1>8, <3>2
        <5>2. SubSeq(v, h + 3, n + 1) = Append(y, b)
          BY <5>1, SubSeqAppend DEF v, y
        <5>3. Append(y, b) = y \o <<b>>
          BY <1>7, AppendIsConcat
        <5> QED BY <5>1, <5>2, <5>3
      <4>3. Len(y \o <<b>>) < MaxText
        <5>1. Len(y \o <<b>>) = Len(y) + 1
          BY <1>7, <3>2, ConcatProperties
        <5>2. Len(y) \in Nat
          BY <1>7
        <5> QED BY <3>4, <5>1, <5>2, MaxTextAssumption
      <4>4. /\ r.hdr = HdrBegun(v) /\ r.seen /\ r.text = SubSeq(v, h + 3, (n + 1) - HdrBegun(v))
            /\ Len(r.text) < MaxText
        BY <3>2, <4>1, <4>2, <4>3
      <4>5. Going(r, v)
        BY <1>4, <3>2, <4>1, <4>4, ReadStep DEF v
      <4> QED BY <4>1, <4>5 DEF Scans, v, r
    <3> QED BY <3>3, <3>4
  <2> QED BY <2>4, <2>5, <2>6
<1> QED BY <1>9, <1>10

(* One byte more. *)
LEMMA ScanStep ==
    ASSUME NEW t \in Seq(Tokens), NEW b \in Tokens, NEW s, Scans(s, t)
    PROVE  Scans(ExtractByte(s, b), Append(t, b))
<1> DEFINE r == ExtractByte(s, b)
<1>0. s \in Scanner /\ (s.err => Failed(s, t)) /\ (~s.err => Going(s, t))
  BY DEF Scans
<1>1. CASE s.err
  <2>1. r = s
    BY <1>1 DEF ExtractByte
  <2>2. Failed(s, Append(t, b))
    BY <1>0, <1>1, FailStays
  <2> QED BY <1>0, <1>1, <2>1, <2>2 DEF Scans
<1>2. CASE ~s.err /\ ~s.seen
  <2>1. r = SearchHeader(s, b)
    BY <1>2 DEF ExtractByte
  <2> QED BY <1>0, <1>2, <2>1, SearchFacts
<1>3. CASE ~s.err /\ s.seen /\ s.hdr > 0 /\ b = Hdr[s.hdr + 1]
  <2>1. r = IF s.hdr + 1 = Len(Hdr) THEN Emit(s, TRUE) ELSE [s EXCEPT !.hdr = @ + 1]
    BY <1>3 DEF ExtractByte
  <2> HIDE DEF r
  <2>2. Scans(r, Append(t, b))
    BY <1>0, <1>3, <2>1, HeaderByte, Zenon
  <2> QED BY <2>2 DEF r
<1>4. CASE ~s.err /\ s.seen /\ ~(s.hdr > 0 /\ b = Hdr[s.hdr + 1])
  <2>1. r = TextByte(s, b)
    BY <1>4 DEF ExtractByte
  <2> QED BY <1>0, <1>4, <2>1, OtherByte
<1> QED BY <1>1, <1>2, <1>3, <1>4, Zenon

ScanEach(a, b, c) == ExtractByte(a, b)

Scanning == INSTANCE FoldLemmas WITH Op <- ScanEach

Scanned(t) == FoldLeft(ExtractByte, RxFresh, t)

LEMMA ScannedSteps ==
    /\ Scanned(<<>>) = RxFresh
    /\ \A t \in Seq(Tokens) : \A b \in Tokens : Scanned(Append(t, b)) = ExtractByte(Scanned(t), b)
<1>1. \A t : Scanning!Folded(RxFresh, t, 0) = Scanned(t)
  BY DEF Scanning!Folded, Scanning!FoldLeft, Scanning!MapThenFoldSet, Scanning!Max,
         FoldLeft, MapThenFoldSet, Max, ScanEach, Scanned
<1>2. Scanning!Folded(RxFresh, <<>>, 0) = RxFresh
  BY Scanning!FoldEmpty
<1>3. ASSUME NEW t \in Seq(Tokens), NEW b \in Tokens
      PROVE  Scanning!Folded(RxFresh, Append(t, b), 0)
                = ScanEach(Scanning!Folded(RxFresh, t, 0), b, 0)
  BY Scanning!FoldAppend
<1> QED BY <1>1, <1>2, <1>3 DEF ScanEach

LEMMA ScanEmpty == Scans(RxFresh, <<>>)
<1> DEFINE t == <<>>
<1>1. /\ t \in Seq(Tokens) /\ Len(t) = 0 /\ \A i : i \notin 1..0
  OBVIOUS
<1>2. RxFresh \in Scanner /\ RxFresh.seen = FALSE /\ RxFresh.hdr = 0 /\ RxFresh.out = <<>> /\ RxFresh.err = FALSE
  BY DEF RxFresh, Scanner
<1> HIDE DEF t
<1>3. HdrBegun(t) = 0
  <2>1. HdrBegun(t) \in 0..2 /\ HdrBegun(t) <= Len(t)
    BY <1>1, BegunFacts
  <2> QED BY <1>1, <2>1
<1>4. \A h : ~Pending(t, h)
  BY <1>1 DEF Pending
<1>5. Short(t, Len(t))
  BY <1>1 DEF Short
<1>6. EndedTexts(t, 0) = <<>>
  <2>1. Entries(t, 0) = <<>>
    BY DEF Entries
  <2> QED BY <2>1, FlattenEmpty DEF EndedTexts
<1>7. Going(RxFresh, t)
  BY <1>1, <1>2, <1>3, <1>4, <1>5, <1>6, Zenon DEF Going
<1> QED BY <1>2, <1>7 DEF Scans, t

LEMMA ScannedFollows ==
    ASSUME NEW t \in Seq(Tokens)
    PROVE  Scans(Scanned(t), t)
<1> DEFINE upto(k) == SubSeq(t, 1, k)
           P == {k \in 0..Len(t) : Scans(Scanned(upto(k)), upto(k))}
<1>1. 0 \in P
  <2>1. upto(0) = <<>> /\ 0 \in 0..Len(t)
    OBVIOUS
  <2> HIDE DEF upto
  <2> QED BY <2>1, ScanEmpty, ScannedSteps
<1>2. ASSUME NEW k \in 0..(Len(t) - 1), k \in P PROVE k + 1 \in P
  <2>1. /\ upto(k) \in Seq(Tokens) /\ t[k + 1] \in Tokens /\ k + 1 \in 0..Len(t)
        /\ upto(k + 1) = Append(upto(k), t[k + 1])
    OBVIOUS
  <2> HIDE DEF upto
  <2>2. Scans(Scanned(upto(k)), upto(k))
    BY <1>2
  <2>3. Scans(ExtractByte(Scanned(upto(k)), t[k + 1]), upto(k + 1))
    BY <2>1, <2>2, ScanStep
  <2>4. Scanned(upto(k + 1)) = ExtractByte(Scanned(upto(k)), t[k + 1])
    BY <2>1, ScannedSteps
  <2> QED BY <2>1, <2>3, <2>4
<1>3. upto(Len(t)) = t /\ Len(t) \in Nat /\ Len(t) \in 0..Len(t)
  OBVIOUS
<1>4. Len(t) \in P
  <2> HIDE DEF P
  <2> QED BY <1>1, <1>2, <1>3, UpTo
<1> HIDE DEF upto
<1> QED BY <1>3, <1>4

-----------------------------------------------------------------------------
(* The end of the packet *)

WholeEntry(t, i) ==
    IF HeaderAt(t, i) /\ TextAfter(t, i) # <<>> /\ \A j \in 1..i : ~Overlong(t, j)
    THEN <<TextAfter(t, i)>> ELSE <<>>

LEMMA WholeEntries ==
    ASSUME NEW t \in Seq(Tokens)
    PROVE  \E q \in Seq(Seq(Seq(Tokens))) :
              /\ TextsOf(t) = FlattenSeq(q) /\ Len(q) = Len(t)
              /\ \A i \in 1..Len(t) : q[i] = WholeEntry(t, i)
<1> DEFINE q == [i \in 1..Len(t) |-> WholeEntry(t, i)]
<1>1. ASSUME NEW i \in 1..Len(t) PROVE WholeEntry(t, i) \in Seq(Seq(Tokens))
  <2>0. i \in Nat \ {0}
    OBVIOUS
  <2>1. CASE HeaderAt(t, i)
    <3> DEFINE x == TextAfter(t, i)
    <3>1. x \in Seq(Tokens)
      BY <2>0, <2>1, TextType
    <3> HIDE DEF x
    <3>2. <<x>> \in Seq(Seq(Tokens)) /\ <<>> \in Seq(Seq(Tokens))
      BY <3>1
    <3> QED BY <3>2 DEF WholeEntry, x
  <2>2. CASE ~HeaderAt(t, i)
    <3>1. <<>> \in Seq(Seq(Tokens))
      OBVIOUS
    <3> QED BY <2>2, <3>1 DEF WholeEntry
  <2> QED BY <2>1, <2>2
<1>2. DOMAIN t = 1..Len(t) /\ Len(t) \in Nat
  OBVIOUS
<1>3. TextsOf(t) = FlattenSeq(q)
  BY <1>2 DEF TextsOf, WholeEntry
<1>4. q \in Seq(Seq(Seq(Tokens))) /\ Len(q) = Len(t) /\ \A i \in 1..Len(t) : q[i] = WholeEntry(t, i)
  BY <1>1, <1>2
<1> HIDE DEF q
<1> QED BY <1>3, <1>4

(* Headers before another have ended texts. *)
LEMMA BeforeSettled ==
    ASSUME NEW t \in Seq(Tokens), NEW k \in 0..Len(t),
           \A i \in 1..k : HeaderAt(t, i) => Ended(t, i), Short(t, k)
    PROVE  \A i \in 1..k : ~Overlong(t, i) /\ WholeEntry(t, i) = EntryAt(t, i)
<1> SUFFICES ASSUME NEW i \in 1..k PROVE ~Overlong(t, i) /\ WholeEntry(t, i) = EntryAt(t, i)
  OBVIOUS
<1>1. \A j \in 1..k : ~Overlong(t, j)
  <2> SUFFICES ASSUME NEW j \in 1..k, HeaderAt(t, j) PROVE ~(Len(TextAfter(t, j)) >= MaxText)
    BY DEF Overlong
  <2>1. Len(TextAfter(t, j)) < MaxText
    BY DEF Short
  <2>2. j \in Nat \ {0}
    OBVIOUS
  <2>3. Len(TextAfter(t, j)) \in Nat
    BY <2>2, TextType
  <2> QED BY <2>1, <2>3, MaxTextAssumption
<1>2. \A j \in 1..i : j \in 1..k
  OBVIOUS
<1> QED BY <1>1, <1>2 DEF WholeEntry, EntryAt

LEMMA AllEnded ==
    ASSUME NEW t \in Seq(Tokens), \A h : ~Pending(t, h), Short(t, Len(t))
    PROVE  TextsOf(t) = EndedTexts(t, Len(t))
<1>0. Len(t) \in 0..Len(t) /\ Len(t) \in Nat /\ Len(t) <= Len(t)
  OBVIOUS
<1>1. \A i \in 1..Len(t) : HeaderAt(t, i) => Ended(t, i)
  BY DEF Pending
<1>2. \A i \in 1..Len(t) : WholeEntry(t, i) = EntryAt(t, i)
  BY <1>0, <1>1, BeforeSettled
<1>3. PICK q \in Seq(Seq(Seq(Tokens))) :
              /\ TextsOf(t) = FlattenSeq(q) /\ Len(q) = Len(t)
              /\ \A i \in 1..Len(t) : q[i] = WholeEntry(t, i)
  BY WholeEntries
<1>4. (\A i \in 1..Len(t) : q[i] = EntryAt(t, i)) /\ \A i \in (Len(t) + 1)..Len(q) : q[i] = <<>>
  <2>1. \A i \in 1..Len(t) : q[i] = EntryAt(t, i)
    BY <1>2, <1>3
  <2>2. \A i : i \notin (Len(t) + 1)..Len(q)
    BY <1>0, <1>3
  <2> QED BY <2>1, <2>2
<1>5. FlattenSeq(q) = EndedTexts(t, Len(t))
  BY ONLY t \in Seq(Tokens), <1>0, <1>3, <1>4, TextsCut
<1> QED BY <1>3, <1>5

LEMMA CutAt ==
    ASSUME NEW t \in Seq(Tokens), NEW k \in 1..Len(t), Overlong(t, k), Short(t, k - 1)
    PROVE  TextsOf(t) = EndedTexts(t, k - 1)
<1>0. k - 1 \in 0..Len(t) /\ k - 1 \in Nat /\ k - 1 <= Len(t) /\ k \in Nat \ {0} /\ HeaderAt(t, k)
  BY DEF Overlong
<1>1. ASSUME NEW i \in 1..(k - 1), HeaderAt(t, i) PROVE Ended(t, i)
  <2>1. i \in Nat \ {0} /\ i < k
    BY <1>0
  <2> QED BY <1>0, <1>1, <2>1, LaterEnds
<1>2. \A i \in 1..(k - 1) : WholeEntry(t, i) = EntryAt(t, i)
  BY ONLY t \in Seq(Tokens), Short(t, k - 1), <1>0, <1>1, BeforeSettled
<1>3. PICK q \in Seq(Seq(Seq(Tokens))) :
              /\ TextsOf(t) = FlattenSeq(q) /\ Len(q) = Len(t)
              /\ \A i \in 1..Len(t) : q[i] = WholeEntry(t, i)
  BY WholeEntries
<1>4. \A i \in ((k - 1) + 1)..Len(q) : q[i] = <<>>
  <2> SUFFICES ASSUME NEW i \in ((k - 1) + 1)..Len(q) PROVE q[i] = <<>>
    OBVIOUS
  <2>1. k \in 1..i /\ i \in 1..Len(t)
    BY <1>0, <1>3
  <2>2. WholeEntry(t, i) = <<>>
    BY <2>1 DEF WholeEntry
  <2> QED BY <1>3, <2>1, <2>2
<1>5. \A i \in 1..(k - 1) : q[i] = EntryAt(t, i)
  BY <1>0, <1>2, <1>3
<1>6. FlattenSeq(q) = EndedTexts(t, k - 1)
  BY ONLY t \in Seq(Tokens), q \in Seq(Seq(Seq(Tokens))), <1>0, <1>3, <1>4, <1>5, TextsCut
<1> QED BY <1>3, <1>6

LEMMA PendingEnds ==
    ASSUME NEW t \in Seq(Tokens), NEW h, Pending(t, h), Short(t, Len(t)), Len(TextAfter(t, h)) < MaxText
    PROVE  TextsOf(t) = EndedTexts(t, Len(t))
                           \o (IF TextAfter(t, h) = <<>> THEN <<>> ELSE <<TextAfter(t, h)>>)
<1>0. h \in 1..Len(t) /\ h - 1 \in 0..Len(t) /\ h \in Nat \ {0} /\ HeaderAt(t, h) /\ Len(t) \in Nat
  BY DEF Pending
<1>1. \A i \in 1..Len(t) : HeaderAt(t, i) /\ i # h => i < h /\ Ended(t, i)
  BY PendingLast
<1>2. \A i \in h..Len(t) : EntryAt(t, i) = <<>>
  BY PendingLast
<1>3. Short(t, h - 1) /\ \A i \in 1..(h - 1) : HeaderAt(t, i) => Ended(t, i)
  BY <1>0, <1>1 DEF Short
<1>4. \A i \in 1..(h - 1) : ~Overlong(t, i) /\ WholeEntry(t, i) = EntryAt(t, i)
  BY ONLY t \in Seq(Tokens), <1>0, <1>3, BeforeSettled
<1>5. ~Overlong(t, h)
  <2>1. Len(TextAfter(t, h)) \in Nat
    BY <1>0, TextType
  <2> QED BY <2>1, MaxTextAssumption DEF Overlong
<1>6. \A j \in 1..h : ~Overlong(t, j)
  BY <1>0, <1>4, <1>5
<1>7. WholeEntry(t, h) = IF TextAfter(t, h) = <<>> THEN <<>> ELSE <<TextAfter(t, h)>>
  BY <1>0, <1>6 DEF WholeEntry
<1>8. ASSUME NEW i \in (h + 1)..Len(t) PROVE WholeEntry(t, i) = <<>>
  <2>1. i \in 1..Len(t) /\ i # h /\ ~(i < h)
    BY <1>0
  <2>2. ~HeaderAt(t, i)
    BY <1>1, <2>1
  <2> QED BY <2>2 DEF WholeEntry
<1>9. PICK q \in Seq(Seq(Seq(Tokens))) :
              /\ TextsOf(t) = FlattenSeq(q) /\ Len(q) = Len(t)
              /\ \A i \in 1..Len(t) : q[i] = WholeEntry(t, i)
  BY WholeEntries
<1>10. /\ h <= Len(q) /\ (\A i \in 1..(h - 1) : q[i] = EntryAt(t, i))
       /\ (\A i \in (h + 1)..Len(q) : q[i] = <<>>) /\ q[h] = WholeEntry(t, h)
  BY <1>0, <1>4, <1>8, <1>9
<1>11. FlattenSeq(q) = EndedTexts(t, Len(t)) \o q[h]
  BY ONLY t \in Seq(Tokens), q \in Seq(Seq(Seq(Tokens))), <1>0, <1>2, <1>10, TextsOne
<1> QED BY <1>7, <1>9, <1>10, <1>11

LEMMA OverflowsLong ==
    ASSUME NEW t \in Seq(Tokens), NEW k, Overflows(t, k)
    PROVE  k \in 1..Len(t) /\ Overlong(t, k)
<1>1. /\ k \in 1..Len(t) /\ HeaderAt(t, k) /\ k + 2 + MaxText <= Len(t) - HdrBegun(t)
      /\ \A j \in (k + 3)..(k + 2 + MaxText) : ~Stops(t, j)
  BY DEF Overflows
<1>2. k + 2 <= Len(t) /\ k \in Nat \ {0}
  BY <1>1 DEF HeaderAt
<1>3. PICK m : EndsAt(t, k, m)
  BY <1>2, EndExists
<1>4. m \in (k + 3)..(Len(t) + 1) /\ (m = Len(t) + 1 \/ Stops(t, m))
  BY <1>3 DEF EndsAt
<1>5. m - 1 >= k + 2 + MaxText
  BY <1>1, <1>2, <1>4, BegunFacts, MaxTextAssumption
<1>6. TextAfter(t, k) = SubSeq(t, k + 3, m - 1)
  BY <1>2, <1>3, TextTo
<1>7. Len(SubSeq(t, k + 3, m - 1)) = (m - 1) - (k + 2)
  BY <1>2, <1>4
<1>8. Len(TextAfter(t, k)) >= MaxText
  BY <1>2, <1>4, <1>5, <1>6, <1>7, MaxTextAssumption
<1> QED BY <1>1, <1>8 DEF Overlong

LEMMA FlushIs ==
    ASSUME NEW t \in Seq(Tokens), NEW s, Scans(s, t)
    PROVE  Flush(s).out = TextsOf(t)
<1>0. s \in Scanner /\ (s.err => Failed(s, t)) /\ (~s.err => Going(s, t))
  BY DEF Scans
<1>1. CASE s.err
  <2>1. PICK k : Overflows(t, k) /\ Short(t, k - 1) /\ s.out = EndedTexts(t, k - 1)
    BY <1>0, <1>1 DEF Failed
  <2>2. k \in 1..Len(t) /\ Overlong(t, k)
    BY <2>1, OverflowsLong
  <2>3. TextsOf(t) = EndedTexts(t, k - 1)
    BY <2>1, <2>2, CutAt
  <2>4. Flush(s) = s
    BY <1>1 DEF Flush
  <2> QED BY <2>1, <2>3, <2>4
<1>2. CASE ~s.err /\ ~s.seen
  <2>1. (\A h : ~Pending(t, h)) /\ Short(t, Len(t)) /\ s.out = EndedTexts(t, Len(t))
    BY <1>0, <1>2 DEF Going
  <2>2. TextsOf(t) = EndedTexts(t, Len(t))
    BY <2>1, AllEnded
  <2>3. Flush(s) = s
    BY <1>2 DEF Flush
  <2> QED BY <2>1, <2>2, <2>3
<1>3. CASE ~s.err /\ s.seen
  <2> DEFINE n == Len(t)
             p == Prefix(s)
             r == AppendText(s, p)
  <2>1. s.hdr = HdrBegun(t) /\ s.out = EndedTexts(t, n) /\ Short(t, n) /\ \E h : Reads(s.text, t, h)
    BY <1>0, <1>3 DEF Going
  <2>2. PICK h : Reads(s.text, t, h)
    BY <2>1
  <2>3. Pending(t, h) /\ s.text = SubSeq(t, h + 3, n - HdrBegun(t)) /\ Len(s.text) < MaxText
    BY <2>2 DEF Reads
  <2>4. h \in 1..n /\ h \in Nat \ {0} /\ HeaderAt(t, h) /\ ~Ended(t, h) /\ h + 2 <= n /\ n \in Nat
    BY <2>3 DEF Pending, HeaderAt
  <2>5. h + 2 <= n - HdrBegun(t)
    BY <2>4, BegunBehind
  <2>6. /\ s.text \in Seq(Tokens) /\ Len(s.text) = n - HdrBegun(t) - h - 2
        /\ p \in Seq(Tokens) /\ Len(p) = HdrBegun(t) /\ s.text \o p = SubSeq(t, h + 3, n)
    BY <2>1, <2>3, <2>4, <2>5, PrefixBack DEF Prefix
  <2>7. TextAfter(t, h) = SubSeq(t, h + 3, n)
    BY <2>4, TextType
  <2>8. Len(s.text) + Len(p) = Len(TextAfter(t, h)) /\ Len(TextAfter(t, h)) \in Nat
    <3> DEFINE x == s.text
    <3>1. x \in Seq(Tokens) /\ p \in Seq(Tokens) /\ x \o p = TextAfter(t, h)
      BY <2>6, <2>7
    <3> HIDE DEF x, p
    <3>2. Len(x \o p) = Len(x) + Len(p) /\ Len(x) \in Nat /\ Len(p) \in Nat
      BY <3>1, ConcatProperties
    <3> QED BY <3>1, <3>2 DEF x
  <2> HIDE DEF p, n
  <2>9. CASE Len(s.text) + Len(p) >= MaxText
    <3>1. r.err /\ r.out = s.out
      BY <1>0, <2>6, <2>9, AppendTextFacts
    <3>2. Flush(s) = r
      BY <1>3, <3>1 DEF Flush, p
    <3>3. Overlong(t, h)
      BY <2>4, <2>8, <2>9 DEF Overlong
    <3>4. Short(t, h - 1)
      BY <2>1, <2>4 DEF Short
    <3>5. TextsOf(t) = EndedTexts(t, h - 1)
      BY <2>4, <3>3, <3>4, CutAt DEF n
    <3>6. EndedTexts(t, n) = EndedTexts(t, h - 1)
      BY <2>3, PendingLast DEF n
    <3> QED BY <2>1, <3>1, <3>2, <3>5, <3>6
  <2>10. CASE ~(Len(s.text) + Len(p) >= MaxText)
    <3>1. r \in Scanner /\ r.out = s.out /\ r.err = s.err /\ r.seen = s.seen /\ r.text = s.text \o p
      BY <1>0, <2>6, <2>10, AppendTextFacts
    <3>2. Flush(s) = Emit(r, FALSE)
      BY <1>3, <3>1 DEF Flush, p
    <3> HIDE DEF r
    <3>3. FALSE \in BOOLEAN
      OBVIOUS
    <3>4. Emit(r, FALSE).out = r.out \o (IF r.text = <<>> THEN <<>> ELSE <<r.text>>)
      BY ONLY <3>1, <3>3, EmitFacts
    <3>5. Len(TextAfter(t, h)) < MaxText
      BY <2>8, <2>10, MaxTextAssumption
    <3>6. TextsOf(t) = EndedTexts(t, n) \o (IF TextAfter(t, h) = <<>> THEN <<>> ELSE <<TextAfter(t, h)>>)
      BY <2>1, <2>3, <3>5, PendingEnds DEF n
    <3>7. r.text = TextAfter(t, h)
      BY <2>6, <2>7, <3>1
    <3> QED BY <2>1, <3>1, <3>2, <3>4, <3>6, <3>7
  <2> QED BY <2>9, <2>10
<1> QED BY <1>1, <1>2, <1>3

LEMMA ExtractIs ==
    ASSUME NEW t \in Seq(Tokens)
    PROVE  Extract(t) = TextsOf(t)
<1>1. Scans(Scanned(t), t)
  BY ScannedFollows
<1>2. Extract(t) = Flush(Scanned(t)).out
  BY DEF Extract, Scanned
<1> HIDE DEF Scanned
<1> QED BY <1>1, <1>2, FlushIs

(* What the inputs are made of. *)
InputType == text \in Seq(Tokens) /\ raw \in RawFrames(Tokens)

(* Every input put together piece by piece is a text over Tokens and a     *)
(* frame of the wire.                                                      *)
LEMMA InputsTyped == PktSpec => []InputType
<1>1. PktInit => InputType
  <2>1. <<>> \in Seq(Tokens) /\ <<>> \in Seq(Groups) /\ LineStarts \subseteq Seq(Tokens)
    BY PiecesAssumption
  <2>2. NoFrame \in RawFrames(Tokens)
    BY <2>1 DEF NoFrame, RawFrames
  <2> QED BY <2>1, <2>2, Zenon DEF PktInit, InputType
<1>2. InputType /\ [PktNext]_pktVars => InputType'
  <2> SUFFICES ASSUME InputType, [PktNext]_pktVars
               PROVE  text' \in Seq(Tokens) /\ raw' \in RawFrames(Tokens)
    BY DEF InputType
  <2> USE DEF InputType
  <2>1. ASSUME NEW p \in HeardPieces \cup LinePieces, text' = text \o p PROVE text' \in Seq(Tokens)
    <3>1. p \in Seq(Tokens)
      BY PiecesAssumption
    <3> QED BY <2>1, <3>1, ConcatProperties
  <2>2. ASSUME NEW p \in HeardPieces, AddHeard(p)
        PROVE  text' \in Seq(Tokens) /\ raw' \in RawFrames(Tokens)
    BY <2>1, <2>2 DEF AddHeard
  <2>3. ASSUME NEW p \in LinePieces, AddToLine(p)
        PROVE  text' \in Seq(Tokens) /\ raw' \in RawFrames(Tokens)
    BY <2>1, <2>3 DEF AddToLine
  <2>4. ASSUME NEW g \in GivenGroups, AddGroup(g)
        PROVE  text' \in Seq(Tokens) /\ raw' \in RawFrames(Tokens)
    <3>1. g \in Groups /\ raw.addrs \in Seq(Groups)
      BY PiecesAssumption DEF RawFrames
    <3>2. Append(raw.addrs, g) \in Seq(Groups)
      BY <3>1, AppendProperties
    <3>3. text' = text /\ raw' = [raw EXCEPT !.addrs = Append(@, g)]
      BY <2>4 DEF AddGroup
    <3> QED BY <3>2, <3>3 DEF RawFrames
  <2>5. ASSUME NEW p \in InfoPieces, AddInfo(p)
        PROVE  text' \in Seq(Tokens) /\ raw' \in RawFrames(Tokens)
    <3>1. p \in Seq(Tokens) /\ raw.info \in Seq(Tokens)
      BY PiecesAssumption DEF RawFrames
    <3>2. raw.info \o p \in Seq(Tokens)
      BY <3>1, ConcatProperties
    <3>3. text' = text /\ raw' = [raw EXCEPT !.info = @ \o p]
      BY <2>5 DEF AddInfo
    <3> QED BY <3>2, <3>3 DEF RawFrames
  <2>6. ASSUME NEW c \in {"other", "short"}, OtherControl(c)
        PROVE  text' \in Seq(Tokens) /\ raw' \in RawFrames(Tokens)
    BY <2>6 DEF OtherControl, RawFrames
  <2>7. CASE UNCHANGED pktVars
    BY <2>7 DEF pktVars
  <2> QED BY <2>2, <2>3, <2>4, <2>5, <2>6, <2>7 DEF PktNext
<1> QED BY <1>1, <1>2, PTL DEF PktSpec

(* Whatever is heard, the byte-wise scan of loraham_extract_tnc2 emits      *)
(* exactly the texts between a header and the next header, line end or end *)
(* of the packet, up to the first that does not fit its buffer: for every  *)
(* packet over every alphabet and every size of the buffer.                *)
THEOREM TextsExtracted == PktSpec => []ExtractsTexts
<1>1. InputType => ExtractsTexts
  BY ExtractIs DEF ExtractsTexts, InputType
<1> QED BY <1>1, InputsTyped, PTL

-----------------------------------------------------------------------------
(* The first place of a sign, and what lies around it *)

LEMMA FirstOfIs ==
    ASSUME NEW t \in Seq(Tokens), NEW S, NEW m \in 1..Len(t), t[m] \in S,
           \A j \in 1..(m - 1) : t[j] \notin S
    PROVE  FirstOf(t, S) = m
<1> DEFINE I == {i \in 1..Len(t) : t[i] \in S}
<1>1. I \in SUBSET Nat /\ m \in I
  OBVIOUS
<1>2. \A i \in I : m <= i
  OBVIOUS
<1>3. FirstOf(t, S) = IF I # {} THEN Min(I) ELSE 0
  BY DEF FirstOf, SelectInSeq
<1> HIDE DEF I
<1>4. Min(I) = m
  BY <1>1, <1>2, MinIs
<1> QED BY <1>1, <1>3, <1>4

LEMMA FirstOfNone ==
    ASSUME NEW t \in Seq(Tokens), NEW S, \A j \in 1..Len(t) : t[j] \notin S
    PROVE  FirstOf(t, S) = 0
<1> DEFINE I == {i \in 1..Len(t) : t[i] \in S}
<1>1. I = {}
  OBVIOUS
<1>2. FirstOf(t, S) = IF I # {} THEN Min(I) ELSE 0
  BY DEF FirstOf, SelectInSeq
<1> QED BY <1>1, <1>2

LEMMA FirstOfFacts ==
    ASSUME NEW t \in Seq(Tokens), NEW S
    PROVE  /\ FirstOf(t, S) \in 0..Len(t)
           /\ FirstOf(t, S) = 0 => \A j \in 1..Len(t) : t[j] \notin S
           /\ FirstOf(t, S) # 0 => \A j \in 1..(FirstOf(t, S) - 1) : t[j] \notin S
<1> DEFINE I == {i \in 1..Len(t) : t[i] \in S}
<1>1. FirstOf(t, S) = IF I # {} THEN Min(I) ELSE 0
  BY DEF FirstOf, SelectInSeq
<1>2. CASE I = {}
  <2>1. FirstOf(t, S) = 0
    BY <1>1, <1>2
  <2> QED BY <1>2, <2>1
<1>3. CASE I # {}
  <2>1. I \in SUBSET Nat
    OBVIOUS
  <2> DEFINE m == Min(I)
  <2>2. m \in I /\ \A i \in I : m <= i
    <3> HIDE DEF I
    <3> QED BY <1>3, <2>1, MinIn
  <2>3. FirstOf(t, S) = m
    BY <1>1, <1>3
  <2> HIDE DEF m
  <2>4. m \in 1..Len(t) /\ \A j \in 1..(m - 1) : t[j] \notin S
    BY <2>2
  <2> QED BY <2>3, <2>4
<1> QED BY <1>2, <1>3

LEMMA StripEolKeeps ==
    ASSUME NEW t \in Seq(Tokens), t # <<>>, t[Len(t)] \notin EOL
    PROVE  StripEol(t) = t
<1> DEFINE I == {i \in 1..Len(t) : t[i] \notin EOL}
           n == Len(t)
<1>1. n \in Nat /\ I \in SUBSET (0..n) /\ n \in I
  OBVIOUS
<1>2. StripEol(t) = SubSeq(t, 1, IF I # {} THEN Max(I) ELSE 0)
  BY DEF StripEol, SelectLastInSeq
<1>3. \A i \in I : i <= n
  OBVIOUS
<1> HIDE DEF I
<1>4. Max(I) = n
  <2>1. I # {}
    BY <1>1
  <2>2. Max(I) \in I /\ \A i \in I : i <= Max(I)
    BY <1>1, <2>1, MaxIn
  <2>3. Max(I) \in 0..n
    BY <1>1, <2>2
  <2> QED BY <1>1, <1>3, <2>2, <2>3
<1>5. SubSeq(t, 1, n) = t
  BY SubSeqFull
<1> QED BY <1>1, <1>2, <1>4, <1>5

LEMMA StripEolFacts ==
    ASSUME NEW t \in Seq(Tokens)
    PROVE  \E n \in 0..Len(t) : StripEol(t) = SubSeq(t, 1, n)
<1> DEFINE I == {i \in 1..Len(t) : t[i] \notin EOL}
<1>1. Len(t) \in Nat /\ I \in SUBSET (0..Len(t)) /\ 0 \in 0..Len(t)
  OBVIOUS
<1>2. StripEol(t) = SubSeq(t, 1, IF I # {} THEN Max(I) ELSE 0)
  BY DEF StripEol, SelectLastInSeq
<1> HIDE DEF I
<1>3. I # {} => Max(I) \in I
  BY <1>1, MaxIn
<1> QED BY <1>1, <1>2, <1>3

LEMMA WithoutSigns ==
    ASSUME NEW S, NEW a \in Seq(Tokens \ S)
    PROVE  a \in Seq(Tokens) /\ \A i \in 1..Len(a) : a[i] \in Tokens /\ a[i] \notin S
OBVIOUS

(* A text cut at the first sign of S. *)
Cuts(s, S, a, x, b) ==
    a \in Seq(Tokens \ S) /\ x \in S \cap Tokens /\ b \in Seq(Tokens) /\ s = (a \o <<x>>) \o b

LEMMA CutAtSign ==
    ASSUME NEW s, NEW S, NEW a, NEW x, NEW b, Cuts(s, S, a, x, b)
    PROVE  /\ s \in Seq(Tokens) /\ FirstOf(s, S) = Len(a) + 1 /\ Len(a) \in Nat
           /\ Len(s) = Len(a) + 1 + Len(b)
           /\ SubSeq(s, 1, Len(a)) = a /\ SubSeq(s, Len(a) + 2, Len(s)) = b
<1> DEFINE n == Len(a)
           u == a \o <<x>>
           t == u \o b
<1>10. a \in Seq(Tokens \ S) /\ x \in S /\ x \in Tokens /\ b \in Seq(Tokens) /\ s = t
  BY DEF Cuts
<1>0. a \in Seq(Tokens) /\ <<x>> \in Seq(Tokens) /\ Len(<<x>>) = 1 /\ n \in Nat /\ Len(b) \in Nat
      /\ <<x>>[1] = x
  BY <1>10
<1>1. /\ u \in Seq(Tokens) /\ Len(u) = n + 1
      /\ \A i \in 1..(n + 1) : u[i] = IF i <= n THEN a[i] ELSE <<x>>[i - n]
  BY <1>0, ConcatProperties
<1>2. \A i \in 1..(n + 1) : u[i] = IF i <= n THEN a[i] ELSE x
  BY <1>0, <1>1
<1> HIDE DEF u
<1>3. /\ t \in Seq(Tokens) /\ Len(t) = (n + 1) + Len(b)
      /\ \A i \in 1..((n + 1) + Len(b)) : t[i] = IF i <= n + 1 THEN u[i] ELSE b[i - (n + 1)]
  <2>1. /\ t \in Seq(Tokens) /\ Len(t) = Len(u) + Len(b)
        /\ \A i \in 1..(Len(u) + Len(b)) : t[i] = IF i <= Len(u) THEN u[i] ELSE b[i - Len(u)]
    <3>1. u \in Seq(Tokens) /\ b \in Seq(Tokens)
      BY <1>1, <1>10
    <3> QED BY ONLY <3>1, ConcatProperties
  <2> HIDE DEF t, n
  <2> QED BY <1>1, <2>1
<1> HIDE DEF t
<1>4. n + 1 \in 1..Len(t) /\ t[n + 1] \in S
  BY <1>10, <1>0, <1>2, <1>3
<1>5. \A j \in 1..n : t[j] = a[j] /\ t[j] \notin S
  BY <1>10, <1>0, <1>2, <1>3
<1>6. FirstOf(t, S) = n + 1
  <2>1. \A j \in 1..((n + 1) - 1) : t[j] \notin S
    BY <1>0, <1>5
  <2> QED BY <1>3, <1>4, <2>1, FirstOfIs
<1>7. SubSeq(t, 1, n) = a
  <2> DEFINE c == SubSeq(t, 1, n)
  <2>1. c \in Seq(Tokens) /\ Len(c) = n /\ \A i \in 1..n : c[i] = t[i]
    BY <1>0, <1>3, <1>4
  <2> HIDE DEF c
  <2> QED BY <1>0, <1>5, <2>1, <1>10, SeqEqual DEF c
<1>8. SubSeq(t, n + 2, Len(t)) = b
  <2> DEFINE c == SubSeq(t, n + 2, Len(t))
  <2>1. /\ c \in Seq(Tokens) /\ Len(c) = Len(b) /\ \A i \in 1..Len(b) : c[i] = t[(n + 1) + i]
    BY <1>0, <1>3
  <2>2. \A i \in 1..Len(b) : t[(n + 1) + i] = b[i]
    BY <1>0, <1>3
  <2> HIDE DEF c
  <2>3. \A i \in 1..Len(b) : c[i] = b[i]
    BY <2>1, <2>2
  <2> QED BY <1>0, <2>1, <2>3, <1>10, SeqEqual DEF c
<1>9. Len(t) = n + 1 + Len(b)
  BY <1>0, <1>3
<1> QED BY <1>10, <1>0, <1>3, <1>6, <1>7, <1>8, <1>9

-----------------------------------------------------------------------------
(* Addresses as text *)

AddrTokens == Calls \cup DOMAIN SsidText \cup {"*"}

Raised(a) == [a EXCEPT !.call = Upper[@]]

LEMMA AddrTokensPlain ==
    /\ AddrTokens \subseteq Tokens
    /\ AddrTokens \cap (EOL \cup {">", Comma, ":", "NUL", "H0", "H1", "H2"}) = {}
    /\ "*" \notin Calls /\ "*" \notin DOMAIN SsidText /\ Calls \cap DOMAIN SsidText = {}
    /\ Signs \subseteq Tokens
<1>1. /\ Calls \cup DOMAIN SsidText \cup Signs \subseteq Tokens
      /\ Calls \cap (DOMAIN SsidText \cup Signs) = {} /\ DOMAIN SsidText \cap Signs = {}
  BY TokensAssumption
<1>2. EOL \cup {">", Comma, ":", "NUL", "H0", "H1", "H2"} \subseteq Signs /\ "*" \in Signs
  BY DEF Signs
<1>3. "*" \notin EOL \cup {">", Comma, ":", "NUL", "H0", "H1", "H2"}
  BY Zenon DEF EOL, Comma
<1> HIDE DEF Signs
<1> QED BY <1>1, <1>2, <1>3 DEF AddrTokens

(* The four forms of an address. *)
LEMMA FormatForms ==
    ASSUME NEW a \in Addrs
    PROVE  \E s \in DOMAIN SsidText :
              /\ a.ssid # 0 => SsidText[s] = a.ssid
              /\ a.ssid = 0 /\ ~a.repeated => AddrFormat(a) = <<a.call>>
              /\ a.ssid = 0 /\ a.repeated => AddrFormat(a) = <<a.call, "*">>
              /\ a.ssid # 0 /\ ~a.repeated => AddrFormat(a) = <<a.call, s>>
              /\ a.ssid # 0 /\ a.repeated => AddrFormat(a) = <<a.call, s, "*">>
<1> DEFINE s == CHOOSE x \in DOMAIN SsidText : SsidText[x] = a.ssid
<1>1. s \in DOMAIN SsidText /\ SsidText[s] = a.ssid
  <2>1. a.ssid \in 0..15
    BY DEF Addrs
  <2> QED BY <2>1, SsidTextAssumption
<1>2. AddrFormat(a) = (<<a.call>> \o (IF a.ssid = 0 THEN <<>> ELSE <<s>>))
                         \o (IF a.repeated THEN <<"*">> ELSE <<>>)
  BY DEF AddrFormat
<1> HIDE DEF s
<1>3. ASSUME NEW c \in Tokens, NEW x \in Tokens, NEW y \in Tokens
      PROVE  /\ (<<c>> \o <<>>) \o <<>> = <<c>> /\ (<<c>> \o <<>>) \o <<y>> = <<c, y>>
             /\ (<<c>> \o <<x>>) \o <<>> = <<c, x>> /\ (<<c>> \o <<x>>) \o <<y>> = <<c, x, y>>
  <2>1. <<c>> \in Seq(Tokens) /\ <<c, x>> \in Seq(Tokens)
    OBVIOUS
  <2>2. <<c>> \o <<>> = <<c>> /\ <<c, x>> \o <<>> = <<c, x>>
    BY <2>1, ConcatEmptySeq
  <2>3. <<c>> \o <<x>> = <<c, x>> /\ <<c>> \o <<y>> = <<c, y>>
    <3>1. <<c>> \o <<x>> = Append(<<c>>, x) /\ <<c>> \o <<y>> = Append(<<c>>, y)
      BY <2>1, AppendIsConcat
    <3>2. ASSUME NEW z \in Tokens PROVE Append(<<c>>, z) = <<c, z>>
      <4> DEFINE u == Append(<<c>>, z)
      <4>1. u \in Seq(Tokens) /\ Len(u) = 2 /\ u[1] = c /\ u[2] = z
        OBVIOUS
      <4> HIDE DEF u
      <4>2. u = <<c, z>>
        BY <4>1
      <4> QED BY <4>2 DEF u
    <3> QED BY <3>1, <3>2
  <2>4. <<c, x>> \o <<y>> = <<c, x, y>>
    <3>1. <<c, x>> \o <<y>> = Append(<<c, x>>, y)
      BY <2>1, AppendIsConcat
    <3>2. Append(<<c, x>>, y) = <<c, x, y>>
      <4> DEFINE u == Append(<<c, x>>, y)
      <4>1. u \in Seq(Tokens) /\ Len(u) = 3 /\ u[1] = c /\ u[2] = x /\ u[3] = y
        OBVIOUS
      <4> HIDE DEF u
      <4>2. u = <<c, x, y>>
        BY <4>1
      <4> QED BY <4>2 DEF u
    <3> QED BY <3>1, <3>2
  <2> QED BY <2>2, <2>3, <2>4
<1>8. a.call \in Tokens /\ s \in Tokens /\ "*" \in Tokens
  BY <1>1, AddrTokensPlain DEF Addrs, AddrTokens
<1>4. a.ssid = 0 /\ ~a.repeated => AddrFormat(a) = <<a.call>>
  BY <1>2, <1>3, <1>8
<1>5. a.ssid = 0 /\ a.repeated => AddrFormat(a) = <<a.call, "*">>
  BY <1>2, <1>3, <1>8
<1>6. a.ssid # 0 /\ ~a.repeated => AddrFormat(a) = <<a.call, s>>
  BY <1>2, <1>3, <1>8
<1>7. a.ssid # 0 /\ a.repeated => AddrFormat(a) = <<a.call, s, "*">>
  BY <1>2, <1>3, <1>8
<1> QED BY <1>1, <1>4, <1>5, <1>6, <1>7

LEMMA AddrBack ==
    ASSUME NEW a \in Addrs
    PROVE  /\ AddrFormat(a) \in Seq(AddrTokens) /\ AddrFormat(a) # <<>>
           /\ IsAddr(AddrFormat(a)) /\ AddrParse(AddrFormat(a)) = Raised(a)
           /\ Len(AddrFormat(a)) = 1 + (IF a.ssid = 0 THEN 0 ELSE 1) + (IF a.repeated THEN 1 ELSE 0)
<1> DEFINE t == AddrFormat(a)
<1>1. PICK s \in DOMAIN SsidText :
              /\ a.ssid # 0 => SsidText[s] = a.ssid
              /\ a.ssid = 0 /\ ~a.repeated => AddrFormat(a) = <<a.call>>
              /\ a.ssid = 0 /\ a.repeated => AddrFormat(a) = <<a.call, "*">>
              /\ a.ssid # 0 /\ ~a.repeated => AddrFormat(a) = <<a.call, s>>
              /\ a.ssid # 0 /\ a.repeated => AddrFormat(a) = <<a.call, s, "*">>
  BY FormatForms
<1>2. a.call \in Calls /\ a.ssid \in 0..15 /\ a.repeated \in BOOLEAN
  BY DEF Addrs
<1>3. a.call \in AddrTokens /\ s \in AddrTokens /\ "*" \in AddrTokens /\ s # "*" /\ a.call # "*"
      /\ a.call \notin DOMAIN SsidText
  BY <1>2, AddrTokensPlain DEF AddrTokens
<1>4. Raised(a) = [call |-> Upper[a.call], ssid |-> a.ssid, repeated |-> a.repeated]
  BY DEF Raised, Addrs
<1> HIDE DEF t
<1>5. CASE a.ssid = 0 /\ ~a.repeated
  <2>1. t = <<a.call>>
    BY <1>1, <1>5 DEF t
  <2>2. t \in Seq(AddrTokens) /\ t # <<>> /\ Len(t) = 1 /\ t[1] = a.call
    BY <1>3, <2>1
  <2>3. IsAddr(t)
    BY <1>2, <1>3, <2>2 DEF IsAddr
  <2>4. AddrParse(t) = [call |-> Upper[a.call], ssid |-> 0, repeated |-> FALSE]
    <3> DEFINE r == Last(t) = "*"
               n == IF Len(t) > 1 /\ t[2] # "*" THEN SsidText[t[2]] ELSE 0
    <3>1. r = FALSE
      <4>1. Last(t) = t[Len(t)]
        BY DEF Last
      <4>2. Last(t) # "*"
        BY <1>3, <2>2, <4>1
      <4> QED BY <4>2
    <3>2. n = 0
      BY <1>3, <2>1, <2>2
    <3>3. AddrParse(t) = [call |-> Upper[t[1]], ssid |-> n, repeated |-> r]
      BY DEF AddrParse
    <3> HIDE DEF r, n
    <3> QED BY <2>2, <3>1, <3>2, <3>3, Zenon
  <2>5. a.repeated = FALSE
    BY <1>2, <1>5
  <2>6. Raised(a) = AddrParse(t)
    BY ONLY <1>4, <1>5, <2>4, <2>5
  <2> QED BY <1>5, <2>2, <2>3, <2>6 DEF t
<1>6. CASE a.ssid = 0 /\ a.repeated
  <2>1. t = <<a.call, "*">>
    BY <1>1, <1>6 DEF t
  <2>2. t \in Seq(AddrTokens) /\ t # <<>> /\ Len(t) = 2 /\ t[1] = a.call /\ t[2] = "*"
    BY <1>3, <2>1
  <2>3. IsAddr(t)
    BY <1>2, <2>2, AddrTokensPlain DEF IsAddr
  <2>4. AddrParse(t) = [call |-> Upper[a.call], ssid |-> 0, repeated |-> TRUE]
    <3> DEFINE r == Last(t) = "*"
               n == IF Len(t) > 1 /\ t[2] # "*" THEN SsidText[t[2]] ELSE 0
    <3>1. r = TRUE
      <4>1. Last(t) = t[Len(t)]
        BY DEF Last
      <4>2. Last(t) = "*"
        BY <1>3, <2>2, <4>1
      <4> QED BY <4>2
    <3>2. n = 0
      BY <1>3, <2>1, <2>2
    <3>3. AddrParse(t) = [call |-> Upper[t[1]], ssid |-> n, repeated |-> r]
      BY DEF AddrParse
    <3> HIDE DEF r, n
    <3> QED BY <2>2, <3>1, <3>2, <3>3, Zenon
  <2> QED BY <1>2, <1>4, <1>6, <2>2, <2>3, <2>4 DEF t
<1>7. CASE a.ssid # 0 /\ ~a.repeated
  <2>1. t = <<a.call, s>> /\ SsidText[s] = a.ssid
    BY <1>1, <1>7 DEF t
  <2>2. t \in Seq(AddrTokens) /\ t # <<>> /\ Len(t) = 2 /\ t[1] = a.call /\ t[2] = s
    BY <1>3, <2>1
  <2>3. IsAddr(t)
    BY <1>2, <2>1, <2>2 DEF IsAddr
  <2>4. AddrParse(t) = [call |-> Upper[a.call], ssid |-> a.ssid, repeated |-> FALSE]
    <3> DEFINE r == Last(t) = "*"
               n == IF Len(t) > 1 /\ t[2] # "*" THEN SsidText[t[2]] ELSE 0
    <3>1. r = FALSE
      <4>1. Last(t) = t[Len(t)]
        BY DEF Last
      <4>2. Last(t) # "*"
        BY <1>3, <2>2, <4>1
      <4> QED BY <4>2
    <3>2. n = a.ssid
      BY <1>3, <2>1, <2>2
    <3>3. AddrParse(t) = [call |-> Upper[t[1]], ssid |-> n, repeated |-> r]
      BY DEF AddrParse
    <3> HIDE DEF r, n
    <3> QED BY <2>2, <3>1, <3>2, <3>3, Zenon
  <2>5. a.repeated = FALSE
    BY <1>2, <1>7
  <2>6. Raised(a) = AddrParse(t)
    BY ONLY <1>4, <1>7, <2>4, <2>5
  <2> QED BY <1>7, <2>2, <2>3, <2>6 DEF t
<1>8. CASE a.ssid # 0 /\ a.repeated
  <2>1. t = <<a.call, s, "*">> /\ SsidText[s] = a.ssid
    BY <1>1, <1>8 DEF t
  <2>2. t \in Seq(AddrTokens) /\ t # <<>> /\ Len(t) = 3 /\ t[1] = a.call /\ t[2] = s /\ t[3] = "*"
    BY <1>3, <2>1
  <2>3. IsAddr(t)
    BY <1>2, <2>1, <2>2 DEF IsAddr
  <2>4. AddrParse(t) = [call |-> Upper[a.call], ssid |-> a.ssid, repeated |-> TRUE]
    <3> DEFINE r == Last(t) = "*"
               n == IF Len(t) > 1 /\ t[2] # "*" THEN SsidText[t[2]] ELSE 0
    <3>1. r = TRUE
      <4>1. Last(t) = t[Len(t)]
        BY DEF Last
      <4>2. Last(t) = "*"
        BY <1>3, <2>2, <4>1
      <4> QED BY <4>2
    <3>2. n = a.ssid
      BY <1>3, <2>1, <2>2
    <3>3. AddrParse(t) = [call |-> Upper[t[1]], ssid |-> n, repeated |-> r]
      BY DEF AddrParse
    <3> HIDE DEF r, n
    <3> QED BY <2>2, <3>1, <3>2, <3>3, Zenon
  <2> QED BY <1>2, <1>4, <1>8, <2>2, <2>3, <2>4 DEF t
<1> QED BY <1>2, <1>5, <1>6, <1>7, <1>8, Zenon

(* A parsed address is a normal one, written no longer than it was read. *)
LEMMA AddrNormal ==
    ASSUME NEW t \in Seq(Tokens), IsAddr(t)
    PROVE  /\ AddrParse(t) \in Addrs /\ Raised(AddrParse(t)) = AddrParse(t)
           /\ Len(AddrFormat(AddrParse(t))) <= Len(t)
           /\ Unmarked(AddrParse(t)) \in Addrs /\ Raised(Unmarked(AddrParse(t))) = Unmarked(AddrParse(t))
           /\ Len(AddrFormat(Unmarked(AddrParse(t)))) <= Len(t)
<1> DEFINE a == AddrParse(t)
           r == Last(t) = "*"
           n == IF Len(t) > 1 /\ t[2] # "*" THEN SsidText[t[2]] ELSE 0
           u == Unmarked(a)
<1>1. a = [call |-> Upper[t[1]], ssid |-> n, repeated |-> r]
  BY DEF AddrParse
<1>2. t[1] \in Calls /\ Len(t) \in 1..3 /\ Last(t) = t[Len(t)]
  BY DEF IsAddr, Last
<1>3. Upper[t[1]] \in Calls /\ Upper[Upper[t[1]]] = Upper[t[1]]
  BY <1>2, UpperAssumption
<1>4. n \in 0..15
  <2>1. CASE Len(t) > 1 /\ t[2] # "*"
    <3>1. t[2] \in DOMAIN SsidText /\ SsidText[t[2]] <= 15
      BY <1>2, <2>1 DEF IsAddr
    <3>2. SsidText[t[2]] \in Nat
      BY <3>1, SsidTextAssumption
    <3> QED BY <2>1, <3>1, <3>2, SMTT(30)
  <2>2. CASE ~(Len(t) > 1 /\ t[2] # "*")
    BY <2>2
  <2> QED BY <2>1, <2>2
<1>5. 1 + (IF n = 0 THEN 0 ELSE 1) + (IF r THEN 1 ELSE 0) <= Len(t)
  <2>1. CASE Len(t) = 1
    <3>1. n = 0
      BY <2>1
    <3>2. ~r
      BY <1>2, <2>1, AddrTokensPlain
    <3> HIDE DEF n, r
    <3> QED BY <2>1, <3>1, <3>2
  <2>2. CASE Len(t) = 2
    <3>1. n = 0 \/ ~r
      BY <1>2, <2>2
    <3> HIDE DEF n, r
    <3> QED BY <2>2, <3>1
  <2>3. CASE Len(t) = 3
    <3> HIDE DEF n, r
    <3> QED BY <2>3
  <2> QED BY <1>2, <2>1, <2>2, <2>3
<1>6. r \in BOOLEAN
  OBVIOUS
<1> HIDE DEF n, r, a
<1>7. a \in Addrs
  BY <1>1, <1>3, <1>4, <1>6 DEF Addrs
<1>8. Raised(a) = a
  BY <1>1, <1>3 DEF Raised
<1>9. u = [call |-> Upper[t[1]], ssid |-> n, repeated |-> FALSE]
  <2>1. u = [a EXCEPT !.repeated = FALSE]
    BY DEF Unmarked
  <2> HIDE DEF u
  <2> QED BY <1>1, <2>1
<1>10. u \in Addrs
  <2> HIDE DEF u
  <2> QED BY <1>9, <1>3, <1>4 DEF Addrs
<1>11. Raised(u) = u
  <2>1. Raised(u) = [u EXCEPT !.call = Upper[u.call]]
    BY DEF Raised
  <2> HIDE DEF u
  <2>2. u.call = Upper[t[1]] /\ Upper[u.call] = u.call
    BY <1>9, <1>3
  <2>3. u \in Addrs
    BY <1>10
  <2> QED BY <2>1, <2>2, <2>3 DEF Addrs
<1> HIDE DEF u
<1>12. Len(AddrFormat(a)) <= Len(t)
  <2>1. Len(AddrFormat(a)) = 1 + (IF a.ssid = 0 THEN 0 ELSE 1) + (IF a.repeated THEN 1 ELSE 0)
    BY <1>7, AddrBack
  <2>2. a.ssid = n /\ (a.repeated <=> r)
    BY <1>1
  <2> QED BY <1>5, <2>1, <2>2
<1>13. Len(AddrFormat(u)) <= Len(t)
  <2>1. Len(AddrFormat(u)) = 1 + (IF u.ssid = 0 THEN 0 ELSE 1) + (IF u.repeated THEN 1 ELSE 0)
    BY <1>10, AddrBack
  <2>2. u.ssid = n /\ ~u.repeated
    BY <1>9
  <2>3. Len(AddrFormat(u)) = 1 + (IF n = 0 THEN 0 ELSE 1)
    BY <2>1, <2>2
  <2> QED BY <1>2, <1>5, <2>3
<1> QED BY <1>7, <1>8, <1>10, <1>11, <1>12, <1>13 DEF a, u

-----------------------------------------------------------------------------
(* Texts between commas *)

PartEntry(t, k) == IF t[k] = Comma THEN <<PartTo(t, k)>> ELSE <<>>

FrontParts(t) == FlattenSeq([k \in 1..Len(t) |-> PartEntry(t, k)])

LastPart(t) == PartTo(t, Len(t) + 1)

LEMMA PartAfter == \A t, k : PartTo(t, k) = SubSeq(t, After(t, Comma, k), k - 1)
BY DEF PartTo, After

LEMMA PartType ==
    ASSUME NEW t \in Seq(Tokens), NEW k \in 1..(Len(t) + 1)
    PROVE  PartTo(t, k) \in Seq(Tokens)
<1> DEFINE m == After(t, Comma, k)
<1>0. k \in Nat \ {0}
  OBVIOUS
<1>1. m \in Nat \ {0} /\ k \in Nat
  <2>1. m \in 1..k
    BY <1>0, AfterProperties
  <2> HIDE DEF m
  <2> QED BY <1>0, <2>1
<1> HIDE DEF m
<1>2. \A i \in m..(k - 1) : t[i] \in Tokens
  BY <1>1
<1>3. SubSeq(t, m, k - 1) \in Seq(Tokens)
  BY <1>1, <1>2, SubSeqProperties
<1> QED BY <1>3, PartAfter DEF m

LEMMA PartEntries ==
    ASSUME NEW t \in Seq(Tokens)
    PROVE  /\ [k \in 1..Len(t) |-> PartEntry(t, k)] \in [1..Len(t) -> Seq(Seq(Tokens))]
           /\ FrontParts(t) \in Seq(Seq(Tokens)) /\ LastPart(t) \in Seq(Tokens)
<1>1. ASSUME NEW k \in 1..Len(t) PROVE PartEntry(t, k) \in Seq(Seq(Tokens))
  <2>1. k \in 1..(Len(t) + 1)
    OBVIOUS
  <2> DEFINE x == PartTo(t, k)
  <2>2. x \in Seq(Tokens)
    BY <2>1, PartType
  <2> HIDE DEF x
  <2>3. <<x>> \in Seq(Seq(Tokens)) /\ <<>> \in Seq(Seq(Tokens))
    BY <2>2
  <2> QED BY <2>3, Zenon DEF PartEntry, x
<1> DEFINE p == [k \in 1..Len(t) |-> PartEntry(t, k)]
<1>2. p \in [1..Len(t) -> Seq(Seq(Tokens))]
  BY <1>1
<1> HIDE DEF p
<1>3. p \in Seq(Seq(Seq(Tokens)))
  BY <1>2
<1>4. FlattenSeq(p) \in Seq(Seq(Tokens))
  BY <1>3, FlattenType
<1>5. Len(t) + 1 \in 1..(Len(t) + 1)
  OBVIOUS
<1> QED BY <1>2, <1>4, <1>5, PartType DEF p, FrontParts, LastPart

LEMMA PartsAre ==
    ASSUME NEW t \in Seq(Tokens)
    PROVE  Parts(t) = Append(FrontParts(t), LastPart(t)) /\ Parts(t) \in Seq(Seq(Tokens))
<1> DEFINE n == Len(t)
           p == [k \in 1..n |-> PartEntry(t, k)]
           e(k) == IF k = n + 1 \/ t[k] = Comma THEN <<PartTo(t, k)>> ELSE <<>>
           q == [k \in 1..(n + 1) |-> e(k)]
<1>1. n \in Nat /\ p \in [1..n -> Seq(Seq(Tokens))] /\ FlattenSeq(p) \in Seq(Seq(Tokens))
  BY PartEntries DEF FrontParts
<1>2. \A k \in 1..n : p[k] = e(k) /\ p[k] \in Seq(Seq(Tokens)) /\ k \in 1..(n + 1)
  <2> SUFFICES ASSUME NEW k \in 1..n PROVE p[k] = e(k) /\ p[k] \in Seq(Seq(Tokens)) /\ k \in 1..(n + 1)
    OBVIOUS
  <2>1. p[k] \in Seq(Seq(Tokens))
    <3> HIDE DEF p
    <3> QED BY <1>1
  <2>2. k # n + 1 /\ k \in 1..(n + 1)
    BY <1>1
  <2>3. p[k] = PartEntry(t, k)
    OBVIOUS
  <2> HIDE DEF p, n
  <2> QED BY <2>1, <2>2, <2>3 DEF PartEntry
<1>3. e(n + 1) = <<LastPart(t)>> /\ LastPart(t) \in Seq(Tokens)
  BY PartEntries DEF LastPart
<1>4. <<LastPart(t)>> \in Seq(Seq(Tokens))
  BY <1>3
<1>5. Parts(t) = FlattenSeq(q)
  BY DEF Parts
<1> HIDE DEF p, e, n
<1>6. q \in [1..(n + 1) -> Seq(Seq(Tokens))]
  <2> SUFFICES ASSUME NEW k \in 1..(n + 1) PROVE e(k) \in Seq(Seq(Tokens))
    OBVIOUS
  <2>1. k \in 1..n \/ k = n + 1
    BY <1>1
  <2> QED BY <1>2, <1>3, <1>4, <2>1
<1>7. q[n + 1] = <<LastPart(t)>> /\ \A k \in 1..n : q[k] = p[k]
  BY <1>1, <1>2, <1>3
<1> HIDE DEF q
<1>8. FlattenSeq(q) = FlattenSeq(p) \o <<LastPart(t)>>
  <2>1. n \in Nat /\ p \in [1..n -> Seq(Seq(Tokens))]
    BY <1>1
  <2>2. \A k \in 1..n : q[k] = p[k]
    BY <1>7
  <2>3. FlattenSeq(q) = FlattenSeq(p) \o q[n + 1]
    BY ONLY <1>6, <2>1, <2>2, FlattenMore
  <2> QED BY ONLY <1>7, <2>3
<1>9. FrontParts(t) = FlattenSeq(p)
  BY DEF FrontParts, p, n
<1>10. Append(FrontParts(t), LastPart(t)) = FrontParts(t) \o <<LastPart(t)>>
  BY <1>1, <1>3, <1>9, AppendIsConcat
<1>11. Append(FrontParts(t), LastPart(t)) \in Seq(Seq(Tokens))
  BY <1>1, <1>3, <1>9, AppendProperties
<1> QED BY <1>5, <1>8, <1>9, <1>10, <1>11

(* One token more. *)
LEMMA PartsGrow ==
    ASSUME NEW t \in Seq(Tokens), NEW c \in Tokens
    PROVE  /\ c = Comma => FrontParts(Append(t, c)) = Parts(t) /\ LastPart(Append(t, c)) = <<>>
           /\ c # Comma => /\ FrontParts(Append(t, c)) = FrontParts(t)
                         /\ LastPart(Append(t, c)) = Append(LastPart(t), c)
<1> DEFINE u == Append(t, c)
           n == Len(t)
           p == [k \in 1..n |-> PartEntry(t, k)]
           q == [k \in 1..(n + 1) |-> PartEntry(u, k)]
           m == After(t, Comma, n + 1)
<1>1. /\ n \in Nat /\ u \in Seq(Tokens) /\ Len(u) = n + 1 /\ u[n + 1] = c
      /\ (n + 2) - 1 = n + 1 /\ (n + 1) + 1 = n + 2 /\ (n + 1) - 1 = n
      /\ \A k \in 1..n : u[k] = t[k]
  OBVIOUS
<1>2. ASSUME NEW k \in 1..(n + 1) PROVE PartTo(u, k) = PartTo(t, k)
  <2>1. After(u, Comma, k) = After(t, Comma, k)
    BY AfterStays
  <2> DEFINE b == After(t, Comma, k)
  <2>2. b \in Nat \ {0} /\ k - 1 \in 0..Len(t)
    <3>1. k \in Nat \ {0} /\ k - 1 \in 0..Len(t)
      OBVIOUS
    <3>2. b \in 1..k
      BY <3>1, AfterProperties
    <3> HIDE DEF b
    <3> QED BY <3>1, <3>2
  <2> HIDE DEF b
  <2>3. SubSeq(u, b, k - 1) = SubSeq(t, b, k - 1)
    BY <2>2, SubSeqSame
  <2> QED BY <2>1, <2>3, PartAfter DEF b
<1>3. FrontParts(u) = FlattenSeq(q) /\ FrontParts(t) = FlattenSeq(p) /\ LastPart(t) = PartTo(t, n + 1)
  BY <1>1 DEF FrontParts, LastPart
<1>4. p \in [1..n -> Seq(Seq(Tokens))] /\ FlattenSeq(p) \in Seq(Seq(Tokens)) /\ LastPart(t) \in Seq(Tokens)
  BY PartEntries DEF FrontParts
<1>5. q \in [1..(n + 1) -> Seq(Seq(Tokens))]
  <2> HIDE DEF u
  <2>1. [k \in 1..Len(u) |-> PartEntry(u, k)] \in [1..Len(u) -> Seq(Seq(Tokens))]
    BY <1>1, PartEntries
  <2> QED BY <1>1, <2>1
<1>6. \A k \in 1..n : q[k] = p[k]
  <2> HIDE DEF u
  <2> SUFFICES ASSUME NEW k \in 1..n PROVE PartEntry(u, k) = PartEntry(t, k)
    BY <1>1
  <2>1. k \in 1..(n + 1)
    BY <1>1
  <2> QED BY <1>1, <1>2, <2>1 DEF PartEntry
<1>7. q[n + 1] = IF c = Comma THEN <<LastPart(t)>> ELSE <<>>
  <2> HIDE DEF u
  <2>1. q[n + 1] = PartEntry(u, n + 1) /\ n + 1 \in 1..(n + 1)
    BY <1>1
  <2> QED BY <1>1, <1>2, <1>3, <2>1 DEF PartEntry
<1>8. FlattenSeq(q) = FlattenSeq(p) \o q[n + 1]
  <2> HIDE DEF p, q, n
  <2>1. n \in Nat
    BY <1>1
  <2> QED BY ONLY <1>4, <1>5, <1>6, <2>1, FlattenMore
<1>9. LastPart(u) = SubSeq(u, After(u, Comma, n + 2), n + 1) /\ LastPart(t) = SubSeq(t, m, n)
  <2> HIDE DEF u, n
  <2>1. LastPart(u) = SubSeq(u, After(u, Comma, n + 2), n + 1)
    BY <1>1, PartAfter DEF LastPart
  <2>2. LastPart(t) = SubSeq(t, m, n)
    BY <1>1, PartAfter DEF LastPart, n
  <2> QED BY <2>1, <2>2
<1>10. After(u, Comma, n + 2) = IF c = Comma THEN n + 2 ELSE m
  BY AfterAppend
<1>11. CASE c = Comma
  <2>1. SubSeq(u, n + 2, n + 1) = <<>>
    <3> HIDE DEF n, u
    <3> QED BY <1>1, SubSeqEmpty
  <2>2. LastPart(u) = <<>>
    BY <1>9, <1>10, <1>11, <2>1
  <2>3. FlattenSeq(p) \o <<LastPart(t)>> = Append(FlattenSeq(p), LastPart(t))
    <3> HIDE DEF p
    <3> QED BY <1>4, AppendIsConcat
  <2>4. FrontParts(u) = Append(FrontParts(t), LastPart(t))
    <3> HIDE DEF p, q, u, n
    <3> QED BY <1>3, <1>7, <1>8, <1>11, <2>3
  <2>5. FrontParts(u) = Parts(t)
    BY <2>4, PartsAre
  <2> QED BY <1>11, <2>2, <2>5
<1>12. CASE c # Comma
  <2>1. m \in 1..(n + 1)
    <3>1. n + 1 \in Nat \ {0}
      BY <1>1
    <3> HIDE DEF n
    <3> QED BY <3>1, AfterProperties
  <2>2. SubSeq(u, m, n + 1) = Append(SubSeq(t, m, n), c)
    <3> HIDE DEF m
    <3> QED BY <2>1, SubSeqAppend
  <2>3. LastPart(u) = Append(LastPart(t), c)
    BY <1>9, <1>10, <1>12, <2>2
  <2>4. FlattenSeq(p) \o <<>> = FlattenSeq(p)
    <3> HIDE DEF p
    <3> QED BY <1>4, ConcatEmptySeq
  <2>5. FrontParts(u) = FrontParts(t)
    <3> HIDE DEF p, q, u, n
    <3> QED BY <1>3, <1>7, <1>8, <1>12, <2>4
  <2> QED BY <1>12, <2>3, <2>5
<1> QED BY <1>11, <1>12

LEMMA ConcatAppend ==
    ASSUME NEW B, NEW s \in Seq(B), NEW x \in Seq(B), NEW c \in B
    PROVE  s \o Append(x, c) = Append(s \o x, c)
<1>1. <<c>> \in Seq(B) /\ s \o x \in Seq(B)
  BY ConcatProperties
<1>2. Append(x, c) = x \o <<c>> /\ Append(s \o x, c) = (s \o x) \o <<c>>
  BY <1>1, AppendIsConcat
<1> QED BY <1>1, <1>2, ConcatAssociative

NoComma(a) == \A i \in 1..Len(a) : a[i] # Comma

(* A text without commas goes to the last part. *)
LEMMA PartsTail ==
    ASSUME NEW u \in Seq(Tokens), NEW a \in Seq(Tokens), NoComma(a)
    PROVE  /\ u \o a \in Seq(Tokens)
           /\ FrontParts(u \o a) = FrontParts(u) /\ LastPart(u \o a) = LastPart(u) \o a
<1> DEFINE upto(k) == SubSeq(a, 1, k)
           P == {k \in 0..Len(a) : /\ u \o upto(k) \in Seq(Tokens)
                                   /\ FrontParts(u \o upto(k)) = FrontParts(u)
                                   /\ LastPart(u \o upto(k)) = LastPart(u) \o upto(k)}
<1>0. LastPart(u) \in Seq(Tokens) /\ a \in Seq(Tokens)
  BY PartEntries
<1>9. \A i \in 1..Len(a) : a[i] \in Tokens /\ a[i] # Comma
  BY DEF NoComma
<1>1. 0 \in P
  <2>1. upto(0) = <<>> /\ 0 \in 0..Len(a)
    BY <1>0
  <2>2. u \o <<>> = u /\ LastPart(u) \o <<>> = LastPart(u)
    BY <1>0, ConcatEmptySeq
  <2> HIDE DEF upto
  <2> QED BY <2>1, <2>2
<1>2. ASSUME NEW k \in 0..(Len(a) - 1), k \in P PROVE k + 1 \in P
  <2> DEFINE c == a[k + 1]
             x == upto(k)
  <2>1. /\ x \in Seq(Tokens) /\ c \in Tokens /\ c # Comma /\ k + 1 \in 0..Len(a)
        /\ upto(k + 1) = Append(x, c)
    BY <1>0, <1>9
  <2>2. /\ u \o x \in Seq(Tokens) /\ FrontParts(u \o x) = FrontParts(u)
        /\ LastPart(u \o x) = LastPart(u) \o x
    BY <1>2
  <2> HIDE DEF x, c, upto
  <2>3. u \o Append(x, c) = Append(u \o x, c)
    BY <2>1, ConcatAppend
  <2>6. LastPart(u) \o Append(x, c) = Append(LastPart(u) \o x, c)
    BY <1>0, <2>1, ConcatAppend
  <2>4. FrontParts(Append(u \o x, c)) = FrontParts(u \o x) /\ LastPart(Append(u \o x, c)) = Append(LastPart(u \o x), c)
    BY <2>1, <2>2, PartsGrow
  <2>5. Append(u \o x, c) \in Seq(Tokens)
    BY <2>1, <2>2, AppendProperties
  <2> QED BY <2>1, <2>2, <2>3, <2>4, <2>5, <2>6
<1>3. upto(Len(a)) = a /\ Len(a) \in Nat /\ Len(a) \in 0..Len(a)
  BY <1>0
<1>4. Len(a) \in P
  <2> HIDE DEF P
  <2> QED BY <1>1, <1>2, <1>3, UpTo
<1> HIDE DEF upto
<1> QED BY <1>3, <1>4

LEMMA PartsOfOne ==
    ASSUME NEW a \in Seq(Tokens), NoComma(a)
    PROVE  Parts(a) = <<a>>
<1> DEFINE e == <<>>
<1>0. e \in Seq(Tokens) /\ a \in Seq(Tokens) /\ Len(e) = 0
  OBVIOUS
<1>1. FrontParts(e) = <<>>
  <2>1. 1..Len(e) = {}
    BY <1>0
  <2>3. [k \in 1..Len(e) |-> PartEntry(e, k)] = <<>>
    BY <2>1
  <2> QED BY <2>3, FlattenEmpty DEF FrontParts
<1>2. LastPart(e) = <<>>
  <2>0. Len(e) + 1 = 1 /\ 1 - 1 = 0 /\ 1 \in Nat \ {0}
    BY <1>0
  <2> HIDE DEF e
  <2>1. LastPart(e) = SubSeq(e, After(e, Comma, 1), 0)
    BY <2>0, PartAfter DEF LastPart
  <2>2. After(e, Comma, 1) \in 1..1
    BY <2>0, AfterProperties
  <2>3. SubSeq(e, 1, 0) = <<>>
    BY SubSeqEmpty
  <2> QED BY <2>1, <2>2, <2>3
<1>3. e \o a = a
  BY <1>0, ConcatEmptySeq
<1> HIDE DEF e
<1>4. FrontParts(a) = <<>> /\ LastPart(a) = a
  <2>1. FrontParts(e \o a) = FrontParts(e) /\ LastPart(e \o a) = LastPart(e) \o a
    BY <1>0, PartsTail
  <2>2. <<>> \o a = a
    BY <1>0, ConcatEmptySeq
  <2> QED BY <1>1, <1>2, <1>3, <2>1, <2>2
<1>5. Parts(a) = Append(<<>>, a)
  BY <1>0, <1>4, PartsAre
<1>6. ASSUME NEW x \in Seq(Tokens) PROVE Append(<<>>, x) = <<x>>
  <2> DEFINE v == Append(<<>>, x)
  <2>1. v \in Seq(Seq(Tokens)) /\ Len(v) = 1 /\ v[1] = x
    OBVIOUS
  <2> HIDE DEF v
  <2>2. v = <<x>>
    BY <2>1
  <2> QED BY <2>2 DEF v
<1> QED BY <1>0, <1>5, <1>6

LEMMA PartsMore ==
    ASSUME NEW t \in Seq(Tokens), NEW a \in Seq(Tokens), NoComma(a)
    PROVE  /\ (t \o <<Comma>>) \o a \in Seq(Tokens) /\ Parts((t \o <<Comma>>) \o a) = Append(Parts(t), a)
<1> DEFINE u == Append(t, Comma)
<1>1. Comma \in Tokens
  BY AddrTokensPlain DEF Signs
<1>2. u \in Seq(Tokens) /\ t \o <<Comma>> = u /\ a \in Seq(Tokens)
  BY <1>1, AppendIsConcat, AppendProperties
<1>3. FrontParts(u) = Parts(t) /\ LastPart(u) = <<>>
  BY <1>1, PartsGrow
<1> HIDE DEF u
<1>4. u \o a \in Seq(Tokens) /\ FrontParts(u \o a) = Parts(t) /\ LastPart(u \o a) = <<>> \o a
  BY <1>2, <1>3, PartsTail
<1>5. <<>> \o a = a
  BY <1>2, ConcatEmptySeq
<1> QED BY <1>2, <1>4, <1>5, PartsAre

(* Parts that are put together with commas are found again. *)
LEMMA PartsBack ==
    ASSUME NEW d \in Seq(Tokens), NoComma(d), NEW n \in Nat, NEW a \in [1..n -> Seq(Tokens)],
           \A i \in 1..n : NoComma(a[i])
    PROVE  LET D == d \o FlattenSeq([i \in 1..n |-> <<Comma>> \o a[i]])
           IN  D \in Seq(Tokens) /\ Parts(D) = <<d>> \o a
<1> DEFINE E(k) == [i \in 1..k |-> <<Comma>> \o a[i]]
           D(k) == d \o FlattenSeq(E(k))
           cut(k) == [i \in 1..k |-> a[i]]
           P == {k \in 0..n : D(k) \in Seq(Tokens) /\ Parts(D(k)) = <<d>> \o cut(k)}
<1>0. Comma \in Tokens /\ <<Comma>> \in Seq(Tokens)
  <2>1. Comma \in Tokens
    BY AddrTokensPlain DEF Signs
  <2> QED BY <2>1
<1>1. ASSUME NEW k \in 0..n
      PROVE  /\ k \in Nat /\ E(k) \in [1..k -> Seq(Tokens)] /\ FlattenSeq(E(k)) \in Seq(Tokens)
             /\ cut(k) \in Seq(Seq(Tokens)) /\ Len(cut(k)) = k
  <2>1. \A i \in 1..k : i \in 1..n /\ a[i] \in Seq(Tokens)
    OBVIOUS
  <2>2. \A i \in 1..k : <<Comma>> \o a[i] \in Seq(Tokens)
    BY <1>0, <2>1, ConcatProperties
  <2>3. E(k) \in [1..k -> Seq(Tokens)]
    BY <2>2
  <2>4. k \in Nat
    OBVIOUS
  <2>5. cut(k) \in Seq(Seq(Tokens)) /\ Len(cut(k)) = k
    BY <2>1, <2>4
  <2> HIDE DEF E
  <2>6. E(k) \in Seq(Seq(Tokens))
    BY <2>3, <2>4
  <2>7. FlattenSeq(E(k)) \in Seq(Tokens)
    BY <2>6, FlattenType
  <2> QED BY <2>3, <2>4, <2>5, <2>7
<1>2. 0 \in P
  <2>1. E(0) = <<>> /\ cut(0) = <<>> /\ 0 \in 0..n
    OBVIOUS
  <2>2. d \o <<>> = d
    BY ConcatEmptySeq
  <2>3. <<d>> \o <<>> = <<d>>
    <3>1. <<d>> \in Seq(Seq(Tokens))
      OBVIOUS
    <3> QED BY <3>1, ConcatEmptySeq
  <2> HIDE DEF E, cut
  <2>4. D(0) = d
    BY <2>1, <2>2, FlattenEmpty
  <2> QED BY <2>1, <2>3, <2>4, PartsOfOne
<1>3. ASSUME NEW k \in 0..(n - 1), k \in P PROVE k + 1 \in P
  <2> DEFINE x == a[k + 1]
             F == FlattenSeq(E(k))
  <2>0. k \in 0..n /\ k + 1 \in 0..n /\ k + 1 \in 1..n /\ k \in Nat
    OBVIOUS
  <2>1. x \in Seq(Tokens) /\ NoComma(x)
    BY <2>0
  <2>2. D(k) \in Seq(Tokens) /\ Parts(D(k)) = <<d>> \o cut(k)
    BY <1>3
  <2>3. E(k + 1)[k + 1] = <<Comma>> \o x /\ \A i \in 1..k : E(k + 1)[i] = E(k)[i]
    BY <2>0
  <2>4. cut(k + 1) = Append(cut(k), x)
    <3>1. cut(k + 1)[k + 1] = x /\ \A i \in 1..k : cut(k + 1)[i] = cut(k)[i]
      BY <2>0
    <3>2. /\ cut(k) \in Seq(Seq(Tokens)) /\ Len(cut(k)) = k
          /\ cut(k + 1) \in Seq(Seq(Tokens)) /\ Len(cut(k + 1)) = k + 1
      BY <1>1, <2>0
    <3> HIDE DEF cut
    <3> QED BY <3>1, <3>2, AppendOf, SMTT(30)
  <2>5. F \in Seq(Tokens) /\ E(k) \in [1..k -> Seq(Tokens)] /\ E(k + 1) \in [1..(k + 1) -> Seq(Tokens)]
        /\ cut(k) \in Seq(Seq(Tokens))
    BY <1>1, <2>0
  <2> HIDE DEF E, cut, x
  <2>6. FlattenSeq(E(k + 1)) = F \o (<<Comma>> \o x)
    BY <2>0, <2>3, <2>5, FlattenMore
  <2> HIDE DEF F
  <2>7. d \o (F \o (<<Comma>> \o x)) = ((d \o F) \o <<Comma>>) \o x
    <3>1. d \o F \in Seq(Tokens) /\ <<Comma>> \o x \in Seq(Tokens)
      BY <1>0, <2>1, <2>5, ConcatProperties
    <3>2. d \o (F \o (<<Comma>> \o x)) = (d \o F) \o (<<Comma>> \o x)
      <4>1. F \in Seq(Tokens)
        BY <2>5
      <4> QED BY ONLY d \in Seq(Tokens), <3>1, <4>1, ConcatAssociative, SMTT(30)
    <3>3. (d \o F) \o (<<Comma>> \o x) = ((d \o F) \o <<Comma>>) \o x
      BY <1>0, <2>1, <3>1, ConcatAssociative, SMTT(30)
    <3> QED BY <3>2, <3>3
  <2>8. D(k) = d \o F
    BY DEF F
  <2>9. D(k + 1) = (D(k) \o <<Comma>>) \o x
    BY <2>6, <2>7, <2>8
  <2> HIDE DEF D
  <2>10. D(k + 1) \in Seq(Tokens) /\ Parts(D(k + 1)) = Append(<<d>> \o cut(k), x)
    BY <2>1, <2>2, <2>9, PartsMore
  <2>11. Append(<<d>> \o cut(k), x) = <<d>> \o cut(k + 1)
    <3>1. <<d>> \in Seq(Seq(Tokens))
      OBVIOUS
    <3>2. cut(k) \in Seq(Seq(Tokens)) /\ x \in Seq(Tokens)
      BY <2>1, <2>5
    <3>3. <<d>> \o Append(cut(k), x) = Append(<<d>> \o cut(k), x)
      BY ONLY <3>1, <3>2, ConcatAppend, SMTT(30)
    <3> QED BY <2>4, <3>3
  <2> QED BY <2>0, <2>10, <2>11
<1>4. n \in P
  <2>1. n \in 0..n
    OBVIOUS
  <2> HIDE DEF P
  <2> QED BY <1>2, <1>3, <2>1, UpTo
<1>5. cut(n) = a
  OBVIOUS
<1> QED BY <1>4, <1>5

LEMMA SignsDiffer ==
    /\ Space \notin EOL /\ Space # "NUL" /\ Comma # ":" /\ Comma # ">" /\ Comma # "NUL"
    /\ Comma \notin EOL \cup {"H0", "H1", "H2"} /\ Space \notin {"H0", "H1", "H2"}
BY Zenon DEF EOL, Comma, Space

-----------------------------------------------------------------------------
(* A formatted line is read back *)

AddrList(f) ==
    FormatStation(f.dst) \o FlattenSeq([i \in DOMAIN f.path |-> <<Comma>> \o AddrFormat(f.path[i])])

LineHead(f) == ((FormatStation(f.src) \o <<">">>) \o AddrList(f)) \o <<":">>

HeadTokens == AddrTokens \cup {Comma, ">", ":"}

LEMMA HeadTokensPlain ==
    /\ HeadTokens \subseteq Tokens /\ HeadTokens \cap (EOL \cup {"NUL", "H0", "H1", "H2"}) = {}
    /\ AddrTokens \subseteq Tokens \ {">"} /\ AddrTokens \cup {Comma} \subseteq Tokens \ {":"}
    /\ Comma \in Tokens /\ Comma \notin AddrTokens /\ ">" \in Tokens /\ ":" \in Tokens
    /\ Space \in Tokens
<1>1. /\ AddrTokens \subseteq Tokens
      /\ AddrTokens \cap (EOL \cup {">", Comma, ":", "NUL", "H0", "H1", "H2"}) = {}
      /\ Signs \subseteq Tokens
  BY AddrTokensPlain
<1>2. Comma \in Signs /\ ">" \in Signs /\ ":" \in Signs /\ Space \in Signs
  BY DEF Signs
<1>3. {Comma, ">", ":"} \cap (EOL \cup {"NUL", "H0", "H1", "H2"}) = {} /\ Comma # ":"
  BY Zenon DEF EOL, Comma
<1> HIDE DEF Signs
<1>4. HeadTokens \subseteq Tokens
  BY <1>1, <1>2 DEF HeadTokens
<1>5. HeadTokens \cap (EOL \cup {"NUL", "H0", "H1", "H2"}) = {}
  BY <1>1, <1>3 DEF HeadTokens
<1> QED BY <1>1, <1>2, <1>3, <1>4, <1>5

LEMMA UnmarkedIs ==
    ASSUME NEW a, NEW c, NEW n, NEW r, a = [call |-> c, ssid |-> n, repeated |-> r]
    PROVE  /\ Unmarked(a) = [call |-> c, ssid |-> n, repeated |-> FALSE]
           /\ Raised(a) = [call |-> Upper[c], ssid |-> n, repeated |-> r]
<1> DEFINE u == Unmarked(a)
           v == Raised(a)
           d == Upper[c]
<1>1. u = [a EXCEPT !.repeated = FALSE]
  BY DEF Unmarked
<1>2. v = [a EXCEPT !.call = Upper[a.call]]
  BY DEF Raised
<1>3. a.call = c
  OBVIOUS
<1> HIDE DEF u, v
<1>4. u = [call |-> c, ssid |-> n, repeated |-> FALSE]
  BY <1>1
<1>5. v = [a EXCEPT !.call = d]
  BY <1>2, <1>3
<1> HIDE DEF d
<1>6. v = [call |-> d, ssid |-> n, repeated |-> r]
  BY <1>5
<1> QED BY <1>4, <1>6 DEF u, v, d

LEMMA UnmarkedFacts ==
    ASSUME NEW a \in Addrs
    PROVE  /\ Unmarked(a) \in Addrs /\ ~Unmarked(a).repeated
           /\ Unmarked(Raised(Unmarked(a))) = Unmarked(Raised(a))
           /\ Raised(a) \in Addrs /\ Raised(a).ssid = a.ssid /\ Raised(a).call = Upper[a.call]
           /\ Raised(a).repeated = a.repeated
<1> DEFINE u == Unmarked(a)
           r == Raised(a)
<1>0. a = [call |-> a.call, ssid |-> a.ssid, repeated |-> a.repeated]
  BY DEF Addrs
<1>1. u = [call |-> a.call, ssid |-> a.ssid, repeated |-> FALSE]
  BY ONLY <1>0, UnmarkedIs
<1>2. r = [call |-> Upper[a.call], ssid |-> a.ssid, repeated |-> a.repeated]
  BY ONLY <1>0, UnmarkedIs
<1>3. a.call \in Calls /\ a.ssid \in 0..15 /\ a.repeated \in BOOLEAN /\ Upper[a.call] \in Calls
  BY UpperAssumption DEF Addrs
<1> HIDE DEF u, r
<1> DEFINE no == FALSE
           up == Upper[a.call]
<1>4. u = [call |-> a.call, ssid |-> a.ssid, repeated |-> no] /\ r = [call |-> up, ssid |-> a.ssid, repeated |-> a.repeated]
  BY <1>1, <1>2
<1> HIDE DEF no, up
<1>5. Unmarked(Raised(u)) = [call |-> up, ssid |-> a.ssid, repeated |-> FALSE]
  <2> DEFINE v == Raised(u)
  <2>1. v = [call |-> Upper[a.call], ssid |-> a.ssid, repeated |-> no]
    BY ONLY <1>4, UnmarkedIs, SMTT(30)
  <2>2. v = [call |-> up, ssid |-> a.ssid, repeated |-> no]
    BY ONLY <2>1 DEF up
  <2> HIDE DEF v
  <2>3. Unmarked(v) = [call |-> up, ssid |-> a.ssid, repeated |-> FALSE]
    <3> DEFINE w == Unmarked(v)
    <3>1. w = [v EXCEPT !.repeated = FALSE]
      BY DEF Unmarked
    <3> HIDE DEF w
    <3>2. w = [call |-> up, ssid |-> a.ssid, repeated |-> FALSE]
      BY ONLY <2>2, <3>1
    <3> QED BY ONLY <3>2 DEF w
  <2> QED BY ONLY <2>3 DEF v
<1>6. Unmarked(r) = [call |-> up, ssid |-> a.ssid, repeated |-> FALSE]
  <2> DEFINE w == Unmarked(r)
  <2>1. w = [r EXCEPT !.repeated = FALSE]
    BY DEF Unmarked
  <2> HIDE DEF w
  <2>2. w = [call |-> up, ssid |-> a.ssid, repeated |-> FALSE]
    BY ONLY <1>4, <2>1
  <2> QED BY ONLY <2>2 DEF w
<1>7. u \in Addrs /\ ~u.repeated
  BY <1>1, <1>3 DEF Addrs
<1>8. r \in Addrs
  BY <1>2, <1>3 DEF Addrs
<1>9. r.ssid = a.ssid /\ r.call = Upper[a.call]
  BY <1>2
<1>10. r.repeated = a.repeated
  BY <1>2, Zenon
<1> QED BY <1>5, <1>6, <1>7, <1>8, <1>9, <1>10 DEF u, r

LEMMA StationText ==
    ASSUME NEW a \in Addrs
    PROVE  /\ FormatStation(a) \in Seq(AddrTokens) /\ FormatStation(a) # <<>>
           /\ IsAddr(FormatStation(a)) /\ ParseStation(FormatStation(a)) = Unmarked(Raised(a))
<1> DEFINE u == Unmarked(a)
<1>1. u \in Addrs /\ Unmarked(Raised(u)) = Unmarked(Raised(a))
  BY UnmarkedFacts
<1> HIDE DEF u
<1>2. FormatStation(a) = AddrFormat(u)
  BY DEF FormatStation, u
<1>3. /\ AddrFormat(u) \in Seq(AddrTokens) /\ AddrFormat(u) # <<>>
      /\ IsAddr(AddrFormat(u)) /\ AddrParse(AddrFormat(u)) = Raised(u)
  BY <1>1, AddrBack
<1> QED BY <1>1, <1>2, <1>3 DEF ParseStation

(* Texts of address tokens are texts, without commas. *)
LEMMA AddrTexts ==
    ASSUME NEW a \in Seq(AddrTokens)
    PROVE  a \in Seq(Tokens) /\ NoComma(a) /\ a \in Seq(Tokens \ {">"}) /\ a \in Seq(HeadTokens)
<1>1. \A i \in 1..Len(a) : a[i] \in AddrTokens
  OBVIOUS
<1>2. AddrTokens \subseteq Tokens /\ Comma \notin AddrTokens /\ AddrTokens \subseteq Tokens \ {">"}
  BY HeadTokensPlain
<1>3. AddrTokens \subseteq HeadTokens
  BY DEF HeadTokens
<1>4. NoComma(a)
  BY <1>1, <1>2 DEF NoComma
<1>5. a \in Seq(Tokens)
  BY <1>2, SeqMonotonic
<1>6. a \in Seq(Tokens \ {">"})
  BY <1>2, SeqMonotonic
<1>7. a \in Seq(HeadTokens)
  BY <1>3, SeqMonotonic
<1> QED BY <1>4, <1>5, <1>6, <1>7

PathTexts(f) == [i \in 1..Len(f.path) |-> AddrFormat(f.path[i])]

LEMMA PathTextsFacts ==
    ASSUME NEW f \in UiFrames(Tokens)
    PROVE  /\ Len(f.path) \in Nat /\ DOMAIN f.path = 1..Len(f.path)
           /\ PathTexts(f) \in [1..Len(f.path) -> Seq(AddrTokens)]
           /\ PathTexts(f) \in [1..Len(f.path) -> Seq(Tokens)]
           /\ \A i \in 1..Len(f.path) :
                 /\ f.path[i] \in Addrs /\ PathTexts(f)[i] = AddrFormat(f.path[i])
                 /\ PathTexts(f)[i] # <<>> /\ IsAddr(PathTexts(f)[i]) /\ NoComma(PathTexts(f)[i])
                 /\ AddrParse(PathTexts(f)[i]) = Raised(f.path[i])
<1>1. f.path \in Seq(Addrs)
  BY DEF UiFrames
<1>2. Len(f.path) \in Nat /\ DOMAIN f.path = 1..Len(f.path) /\ \A i \in 1..Len(f.path) : f.path[i] \in Addrs
  BY <1>1
<1>3. ASSUME NEW i \in 1..Len(f.path)
      PROVE  /\ AddrFormat(f.path[i]) \in Seq(AddrTokens) /\ AddrFormat(f.path[i]) \in Seq(Tokens)
             /\ AddrFormat(f.path[i]) # <<>> /\ IsAddr(AddrFormat(f.path[i]))
             /\ NoComma(AddrFormat(f.path[i])) /\ AddrParse(AddrFormat(f.path[i])) = Raised(f.path[i])
  <2> DEFINE a == f.path[i]
             x == AddrFormat(a)
  <2>1. a \in Addrs
    BY <1>2
  <2> HIDE DEF a
  <2>2. x \in Seq(AddrTokens) /\ x # <<>> /\ IsAddr(x) /\ AddrParse(x) = Raised(a)
    BY <2>1, AddrBack
  <2> HIDE DEF x
  <2>3. x \in Seq(Tokens) /\ NoComma(x)
    BY <2>2, AddrTexts
  <2> QED BY <2>2, <2>3 DEF a, x
<1> QED BY <1>2, <1>3 DEF PathTexts

LEMMA ListBack ==
    ASSUME NEW f \in UiFrames(Tokens)
    PROVE  /\ AddrList(f) \in Seq(AddrTokens \cup {Comma})
           /\ PathParts(AddrList(f)) = <<FormatStation(f.dst)>> \o PathTexts(f)
           /\ Parts(AddrList(f)) = <<FormatStation(f.dst)>> \o PathTexts(f)
<1> DEFINE d == FormatStation(f.dst)
           n == Len(f.path)
           a == PathTexts(f)
           E == [i \in 1..n |-> <<Comma>> \o a[i]]
           L == AddrTokens \cup {Comma}
           p == <<d>> \o a
<1>1. d \in Seq(AddrTokens) /\ d # <<>>
  <2>1. f.dst \in Addrs
    BY DEF UiFrames
  <2> QED BY <2>1, StationText
<1>2. d \in Seq(Tokens) /\ NoComma(d)
  BY <1>1, AddrTexts
<1>3. /\ n \in Nat /\ DOMAIN f.path = 1..n /\ a \in [1..n -> Seq(AddrTokens)] /\ a \in [1..n -> Seq(Tokens)]
      /\ \A i \in 1..n : a[i] = AddrFormat(f.path[i]) /\ a[i] # <<>> /\ NoComma(a[i])
  BY PathTextsFacts
<1>4. AddrList(f) = d \o FlattenSeq(E)
  <2>1. [i \in DOMAIN f.path |-> <<Comma>> \o AddrFormat(f.path[i])] = E
    BY <1>3
  <2> HIDE DEF E
  <2> QED BY <2>1 DEF AddrList
<1> HIDE DEF d, a, n
<1>5. AddrList(f) \in Seq(L)
  <2>1. d \in Seq(L) /\ <<Comma>> \in Seq(L)
    BY <1>1, SeqMonotonic
  <2>2. \A i \in 1..n : a[i] \in Seq(L)
    BY <1>3, SeqMonotonic
  <2> HIDE DEF L
  <2>3. \A i \in 1..n : <<Comma>> \o a[i] \in Seq(L)
    BY <2>1, <2>2, ConcatProperties
  <2>4. E \in Seq(Seq(L))
    BY <1>3, <2>3
  <2> HIDE DEF E
  <2>5. FlattenSeq(E) \in Seq(L)
    BY <2>4, FlattenType
  <2> QED BY <1>4, <2>1, <2>5, ConcatProperties
<1>6. Parts(AddrList(f)) = p
  BY <1>2, <1>3, <1>4, PartsBack
<1>7. <<d>> \in Seq(Seq(Tokens)) /\ a \in Seq(Seq(Tokens)) /\ Len(a) = n
  BY <1>2, <1>3
<1>8. p \in Seq(Seq(Tokens)) /\ Len(p) = 1 + n
      /\ \A i \in 1..(1 + n) : p[i] = IF i <= 1 THEN <<d>>[i] ELSE a[i - 1]
  <2>1. Len(<<d>>) = 1
    OBVIOUS
  <2> QED BY <1>7, <2>1, ConcatProperties
<1>9. p[1 + n] # <<>>
  <2>1. CASE n = 0
    <3>1. p[1 + n] = <<d>>[1]
      BY <1>8, <2>1
    <3>2. <<d>>[1] = d
      OBVIOUS
    <3> QED BY <1>1, <3>1, <3>2
  <2>2. CASE n # 0
    <3>1. p[1 + n] = a[n] /\ n \in 1..n
      BY <1>3, <1>8, <2>2
    <3> QED BY <1>3, <3>1
  <2> QED BY <2>1, <2>2
<1>10. Last(p) # <<>>
  BY <1>8, <1>9 DEF Last
<1> HIDE DEF p
<1>11. PathParts(AddrList(f)) = p
  BY <1>6, <1>10 DEF PathParts
<1> QED BY <1>5, <1>6, <1>11 DEF p, d, a

LEMMA OneLineFacts ==
    ASSUME NEW t \in Seq(Tokens)
    PROVE  /\ OneLine(t) \in Seq(Tokens) /\ Len(OneLine(t)) = Len(t)
           /\ \A i \in 1..Len(t) : OneLine(t)[i] = IF t[i] \in EOL THEN Space ELSE t[i]
           /\ \A i \in 1..Len(t) : OneLine(t)[i] \notin EOL
           /\ ~Contains(t, "NUL") => \A i \in 1..Len(t) : OneLine(t)[i] # "NUL"
<1> DEFINE u == OneLine(t)
<1>1. Space \in Tokens /\ Space \notin EOL /\ Space # "NUL"
  BY HeadTokensPlain, SignsDiffer
<1>2. DOMAIN t = 1..Len(t) /\ Len(t) \in Nat
  OBVIOUS
<1>3. u = [i \in 1..Len(t) |-> IF t[i] \in EOL THEN Space ELSE t[i]]
  BY <1>2 DEF OneLine
<1> HIDE DEF u
<1>4. \A i \in 1..Len(t) : u[i] = IF t[i] \in EOL THEN Space ELSE t[i]
  BY <1>3
<1>5. u \in Seq(Tokens) /\ Len(u) = Len(t)
  BY <1>1, <1>2, <1>3
<1>6. \A i \in 1..Len(t) : u[i] \notin EOL
  BY <1>1, <1>4
<1>7. ~Contains(t, "NUL") => \A i \in 1..Len(t) : u[i] # "NUL"
  BY <1>1, <1>4 DEF Contains
<1> QED BY <1>4, <1>5, <1>6, <1>7 DEF u

LEMMA LineForm ==
    ASSUME NEW f \in UiFrames(Tokens)
    PROVE  /\ LineHead(f) \in Seq(HeadTokens) /\ OneLine(f.payload) \in Seq(Tokens)
           /\ AddrList(f) \in Seq(Tokens \ {":"})
           /\ FormatLine(f) = LineHead(f) \o OneLine(f.payload)
           /\ FormatLine(f) = (FormatStation(f.src) \o <<">">>)
                                 \o ((AddrList(f) \o <<":">>) \o OneLine(f.payload))
           /\ LineHead(f)[Len(LineHead(f))] = ":" /\ LineHead(f) # <<>>
<1> DEFINE A == FormatStation(f.src)
           d == FormatStation(f.dst)
           F == FlattenSeq([i \in DOMAIN f.path |-> <<Comma>> \o AddrFormat(f.path[i])])
           D == AddrList(f)
           g == <<">">>
           c == <<":">>
           P == OneLine(f.payload)
           L == AddrTokens \cup {Comma}
<1>0. f.src \in Addrs /\ f.dst \in Addrs /\ f.payload \in Seq(Tokens)
  BY DEF UiFrames
<1>1. A \in Seq(AddrTokens) /\ d \in Seq(AddrTokens) /\ D \in Seq(L)
  BY <1>0, StationText, ListBack
<1>2. A \in Seq(HeadTokens) /\ D \in Seq(HeadTokens) /\ A \in Seq(Tokens) /\ D \in Seq(Tokens)
      /\ d \in Seq(Tokens) /\ D \in Seq(Tokens \ {":"})
  <2>1. L \subseteq HeadTokens /\ HeadTokens \subseteq Tokens /\ L \subseteq Tokens \ {":"} /\ L \subseteq Tokens
    BY HeadTokensPlain DEF HeadTokens
  <2>2. A \in Seq(Tokens) /\ A \in Seq(HeadTokens) /\ d \in Seq(Tokens)
    BY <1>1, AddrTexts
  <2> HIDE DEF L, D
  <2>3. D \in Seq(HeadTokens) /\ D \in Seq(Tokens) /\ D \in Seq(Tokens \ {":"})
    BY <1>1, <2>1, SeqMonotonic
  <2> QED BY <2>2, <2>3
<1>3. g \in Seq(HeadTokens) /\ c \in Seq(HeadTokens) /\ g \in Seq(Tokens) /\ c \in Seq(Tokens)
      /\ Len(c) = 1 /\ c[1] = ":"
  BY HeadTokensPlain DEF HeadTokens
<1>4. P \in Seq(Tokens)
  BY <1>0, OneLineFacts
<1>5. F \in Seq(Tokens) /\ D = d \o F
  <2>1. D = d \o F
    BY DEF AddrList
  <2> DEFINE E == [i \in DOMAIN f.path |-> <<Comma>> \o AddrFormat(f.path[i])]
  <2>2. /\ Len(f.path) \in Nat /\ DOMAIN f.path = 1..Len(f.path)
        /\ PathTexts(f) \in [1..Len(f.path) -> Seq(Tokens)]
        /\ \A i \in 1..Len(f.path) : PathTexts(f)[i] = AddrFormat(f.path[i])
    BY PathTextsFacts
  <2>3. <<Comma>> \in Seq(Tokens)
    BY HeadTokensPlain
  <2>4. \A i \in 1..Len(f.path) : <<Comma>> \o AddrFormat(f.path[i]) \in Seq(Tokens)
    BY <2>2, <2>3, ConcatProperties
  <2>5. E \in Seq(Seq(Tokens))
    BY <2>2, <2>4
  <2> HIDE DEF E
  <2>6. FlattenSeq(E) \in Seq(Tokens)
    BY <2>5, FlattenType
  <2> QED BY <2>1, <2>6 DEF E
<1>6. FormatLine(f) = ((((A \o g) \o d) \o F) \o c) \o P
  BY DEF FormatLine
<1>7. LineHead(f) = ((A \o g) \o D) \o c
  BY DEF LineHead
<1> HIDE DEF A, d, F, D, g, c, P, L
<1>8. A \o g \in Seq(Tokens) /\ A \o g \in Seq(HeadTokens)
  BY <1>2, <1>3, ConcatProperties
<1> DEFINE B == A \o g
<1> HIDE DEF B
<1>9. B \in Seq(Tokens) /\ B \in Seq(HeadTokens)
  BY <1>8 DEF B
<1>10. (B \o d) \o F = B \o D
  BY <1>2, <1>5, <1>9, ConcatAssociative, SMTT(30)
<1>11. FormatLine(f) = ((B \o D) \o c) \o P /\ LineHead(f) = (B \o D) \o c
  BY <1>6, <1>7, <1>10 DEF B
<1>12. B \o D \in Seq(HeadTokens) /\ B \o D \in Seq(Tokens) /\ Len(B \o D) \in Nat
  BY <1>2, <1>9, ConcatProperties
<1>13. /\ LineHead(f) \in Seq(HeadTokens) /\ Len(LineHead(f)) = Len(B \o D) + 1
       /\ LineHead(f)[Len(B \o D) + 1] = c[1]
  <2> DEFINE y == B \o D
  <2>1. y \in Seq(HeadTokens) /\ Len(y) \in Nat
    BY <1>12
  <2> HIDE DEF y
  <2>2. /\ y \o c \in Seq(HeadTokens) /\ Len(y \o c) = Len(y) + 1
        /\ \A i \in 1..(Len(y) + 1) : (y \o c)[i] = IF i <= Len(y) THEN y[i] ELSE c[i - Len(y)]
    <3>1. c \in Seq(HeadTokens) /\ Len(c) = 1
      BY <1>3
    <3>2. /\ y \o c \in Seq(HeadTokens) /\ Len(y \o c) = Len(y) + Len(c)
          /\ \A i \in 1..(Len(y) + Len(c)) : (y \o c)[i] = IF i <= Len(y) THEN y[i] ELSE c[i - Len(y)]
      BY ONLY <2>1, <3>1, ConcatProperties
    <3> QED BY <3>1, <3>2
  <2>3. (y \o c)[Len(y) + 1] = c[1]
    BY <2>1, <2>2
  <2> QED BY <1>11, <2>2, <2>3 DEF y
<1>14. ((B \o D) \o c) \o P = B \o ((D \o c) \o P)
  <2>0. B \in Seq(Tokens) /\ D \in Seq(Tokens) /\ c \in Seq(Tokens)
    BY <1>2, <1>3, <1>9
  <2>1. D \o c \in Seq(Tokens)
    BY <2>0, ConcatProperties
  <2>2. (B \o D) \o c = B \o (D \o c)
    BY ONLY <2>0, ConcatAssociative
  <2>3. (B \o (D \o c)) \o P = B \o ((D \o c) \o P)
    BY ONLY <1>4, <2>0, <2>1, ConcatAssociative, SMTT(30)
  <2> QED BY <2>2, <2>3
<1>15. LineHead(f) # <<>> /\ LineHead(f)[Len(LineHead(f))] = ":"
  <2>1. Len(LineHead(f)) # 0
    BY <1>12, <1>13
  <2>2. Len(<<>>) = 0
    OBVIOUS
  <2> QED BY <1>3, <1>13, <2>1, <2>2
<1> QED BY <1>2, <1>4, <1>11, <1>13, <1>14, <1>15 DEF A, B, D, g, c, P

(* What a frame reads back as. *)
ReadBack(f) ==
    [dst |-> Unmarked(Raised(f.dst)), src |-> Unmarked(Raised(f.src)),
     path |-> [i \in 1..Len(f.path) |-> Raised(f.path[i])], payload |-> OneLine(f.payload)]

LEMMA LineClean ==
    ASSUME NEW f \in UiFrames(Tokens), ~Contains(f.payload, "NUL")
    PROVE  /\ FormatLine(f) \in Seq(Tokens) /\ StripEol(CString(FormatLine(f))) = FormatLine(f)
           /\ CString(FormatLine(f)) = FormatLine(f)
           /\ \A i \in 1..Len(FormatLine(f)) : FormatLine(f)[i] \notin EOL
           /\ Len(FormatLine(f)) = Len(LineHead(f)) + Len(f.payload)
<1> DEFINE t == FormatLine(f)
           H == LineHead(f)
           P == OneLine(f.payload)
<1>1. H \in Seq(HeadTokens) /\ P \in Seq(Tokens) /\ t = H \o P /\ H # <<>>
  BY LineForm
<1>2. /\ Len(P) = Len(f.payload) /\ (\A i \in 1..Len(P) : P[i] \notin EOL /\ P[i] # "NUL")
      /\ Len(P) \in Nat
  <2>1. f.payload \in Seq(Tokens)
    BY DEF UiFrames
  <2> QED BY <2>1, OneLineFacts
<1> HIDE DEF t, H, P
<1>3. \A i \in 1..Len(H) : H[i] \in HeadTokens
  BY <1>1
<1>4. HeadTokens \subseteq Tokens /\ EOL \cap HeadTokens = {} /\ "NUL" \notin HeadTokens
  BY HeadTokensPlain
<1>5. H \in Seq(Tokens) /\ Len(H) \in Nat \ {0}
  <2>1. H \in Seq(Tokens)
    BY <1>1, <1>4, SeqMonotonic
  <2> QED BY <1>1, <2>1
<1>6. /\ t \in Seq(Tokens) /\ Len(t) = Len(H) + Len(P)
      /\ \A i \in 1..(Len(H) + Len(P)) : t[i] = IF i <= Len(H) THEN H[i] ELSE P[i - Len(H)]
  BY <1>1, <1>5, ConcatProperties
<1>7. \A i \in 1..Len(t) : t[i] \notin EOL /\ t[i] # "NUL"
  <2> SUFFICES ASSUME NEW i \in 1..Len(t) PROVE t[i] \notin EOL /\ t[i] # "NUL"
    OBVIOUS
  <2>1. CASE i <= Len(H)
    <3>1. t[i] = H[i] /\ i \in 1..Len(H)
      BY <1>2, <1>5, <1>6, <2>1
    <3>2. t[i] \in HeadTokens
      BY <1>3, <3>1
    <3> QED BY <1>4, <3>2
  <2>2. CASE ~(i <= Len(H))
    <3>1. t[i] = P[i - Len(H)] /\ i - Len(H) \in 1..Len(P)
      BY <1>2, <1>5, <1>6, <2>2
    <3> QED BY <1>2, <3>1
  <2> QED BY <2>1, <2>2
<1>8. FirstOf(t, {"NUL"}) = 0
  BY <1>6, <1>7, FirstOfNone
<1>9. CString(t) = t
  BY <1>8 DEF CString
<1>10. t # <<>> /\ t[Len(t)] \notin EOL
  <2>1. Len(t) \in 1..Len(t)
    BY <1>2, <1>5, <1>6
  <2>2. t # <<>>
    BY <1>6, <2>1, EmptySeq
  <2> QED BY <1>7, <2>1, <2>2
<1>11. StripEol(t) = t
  BY <1>6, <1>10, StripEolKeeps
<1> QED BY <1>2, <1>6, <1>7, <1>9, <1>11 DEF t, H

(* A line the program writes is one it can read, with the same addresses,  *)
(* marks and text, up to the case of the call signs.                       *)
LEMMA LineBack ==
    ASSUME NEW f \in UiFrames(Tokens), Formattable(f)
    PROVE  /\ Parsable(FormatLine(f)) /\ Encodable(ParseLine(FormatLine(f)))
           /\ ParseLine(FormatLine(f)) = ReadBack(f)
<1> DEFINE t == FormatLine(f)
           A == FormatStation(f.src)
           D == AddrList(f)
           P == OneLine(f.payload)
           R == (D \o <<":">>) \o P
           s == Split(t)
           p == PathParts(D)
           n == Len(f.path)
           T == PathTexts(f)
<1>0. /\ f.src \in Addrs /\ f.dst \in Addrs /\ f.payload \in Seq(Tokens)
      /\ Len(f.path) <= MaxRepeaters /\ Len(f.payload) <= MaxInfo
      /\ ~Contains(f.payload, "NUL") /\ Len(FormatLine(f)) < MaxText
  BY DEF UiFrames, Formattable
<1>1. t \in Seq(Tokens) /\ StripEol(CString(t)) = t /\ CString(t) = t
  BY <1>0, LineClean
<1>2. P \in Seq(Tokens) /\ D \in Seq(Tokens \ {":"}) /\ t = (A \o <<">">>) \o R
  BY LineForm
<1>3. A \in Seq(Tokens \ {">"}) /\ A # <<>> /\ IsAddr(A) /\ ParseStation(A) = Unmarked(Raised(f.src))
  BY <1>0, StationText, AddrTexts
<1>4. Len(P) = Len(f.payload)
  BY <1>0, OneLineFacts
<1>5. ">" \in {">"} \cap Tokens /\ ":" \in {":"} \cap Tokens
  BY HeadTokensPlain
<1>6. p = <<FormatStation(f.dst)>> \o T
  BY ListBack
<1>7. /\ n \in Nat /\ T \in [1..n -> Seq(Tokens)]
      /\ \A i \in 1..n : IsAddr(T[i]) /\ AddrParse(T[i]) = Raised(f.path[i])
  BY PathTextsFacts
<1> HIDE DEF t, A, D, P, T, n
<1>8. /\ R \in Seq(Tokens) /\ FirstOf(R, {":"}) = Len(D) + 1 /\ Len(D) \in Nat
      /\ SubSeq(R, 1, Len(D)) = D /\ SubSeq(R, Len(D) + 2, Len(R)) = P
  <2> DEFINE S == {":"}
             x == ":"
  <2>1. D \in Seq(Tokens \ S) /\ x \in S \cap Tokens /\ P \in Seq(Tokens)
    BY <1>2, <1>5
  <2>2. R = (D \o <<x>>) \o P
    OBVIOUS
  <2>4. Cuts(R, S, D, x, P)
    BY <2>1, <2>2 DEF Cuts
  <2> HIDE DEF S, x, R
  <2>3. /\ R \in Seq(Tokens) /\ FirstOf(R, S) = Len(D) + 1 /\ Len(D) \in Nat
        /\ SubSeq(R, 1, Len(D)) = D /\ SubSeq(R, Len(D) + 2, Len(R)) = P
    BY ONLY <2>4, CutAtSign
  <2> QED BY <2>3 DEF S
<1> HIDE DEF R
<1>9. /\ FirstOf(t, {">"}) = Len(A) + 1 /\ Len(A) \in Nat
      /\ SubSeq(t, 1, Len(A)) = A /\ SubSeq(t, Len(A) + 2, Len(t)) = R
  <2> DEFINE S == {">"}
             x == ">"
  <2>1. A \in Seq(Tokens \ S) /\ x \in S \cap Tokens /\ R \in Seq(Tokens)
    BY <1>3, <1>5, <1>8
  <2>2. t = (A \o <<x>>) \o R
    BY <1>2
  <2>4. Cuts(t, S, A, x, R)
    BY <2>1, <2>2 DEF Cuts
  <2> HIDE DEF S, x
  <2>3. /\ FirstOf(t, S) = Len(A) + 1 /\ Len(A) \in Nat
        /\ SubSeq(t, 1, Len(A)) = A /\ SubSeq(t, Len(A) + 2, Len(t)) = R
    BY ONLY <2>4, CutAtSign
  <2> QED BY <2>3 DEF S
<1>10. s = [ok |-> TRUE, src |-> A, addrs |-> D, payload |-> P]
  <2> DEFINE gt == FirstOf(t, {">"})
             rest == SubSeq(t, gt + 1, Len(t))
             sep == FirstOf(rest, {":"})
             ok == gt > 0 /\ sep > 0
  <2>1. s = [ok |-> ok, src |-> SubSeq(t, 1, gt - 1), addrs |-> SubSeq(rest, 1, sep - 1),
             payload |-> SubSeq(rest, sep + 1, Len(rest))]
    BY <1>1 DEF Split
  <2>2. gt = Len(A) + 1
    BY <1>9
  <2> HIDE DEF gt
  <2>3. gt - 1 = Len(A) /\ gt + 1 = Len(A) + 2 /\ gt > 0
    BY <1>9, <2>2
  <2>4. rest = R
    BY <1>9, <2>3
  <2>5. SubSeq(t, 1, gt - 1) = A
    BY <1>9, <2>3
  <2> HIDE DEF rest
  <2>6. sep = Len(D) + 1
    BY <1>8, <2>4
  <2> HIDE DEF sep
  <2>7. sep - 1 = Len(D) /\ sep + 1 = Len(D) + 2 /\ sep > 0
    BY <1>8, <2>6
  <2>8. SubSeq(rest, 1, sep - 1) = D /\ SubSeq(rest, sep + 1, Len(rest)) = P
    BY <1>8, <2>4, <2>7
  <2>9. ok = TRUE
    BY <2>3, <2>7
  <2> HIDE DEF ok, s
  <2> QED BY ONLY <2>1, <2>5, <2>8, <2>9, Zenon
<1> HIDE DEF s
<1>11. s.ok /\ s.src = A /\ s.addrs = D /\ s.payload = P
  BY <1>10
<1>12. /\ Len(p) = 1 + n /\ p[1] = FormatStation(f.dst)
       /\ \A i \in 1..n : p[i + 1] = T[i]
  <2> DEFINE d == FormatStation(f.dst)
             e == <<d>>
  <2>1. d \in Seq(Tokens)
    BY <1>0, StationText, AddrTexts
  <2> HIDE DEF d
  <2>2. e \in Seq(Seq(Tokens)) /\ Len(e) = 1 /\ e[1] = d
    BY <2>1
  <2>3. T \in Seq(Seq(Tokens)) /\ Len(T) = n
    BY <1>7
  <2> HIDE DEF e, p
  <2>4. /\ Len(e \o T) = Len(e) + Len(T)
        /\ \A i \in 1..(Len(e) + Len(T)) : (e \o T)[i] = IF i <= Len(e) THEN e[i] ELSE T[i - Len(e)]
    BY ONLY <2>2, <2>3, ConcatProperties
  <2>5. p = e \o T
    BY <1>6 DEF d, e
  <2>6. Len(p) = 1 + n /\ \A i \in 1..(1 + n) : p[i] = IF i <= 1 THEN e[i] ELSE T[i - 1]
    BY <2>2, <2>3, <2>4, <2>5
  <2>7. p[1] = d
    BY <1>7, <2>2, <2>6
  <2>8. \A i \in 1..n : p[i + 1] = T[i]
    BY <1>7, <2>6
  <2> QED BY <2>6, <2>7, <2>8 DEF d
<1>13. IsAddr(FormatStation(f.dst)) /\ ParseStation(FormatStation(f.dst)) = Unmarked(Raised(f.dst))
  BY <1>0, StationText
<1>14. p \in Seq(Seq(Tokens)) /\ DOMAIN p = 1..(1 + n)
  <2>1. Parts(D) \in Seq(Seq(Tokens))
    <3>1. D \in Seq(Tokens)
      BY <1>2, WithoutSigns
    <3> QED BY <3>1, PartsAre
  <2>2. p \in Seq(Seq(Tokens))
    <3> DEFINE q == Parts(D)
    <3>1. p = IF Len(q) > 2 /\ Last(q) = <<>> THEN Front(q) ELSE q
      BY DEF PathParts
    <3> HIDE DEF q
    <3>2. q \in Seq(Seq(Tokens))
      BY <2>1 DEF q
    <3>3. Len(q) > 2 => Front(q) \in Seq(Seq(Tokens))
      BY <3>2 DEF Front
    <3> QED BY <3>1, <3>2, <3>3
  <2> HIDE DEF p
  <2> QED BY <1>12, <2>2
<1> HIDE DEF p
<1>15. \A i \in DOMAIN p : IsAddr(p[i])
  <2> SUFFICES ASSUME NEW i \in 1..(1 + n) PROVE IsAddr(p[i])
    BY <1>14
  <2>1. CASE i = 1
    BY <1>12, <1>13, <2>1
  <2>2. CASE i # 1
    <3>1. i - 1 \in 1..n /\ (i - 1) + 1 = i
      BY <1>7, <2>2
    <3>2. p[i] = T[i - 1]
      BY <1>12, <3>1
    <3> QED BY <1>7, <3>1, <3>2
  <2> QED BY <2>1, <2>2
<1>16. IsPath(D)
  <2>1. Len(p) <= 1 + MaxRepeaters
    BY <1>0, <1>7, <1>12, LimitsAssumption DEF n
  <2> QED BY <1>15, <2>1 DEF IsPath, p
<1>17. Parsable(t)
  <2>1. Len(s.payload) <= MaxInfo
    BY <1>0, <1>4, <1>11
  <2>2. Len(CString(t)) < MaxText
    BY <1>0, <1>1 DEF t
  <2> QED BY <1>3, <1>11, <1>16, <2>1, <2>2 DEF Parsable, s
<1>18. PathOf(p) = [i \in 1..n |-> Raised(f.path[i])]
  <2>1. Len(p) - 1 = n
    BY <1>7, <1>12
  <2>2. \A i \in 1..n : AddrParse(p[i + 1]) = Raised(f.path[i])
    BY <1>7, <1>12
  <2> QED BY <2>1, <2>2 DEF PathOf
<1>19. ParseLine(t) = ReadBack(f)
  <2>1. ParseLine(t) = [dst |-> ParseStation(p[1]), src |-> ParseStation(A), path |-> PathOf(p), payload |-> P]
    BY <1>11 DEF ParseLine, s, p
  <2> QED BY <1>3, <1>12, <1>13, <1>18, <2>1 DEF ReadBack, P, n
<1>20. Encodable(ReadBack(f))
  <2> DEFINE r == [i \in 1..n |-> Raised(f.path[i])]
  <2>1. ReadBack(f).path = r /\ ReadBack(f).payload = P
    BY DEF ReadBack, P, n
  <2>2. Len(r) = n
    BY <1>7
  <2> QED BY <1>0, <1>4, <2>1, <2>2 DEF Encodable, n
<1> QED BY <1>17, <1>19, <1>20 DEF t

-----------------------------------------------------------------------------
(* A line read and written again is no longer *)

LEMMA FlattenShorter ==
    ASSUME NEW B, NEW n \in Nat, NEW p \in [1..n -> Seq(B)], NEW q \in [1..n -> Seq(B)],
           \A i \in 1..n : Len(p[i]) <= Len(q[i])
    PROVE  Len(FlattenSeq(p)) <= Len(FlattenSeq(q))
<1> DEFINE cp(k) == [i \in 1..k |-> p[i]]
           cq(k) == [i \in 1..k |-> q[i]]
           P == {k \in 0..n : Len(FlattenSeq(cp(k))) <= Len(FlattenSeq(cq(k)))}
<1>1. 0 \in P
  <2>1. cp(0) = <<>> /\ cq(0) = <<>> /\ 0 \in 0..n /\ Len(<<>>) <= Len(<<>>)
    OBVIOUS
  <2> HIDE DEF cp, cq
  <2> QED BY <2>1, FlattenEmpty
<1>2. ASSUME NEW k \in 0..(n - 1), k \in P PROVE k + 1 \in P
  <2>1. /\ k \in Nat /\ k + 1 \in 0..n
        /\ cp(k) \in [1..k -> Seq(B)] /\ cp(k + 1) \in [1..(k + 1) -> Seq(B)]
        /\ cq(k) \in [1..k -> Seq(B)] /\ cq(k + 1) \in [1..(k + 1) -> Seq(B)]
    OBVIOUS
  <2>2. /\ cp(k + 1)[k + 1] = p[k + 1] /\ cq(k + 1)[k + 1] = q[k + 1] /\ k + 1 \in 1..n
        /\ (\A i \in 1..k : cp(k + 1)[i] = cp(k)[i]) /\ \A i \in 1..k : cq(k + 1)[i] = cq(k)[i]
    OBVIOUS
  <2>3. Len(FlattenSeq(cp(k))) <= Len(FlattenSeq(cq(k)))
    BY <1>2
  <2> HIDE DEF cp, cq
  <2>4. FlattenSeq(cp(k)) \in Seq(B) /\ FlattenSeq(cp(k + 1)) = FlattenSeq(cp(k)) \o p[k + 1]
    <3>1. FlattenSeq(cp(k)) \in Seq(B) /\ FlattenSeq(cp(k + 1)) = FlattenSeq(cp(k)) \o cp(k + 1)[k + 1]
      BY <2>1, <2>2, FlattenMore, Zenon
    <3> QED BY <2>2, <3>1, Zenon
  <2>5. FlattenSeq(cq(k)) \in Seq(B) /\ FlattenSeq(cq(k + 1)) = FlattenSeq(cq(k)) \o q[k + 1]
    <3>1. FlattenSeq(cq(k)) \in Seq(B) /\ FlattenSeq(cq(k + 1)) = FlattenSeq(cq(k)) \o cq(k + 1)[k + 1]
      BY <2>1, <2>2, FlattenMore, Zenon
    <3> QED BY <2>2, <3>1, Zenon
  <2>6. p[k + 1] \in Seq(B) /\ q[k + 1] \in Seq(B) /\ Len(p[k + 1]) <= Len(q[k + 1])
    BY <2>2
  <2> DEFINE x == p[k + 1]
             y == q[k + 1]
             u == FlattenSeq(cp(k))
             v == FlattenSeq(cq(k))
  <2>7. x \in Seq(B) /\ y \in Seq(B) /\ u \in Seq(B) /\ v \in Seq(B)
    BY <2>4, <2>5, <2>6
  <2>8. Len(x) <= Len(y) /\ Len(u) <= Len(v)
    BY <2>3, <2>6
  <2>9. FlattenSeq(cp(k + 1)) = u \o x /\ FlattenSeq(cq(k + 1)) = v \o y
    BY <2>4, <2>5
  <2> HIDE DEF x, y, u, v
  <2>10. Len(u \o x) = Len(u) + Len(x) /\ Len(v \o y) = Len(v) + Len(y)
    BY ONLY <2>7, ConcatProperties
  <2>11. Len(u \o x) <= Len(v \o y)
    BY ONLY <2>7, <2>8, <2>10
  <2> QED BY <2>1, <2>9, <2>11
<1>3. n \in P
  <2>1. n \in 0..n
    OBVIOUS
  <2> HIDE DEF P
  <2> QED BY <1>1, <1>2, <2>1, UpTo
<1>4. cp(n) = p /\ cq(n) = q
  OBVIOUS
<1> QED BY <1>3, <1>4

Commas(p) == [i \in 1..Len(p) |-> <<Comma>> \o p[i]]

Joined(p) == FlattenSeq(Commas(p))

LEMMA CommasType ==
    ASSUME NEW p \in Seq(Seq(Tokens))
    PROVE  /\ Commas(p) \in [1..Len(p) -> Seq(Tokens)] /\ Joined(p) \in Seq(Tokens)
           /\ \A i \in 1..Len(p) : Commas(p)[i] = <<Comma>> \o p[i] /\ Len(Commas(p)[i]) = 1 + Len(p[i])
<1>1. <<Comma>> \in Seq(Tokens) /\ Len(<<Comma>>) = 1
  BY HeadTokensPlain
<1>2. ASSUME NEW i \in 1..Len(p)
      PROVE  <<Comma>> \o p[i] \in Seq(Tokens) /\ Len(<<Comma>> \o p[i]) = 1 + Len(p[i])
  <2> DEFINE x == p[i]
  <2>1. x \in Seq(Tokens)
    OBVIOUS
  <2> HIDE DEF x
  <2>2. <<Comma>> \o x \in Seq(Tokens) /\ Len(<<Comma>> \o x) = Len(<<Comma>>) + Len(x)
    BY ONLY <1>1, <2>1, ConcatProperties
  <2> QED BY <1>1, <2>2 DEF x
<1>3. Commas(p) \in [1..Len(p) -> Seq(Tokens)]
  BY <1>2 DEF Commas
<1>4. Commas(p) \in Seq(Seq(Tokens))
  <2>1. Len(p) \in Nat
    OBVIOUS
  <2>2. ASSUME NEW k \in Nat, NEW x \in [1..k -> Seq(Tokens)] PROVE x \in Seq(Seq(Tokens))
    BY ONLY <2>2
  <2> QED BY <1>3, <2>1, <2>2
<1>5. Joined(p) \in Seq(Tokens)
  BY <1>4, FlattenType DEF Joined
<1>6. \A i \in 1..Len(p) : Commas(p)[i] = <<Comma>> \o p[i]
  BY DEF Commas
<1> QED BY <1>2, <1>3, <1>5, <1>6

LEMMA JoinedAppend ==
    ASSUME NEW p \in Seq(Seq(Tokens)), NEW x \in Seq(Tokens)
    PROVE  Len(Joined(Append(p, x))) = Len(Joined(p)) + 1 + Len(x)
<1> DEFINE q == Append(p, x)
           n == Len(p)
           c == Commas(q)[n + 1]
<1>1. n \in Nat /\ q \in Seq(Seq(Tokens)) /\ Len(q) = n + 1 /\ q[n + 1] = x
      /\ n + 1 \in 1..(n + 1) /\ \A i \in 1..n : q[i] = p[i] /\ i \in 1..(n + 1)
  OBVIOUS
<1> HIDE DEF q
<1>2. /\ Commas(q) \in [1..(n + 1) -> Seq(Tokens)] /\ Commas(p) \in [1..n -> Seq(Tokens)]
      /\ \A i \in 1..n : Commas(p)[i] = <<Comma>> \o p[i]
      /\ \A i \in 1..(n + 1) : Commas(q)[i] = <<Comma>> \o q[i] /\ Len(Commas(q)[i]) = 1 + Len(q[i])
      /\ Joined(p) \in Seq(Tokens)
  <2>1. /\ Commas(p) \in [1..n -> Seq(Tokens)] /\ Joined(p) \in Seq(Tokens)
        /\ \A i \in 1..n : Commas(p)[i] = <<Comma>> \o p[i]
    BY CommasType
  <2>2. /\ Commas(q) \in [1..Len(q) -> Seq(Tokens)]
        /\ \A i \in 1..Len(q) : Commas(q)[i] = <<Comma>> \o q[i] /\ Len(Commas(q)[i]) = 1 + Len(q[i])
    BY <1>1, CommasType
  <2> QED BY <1>1, <2>1, <2>2
<1>3. \A i \in 1..n : Commas(q)[i] = Commas(p)[i]
  BY <1>1, <1>2
<1>4. Joined(q) = Joined(p) \o c
  <2> HIDE DEF n
  <2>1. Commas(q) \in [1..(n + 1) -> Seq(Tokens)] /\ Commas(p) \in [1..n -> Seq(Tokens)] /\ n \in Nat
    BY <1>1, <1>2
  <2>2. FlattenSeq(Commas(q)) = FlattenSeq(Commas(p)) \o Commas(q)[n + 1]
    BY ONLY <1>3, <2>1, FlattenMore
  <2> QED BY <2>2 DEF Joined
<1>5. c \in Seq(Tokens) /\ Len(c) = 1 + Len(x)
  BY <1>1, <1>2
<1>6. Joined(p) \in Seq(Tokens)
  BY <1>2
<1> HIDE DEF c
<1>7. Len(Joined(p) \o c) = Len(Joined(p)) + Len(c)
  BY ONLY <1>5, <1>6, ConcatProperties
<1>8. Len(Joined(p)) \in Nat /\ Len(x) \in Nat
  BY <1>6
<1> QED BY <1>4, <1>5, <1>7, <1>8 DEF q

LEMMA PartsLength ==
    ASSUME NEW t \in Seq(Tokens)
    PROVE  Len(Joined(Parts(t))) = Len(t) + 1
<1> DEFINE upto(k) == SubSeq(t, 1, k)
           J(u) == Len(Joined(FrontParts(u))) + Len(LastPart(u))
           P == {k \in 0..Len(t) : J(upto(k)) = k}
<1>0. ASSUME NEW u \in Seq(Tokens)
      PROVE  /\ FrontParts(u) \in Seq(Seq(Tokens)) /\ LastPart(u) \in Seq(Tokens)
             /\ Joined(FrontParts(u)) \in Seq(Tokens)
             /\ Len(Joined(FrontParts(u))) \in Nat /\ Len(LastPart(u)) \in Nat
  <2>1. FrontParts(u) \in Seq(Seq(Tokens)) /\ LastPart(u) \in Seq(Tokens)
    BY PartEntries
  <2>2. Joined(FrontParts(u)) \in Seq(Tokens)
    BY <2>1, CommasType
  <2> QED BY <2>1, <2>2
<1>1. 0 \in P
  <2> DEFINE e == <<>>
  <2>1. upto(0) = e /\ 0 \in 0..Len(t) /\ e \in Seq(Tokens) /\ Len(e) = 0 /\ NoComma(e)
    BY DEF NoComma
  <2>2. Parts(e) = <<e>>
    BY <2>1, PartsOfOne
  <2>3. Parts(e) = Append(FrontParts(e), LastPart(e))
    BY <2>1, PartsAre
  <2>4. FrontParts(e) \in Seq(Seq(Tokens)) /\ LastPart(e) \in Seq(Tokens)
    BY <1>0, <2>1
  <2>5. FrontParts(e) = <<>> /\ LastPart(e) = <<>>
    <3> DEFINE F == FrontParts(e)
               L == LastPart(e)
               g == Append(F, L)
    <3>1. F \in Seq(Seq(Tokens)) /\ L \in Seq(Tokens)
      BY <2>4
    <3> HIDE DEF F, L
    <3>2. g[Len(F) + 1] = L
      BY <3>1
    <3>7. Len(g) = Len(F) + 1 /\ Len(F) \in Nat
      BY <3>1
    <3>3. g = <<e>>
      BY <2>2, <2>3 DEF F, L
    <3> HIDE DEF g
    <3>8. Len(g) = 1
      BY <3>3
    <3>4. g[1] = e
      BY <3>3
    <3>5. Len(F) = 0 /\ L = e
      <4>1. Len(F) = 0
        <5> DEFINE m == Len(F)
                   w == Len(g)
        <5>1. w = m + 1 /\ m \in Nat /\ w = 1
          BY <3>7, <3>8
        <5> HIDE DEF m, w
        <5>2. m = 0
          BY ONLY <5>1
        <5> QED BY <5>2 DEF m
      <4>2. g[0 + 1] = L /\ 0 + 1 = 1
        BY ONLY <3>2, <4>1
      <4> HIDE DEF e
      <4> QED BY ONLY <3>4, <4>1, <4>2
    <3>6. F = <<>>
      BY <3>1, <3>5, EmptySeq
    <3> QED BY <3>5, <3>6 DEF F, L
  <2>6. Joined(<<>>) = <<>>
    <3>1. Commas(<<>>) = <<>>
      BY DEF Commas
    <3> QED BY <3>1, FlattenEmpty DEF Joined
  <2>7. J(e) = 0
    BY <2>1, <2>5, <2>6
  <2> HIDE DEF upto, J, e
  <2> QED BY <2>1, <2>7
<1>2. ASSUME NEW k \in 0..(Len(t) - 1), k \in P PROVE k + 1 \in P
  <2> DEFINE u == upto(k)
             c == t[k + 1]
             v == upto(k + 1)
  <2>1. u \in Seq(Tokens) /\ c \in Tokens /\ k + 1 \in 0..Len(t) /\ v = Append(u, c) /\ k \in Nat
    OBVIOUS
  <2>2. J(u) = k
    BY <1>2
  <2> HIDE DEF upto, u, c, v
  <2>3. /\ FrontParts(u) \in Seq(Seq(Tokens)) /\ LastPart(u) \in Seq(Tokens)
        /\ Len(Joined(FrontParts(u))) \in Nat /\ Len(LastPart(u)) \in Nat
    BY <1>0, <2>1
  <2>4. CASE c = Comma
    <3>1. FrontParts(v) = Append(FrontParts(u), LastPart(u)) /\ LastPart(v) = <<>>
      BY <2>1, <2>4, PartsGrow, PartsAre
    <3>2. Len(Joined(FrontParts(v))) = Len(Joined(FrontParts(u))) + 1 + Len(LastPart(u))
      BY <2>3, <3>1, JoinedAppend
    <3>3. Len(LastPart(v)) = 0
      BY <3>1
    <3>4. J(v) = k + 1
      BY <2>2, <2>3, <3>2, <3>3
    <3> QED BY <2>1, <3>4 DEF v
  <2>5. CASE c # Comma
    <3>1. FrontParts(v) = FrontParts(u) /\ LastPart(v) = Append(LastPart(u), c)
      BY <2>1, <2>5, PartsGrow
    <3>2. Len(LastPart(v)) = Len(LastPart(u)) + 1
      BY <2>1, <2>3, <3>1
    <3>3. J(v) = k + 1
      BY <2>2, <2>3, <3>1, <3>2
    <3> QED BY <2>1, <3>3 DEF v
  <2> QED BY <2>4, <2>5
<1>3. upto(Len(t)) = t /\ Len(t) \in Nat /\ Len(t) \in 0..Len(t)
  OBVIOUS
<1>4. Len(t) \in P
  <2> HIDE DEF P
  <2> QED BY <1>1, <1>2, <1>3, UpTo
<1> HIDE DEF upto
<1>5. J(t) = Len(t)
  BY <1>3, <1>4
<1>6. Len(Joined(Parts(t))) = Len(Joined(FrontParts(t))) + 1 + Len(LastPart(t))
  BY <1>0, PartsAre, JoinedAppend
<1> QED BY <1>0, <1>3, <1>5, <1>6

LEMMA JoinedShorter ==
    ASSUME NEW p \in Seq(Seq(Tokens)), NEW q \in Seq(Seq(Tokens)), Len(p) <= Len(q),
           \A i \in 1..Len(p) : Len(p[i]) <= Len(q[i])
    PROVE  Len(Joined(p)) <= Len(Joined(q))
<1> DEFINE n == Len(q)
           m == Len(p)
           a == [i \in 1..n |-> IF i <= m THEN Commas(p)[i] ELSE <<>>]
<1>0. n \in Nat /\ m \in Nat /\ (\A i \in 1..m : i \in 1..n) /\ <<>> \in Seq(Tokens) /\ Len(<<>>) = 0
  OBVIOUS
<1>1. /\ Commas(p) \in [1..m -> Seq(Tokens)] /\ Commas(q) \in [1..n -> Seq(Tokens)]
      /\ (\A i \in 1..m : Len(Commas(p)[i]) = 1 + Len(p[i]))
      /\ \A i \in 1..n : Len(Commas(q)[i]) = 1 + Len(q[i])
  BY CommasType
<1>2. a \in [1..n -> Seq(Tokens)]
  BY <1>0, <1>1
<1>3. \A i \in 1..n : Len(a[i]) <= Len(Commas(q)[i])
  <2> SUFFICES ASSUME NEW i \in 1..n PROVE Len(a[i]) <= Len(Commas(q)[i])
    OBVIOUS
  <2>0. q[i] \in Seq(Tokens) /\ Len(q[i]) \in Nat
    OBVIOUS
  <2>1. CASE i <= m
    <3>1. i \in 1..m /\ a[i] = Commas(p)[i]
      BY <1>0, <2>1
    <3>2. p[i] \in Seq(Tokens) /\ Len(p[i]) \in Nat /\ Len(p[i]) <= Len(q[i])
      BY <3>1
    <3>3. Len(a[i]) = 1 + Len(p[i]) /\ Len(Commas(q)[i]) = 1 + Len(q[i])
      BY <1>1, <3>1
    <3> HIDE DEF a
    <3> QED BY <2>0, <3>2, <3>3
  <2>2. CASE ~(i <= m)
    <3>1. a[i] = <<>>
      BY <2>2
    <3> HIDE DEF a
    <3>2. Len(a[i]) = 0
      BY <1>0, <3>1
    <3> QED BY <1>1, <2>0, <3>2
  <2> QED BY <2>1, <2>2
<1>4. (\A i \in 1..m : Commas(p)[i] = a[i]) /\ \A i \in (m + 1)..n : a[i] = <<>>
  BY <1>0
<1>5. a \in Seq(Seq(Tokens)) /\ Len(a) = n /\ Commas(p) \in Seq(Seq(Tokens)) /\ Len(Commas(p)) = m
  <2> HIDE DEF a, n, m
  <2>1. ASSUME NEW k \in Nat, NEW x \in [1..k -> Seq(Tokens)] PROVE x \in Seq(Seq(Tokens)) /\ Len(x) = k
    BY ONLY <2>1
  <2> QED BY <1>0, <1>1, <1>2, <2>1
<1> HIDE DEF a
<1>6. Len(FlattenSeq(a)) <= Len(FlattenSeq(Commas(q)))
  <2> HIDE DEF n
  <2>1. Commas(q) \in [1..n -> Seq(Tokens)] /\ n \in Nat
    BY <1>0, <1>1
  <2> QED BY ONLY <1>2, <1>3, <2>1, FlattenShorter
<1>7. FlattenSeq(a) = FlattenSeq(Commas(p))
  <2> DEFINE c == Commas(p)
  <2> HIDE DEF c
  <2>1. /\ c \in Seq(Seq(Tokens)) /\ a \in Seq(Seq(Tokens)) /\ Len(c) <= Len(a)
        /\ (\A i \in 1..Len(c) : c[i] = a[i]) /\ \A i \in (Len(c) + 1)..Len(a) : a[i] = <<>>
    BY <1>4, <1>5 DEF c
  <2>2. FlattenSeq(a) = FlattenSeq(c)
    BY ONLY <2>1, FlattenCut
  <2> QED BY <2>2 DEF c
<1> QED BY <1>6, <1>7 DEF Joined

-----------------------------------------------------------------------------
(* What a parsed line is *)

LEMMA SubText ==
    ASSUME NEW t \in Seq(Tokens), NEW a \in 1..(Len(t) + 1), NEW b \in (a - 1)..Len(t)
    PROVE  /\ SubSeq(t, a, b) \in Seq(Tokens) /\ Len(SubSeq(t, a, b)) = (b - a) + 1
           /\ \A i \in 1..((b - a) + 1) : SubSeq(t, a, b)[i] = t[(a + i) - 1] /\ (a + i) - 1 \in 1..Len(t)
OBVIOUS

HasNul(t) == \E i \in 1..Len(t) : t[i] = "NUL"

LEMMA SubNul ==
    ASSUME NEW t \in Seq(Tokens), ~HasNul(t), NEW a \in 1..(Len(t) + 1), NEW b \in (a - 1)..Len(t)
    PROVE  ~HasNul(SubSeq(t, a, b))
<1> DEFINE u == SubSeq(t, a, b)
<1>1. Len(u) = (b - a) + 1 /\ \A i \in 1..((b - a) + 1) : u[i] = t[(a + i) - 1] /\ (a + i) - 1 \in 1..Len(t)
  BY SubText
<1> HIDE DEF u
<1>2. ~HasNul(u)
  BY <1>1 DEF HasNul
<1> QED BY <1>2 DEF u

LEMMA CStringFacts ==
    ASSUME NEW t \in Seq(Tokens)
    PROVE  CString(t) \in Seq(Tokens) /\ ~HasNul(CString(t))
<1> DEFINE m == FirstOf(t, {"NUL"})
<1>1. /\ m \in 0..Len(t) /\ (m = 0 => \A j \in 1..Len(t) : t[j] \notin {"NUL"})
      /\ m # 0 => \A j \in 1..(m - 1) : t[j] \notin {"NUL"}
  BY FirstOfFacts
<1>2. CString(t) = IF m = 0 THEN t ELSE SubSeq(t, 1, m - 1)
  BY DEF CString
<1> HIDE DEF m
<1>3. CASE m = 0
  BY <1>1, <1>2, <1>3 DEF HasNul
<1>4. CASE m # 0
  <2> DEFINE u == SubSeq(t, 1, m - 1)
  <2>1. u \in Seq(Tokens) /\ Len(u) = m - 1 /\ \A i \in 1..(m - 1) : u[i] = t[i]
    BY <1>1, <1>4
  <2> HIDE DEF u
  <2>2. ~HasNul(u)
    BY <1>1, <1>4, <2>1 DEF HasNul
  <2> QED BY <1>2, <1>4, <2>1, <2>2 DEF u
<1> QED BY <1>3, <1>4

LEMMA SplitFacts ==
    ASSUME NEW line \in Seq(Tokens), Split(line).ok
    PROVE  LET s == Split(line)
           IN  /\ s.src \in Seq(Tokens) /\ s.addrs \in Seq(Tokens) /\ s.payload \in Seq(Tokens)
               /\ ~HasNul(s.payload)
               /\ Len(s.src) + Len(s.addrs) + Len(s.payload) + 2 <= Len(CString(line))
<1> DEFINE c == CString(line)
           t == StripEol(c)
           gt == FirstOf(t, {">"})
           rest == SubSeq(t, gt + 1, Len(t))
           sep == FirstOf(rest, {":"})
           ok == gt > 0 /\ sep > 0
           s == Split(line)
           A == SubSeq(t, 1, gt - 1)
           D == SubSeq(rest, 1, sep - 1)
           P == SubSeq(rest, sep + 1, Len(rest))
<1>1. s = [ok |-> ok, src |-> A, addrs |-> D, payload |-> P]
  BY DEF Split
<1>2. s.src = A /\ s.addrs = D /\ s.payload = P
  <2> HIDE DEF s, ok, A, D, P
  <2> QED BY <1>1
<1>3. ok
  <2> HIDE DEF ok
  <2>1. s.ok = ok
    BY <1>1
  <2> QED BY <2>1
<1> HIDE DEF s
<1>4. c \in Seq(Tokens) /\ ~HasNul(c) /\ Len(c) \in Nat
  BY CStringFacts
<1> HIDE DEF c
<1>5. PICK n \in 0..Len(c) : t = SubSeq(c, 1, n)
  BY <1>4, StripEolFacts
<1>6. t \in Seq(Tokens) /\ Len(t) = n
  <2> HIDE DEF t
  <2> QED BY <1>4, <1>5
<1>7. ~HasNul(t)
  <2>1. 1 \in 1..(Len(c) + 1) /\ n \in (1 - 1)..Len(c)
    BY <1>4
  <2> HIDE DEF t
  <2> QED BY <1>4, <1>5, <2>1, SubNul
<1> HIDE DEF t
<1>8. gt \in 1..Len(t)
  <2>1. gt \in 0..Len(t)
    BY <1>6, FirstOfFacts
  <2> QED BY <1>3, <2>1
<1> HIDE DEF gt
<1>9. rest \in Seq(Tokens) /\ Len(rest) = Len(t) - gt /\ ~HasNul(rest)
  <2>1. gt + 1 \in 1..(Len(t) + 1) /\ Len(t) \in ((gt + 1) - 1)..Len(t) /\ (Len(t) - (gt + 1)) + 1 = Len(t) - gt
    BY <1>6, <1>8
  <2>2. rest \in Seq(Tokens) /\ Len(rest) = (Len(t) - (gt + 1)) + 1
    BY <1>6, <2>1, SubText
  <2>3. ~HasNul(rest)
    BY <1>6, <1>7, <2>1, SubNul
  <2> HIDE DEF rest
  <2> QED BY <2>1, <2>2, <2>3
<1>10. A \in Seq(Tokens) /\ Len(A) = gt - 1
  BY <1>6, <1>8
<1> HIDE DEF rest
<1>11. sep \in 1..Len(rest)
  <2>1. sep \in 0..Len(rest)
    BY <1>9, FirstOfFacts
  <2> QED BY <1>3, <2>1
<1> HIDE DEF sep
<1>12. D \in Seq(Tokens) /\ Len(D) = sep - 1
  BY <1>9, <1>11
<1>13. P \in Seq(Tokens) /\ Len(P) = Len(rest) - sep /\ ~HasNul(P)
  <2>1. sep + 1 \in 1..(Len(rest) + 1) /\ Len(rest) \in ((sep + 1) - 1)..Len(rest)
        /\ (Len(rest) - (sep + 1)) + 1 = Len(rest) - sep
    BY <1>9, <1>11
  <2>2. P \in Seq(Tokens) /\ Len(P) = (Len(rest) - (sep + 1)) + 1
    BY <1>9, <2>1, SubText
  <2>3. ~HasNul(P)
    BY <1>9, <2>1, SubNul
  <2> HIDE DEF P
  <2> QED BY <2>1, <2>2, <2>3
<1> HIDE DEF A, D, P
<1>14. Len(A) + Len(D) + Len(P) + 2 <= Len(c)
  BY <1>4, <1>5, <1>6, <1>8, <1>9, <1>10, <1>11, <1>12, <1>13
<1> QED BY <1>2, <1>10, <1>12, <1>13, <1>14 DEF s, c

(* The addresses of a parsed list. *)
LEMMA PathFacts ==
    ASSUME NEW t \in Seq(Tokens), IsPath(t)
    PROVE  LET p == PathParts(t)
           IN  /\ p \in Seq(Seq(Tokens)) /\ Len(p) \in 1..(1 + MaxRepeaters)
               /\ \A i \in 1..Len(p) : IsAddr(p[i])
               /\ Len(Joined(p)) <= Len(t) + 1
<1> DEFINE p == PathParts(t)
           q == Parts(t)
<1>1. q \in Seq(Seq(Tokens)) /\ Len(Joined(q)) = Len(t) + 1
  BY PartsAre, PartsLength
<1>2. Len(q) \in Nat \ {0}
  <2>1. FrontParts(t) \in Seq(Seq(Tokens)) /\ LastPart(t) \in Seq(Tokens) /\ q = Append(FrontParts(t), LastPart(t))
    BY PartEntries, PartsAre
  <2>2. Len(q) = Len(FrontParts(t)) + 1 /\ Len(FrontParts(t)) \in Nat
    BY <2>1
  <2> QED BY <2>2
<1>3. p = q \/ (Len(q) > 2 /\ p = Front(q))
  BY DEF PathParts
<1>4. (\A i \in DOMAIN p : IsAddr(p[i])) /\ Len(p) <= 1 + MaxRepeaters
  BY DEF IsPath
<1> HIDE DEF p, q
<1>5. /\ p \in Seq(Seq(Tokens)) /\ Len(p) \in Nat \ {0} /\ Len(p) <= Len(q)
      /\ \A i \in 1..Len(p) : p[i] = q[i]
  <2>1. CASE p = q
    BY <1>1, <1>2, <2>1
  <2>2. CASE Len(q) > 2 /\ p = Front(q)
    <3>1. p = SubSeq(q, 1, Len(q) - 1)
      BY <2>2 DEF Front
    <3> QED BY <1>1, <1>2, <2>2, <3>1
  <2> QED BY <1>3, <2>1, <2>2
<1>6. \A i \in 1..Len(p) : Len(p[i]) <= Len(q[i])
  <2> SUFFICES ASSUME NEW i \in 1..Len(p) PROVE Len(p[i]) <= Len(q[i])
    OBVIOUS
  <2>1. p[i] = q[i] /\ p[i] \in Seq(Tokens)
    BY <1>5
  <2>2. Len(p[i]) \in Nat
    BY <2>1
  <2> QED BY <2>1, <2>2
<1>7. Len(Joined(p)) <= Len(t) + 1
  BY <1>1, <1>5, <1>6, JoinedShorter
<1>8. DOMAIN p = 1..Len(p)
  BY <1>5
<1>9. Len(p) \in 1..(1 + MaxRepeaters)
  BY <1>4, <1>5, LimitsAssumption
<1> QED BY <1>4, <1>5, <1>7, <1>8, <1>9 DEF p

LEMMA HeadLength ==
    ASSUME NEW f \in UiFrames(Tokens)
    PROVE  /\ Len(LineHead(f)) = Len(FormatStation(f.src)) + Len(AddrList(f)) + 2
           /\ Len(FormatStation(f.src)) \in Nat /\ Len(AddrList(f)) \in Nat
           /\ Len(AddrList(f)) + 1 = Len(Joined(<<FormatStation(f.dst)>> \o PathTexts(f)))
<1> DEFINE A == FormatStation(f.src)
           D == AddrList(f)
           g == <<">">>
           c == <<":">>
<1>1. f.src \in Addrs
  BY DEF UiFrames
<1>2. A \in Seq(Tokens)
  BY <1>1, StationText, AddrTexts
<1>3. D \in Seq(Tokens) /\ Parts(D) = <<FormatStation(f.dst)>> \o PathTexts(f)
  <2>1. D \in Seq(AddrTokens \cup {Comma}) /\ Parts(D) = <<FormatStation(f.dst)>> \o PathTexts(f)
    BY ListBack
  <2>2. AddrTokens \cup {Comma} \subseteq Tokens
    BY HeadTokensPlain
  <2> HIDE DEF D
  <2> QED BY <2>1, <2>2, SeqMonotonic
<1>4. g \in Seq(Tokens) /\ c \in Seq(Tokens) /\ Len(g) = 1 /\ Len(c) = 1
  BY HeadTokensPlain
<1>5. LineHead(f) = ((A \o g) \o D) \o c
  BY DEF LineHead
<1>6. Len(D) + 1 = Len(Joined(<<FormatStation(f.dst)>> \o PathTexts(f)))
  BY <1>3, PartsLength
<1> HIDE DEF A, D, g, c
<1>7. A \o g \in Seq(Tokens) /\ Len(A \o g) = Len(A) + Len(g)
  BY ONLY <1>2, <1>4, ConcatProperties
<1>8. D \in Seq(Tokens)
  BY <1>3
<1>9. (A \o g) \o D \in Seq(Tokens) /\ Len((A \o g) \o D) = Len(A \o g) + Len(D)
  BY ONLY <1>7, <1>8, ConcatProperties
<1>10. Len(((A \o g) \o D) \o c) = Len((A \o g) \o D) + Len(c)
  BY ONLY <1>4, <1>9, ConcatProperties
<1>11. Len(A) \in Nat /\ Len(D) \in Nat
  BY <1>2, <1>8
<1> QED BY <1>4, <1>5, <1>6, <1>7, <1>9, <1>10, <1>11 DEF A, D

(* What is read is a frame in normal form that can be written again. *)
LEMMA ParsedFrame ==
    ASSUME NEW line \in Seq(Tokens), Parsable(line)
    PROVE  LET f == ParseLine(line)
           IN  /\ f \in UiFrames(Tokens) /\ Encodable(f) /\ Formattable(f)
               /\ ~f.dst.repeated /\ ~f.src.repeated
               /\ ReadBack(f) = [f EXCEPT !.payload = OneLine(@)]
<1> DEFINE s == Split(line)
           A == s.src
           D == s.addrs
           P == s.payload
           p == PathParts(D)
           f == ParseLine(line)
           n == Len(p) - 1
<1>1. Len(CString(line)) < MaxText /\ s.ok /\ IsAddr(A) /\ IsPath(D) /\ Len(P) <= MaxInfo
  BY DEF Parsable
<1>2. /\ A \in Seq(Tokens) /\ D \in Seq(Tokens) /\ P \in Seq(Tokens) /\ ~HasNul(P)
      /\ Len(A) + Len(D) + Len(P) + 2 <= Len(CString(line))
  BY <1>1, SplitFacts
<1>3. f = [dst |-> ParseStation(p[1]), src |-> ParseStation(A), path |-> PathOf(p), payload |-> P]
  BY DEF ParseLine
<1>19. Len(CString(line)) \in Nat
  BY CStringFacts
<1> HIDE DEF s, A, D, P
<1>4. /\ p \in Seq(Seq(Tokens)) /\ Len(p) \in 1..(1 + MaxRepeaters)
      /\ (\A i \in 1..Len(p) : IsAddr(p[i])) /\ Len(Joined(p)) <= Len(D) + 1
  BY <1>1, <1>2, PathFacts
<1> HIDE DEF p, f
<1>5. n \in 0..MaxRepeaters /\ Len(p) = n + 1 /\ n \in Nat
  BY <1>4, LimitsAssumption
<1>6. f.dst = ParseStation(p[1]) /\ f.src = ParseStation(A) /\ f.path = PathOf(p) /\ f.payload = P
  BY <1>3
<1>7. PathOf(p) = [i \in 1..n |-> AddrParse(p[i + 1])]
  BY DEF PathOf
<1> HIDE DEF n
<1>8. ASSUME NEW x \in Seq(Tokens), IsAddr(x)
      PROVE  /\ ParseStation(x) \in Addrs /\ ~ParseStation(x).repeated
             /\ Unmarked(Raised(ParseStation(x))) = ParseStation(x)
             /\ Len(FormatStation(ParseStation(x))) <= Len(x)
  <2> DEFINE a == AddrParse(x)
             u == Unmarked(a)
  <2>1. a \in Addrs /\ u \in Addrs /\ Raised(u) = u /\ Len(AddrFormat(u)) <= Len(x)
    BY <1>8, AddrNormal
  <2>2. ~u.repeated
    BY <2>1, UnmarkedFacts
  <2>3. ParseStation(x) = u
    BY DEF ParseStation
  <2>4. Unmarked(u) = u
    <3> HIDE DEF a
    <3>1. Unmarked(Raised(u)) = Unmarked(Raised(a)) /\ Unmarked(Raised(Unmarked(u))) = Unmarked(Raised(u))
      BY <2>1, UnmarkedFacts
    <3> HIDE DEF u
    <3>2. u = [call |-> u.call, ssid |-> u.ssid, repeated |-> u.repeated] /\ u.repeated \in BOOLEAN
      BY <2>1 DEF Addrs
    <3>3. u.repeated = FALSE
      BY <2>2, <3>2
    <3>4. Unmarked(u) = [call |-> u.call, ssid |-> u.ssid, repeated |-> FALSE]
      BY ONLY <3>2, UnmarkedIs
    <3> QED BY ONLY <3>2, <3>3, <3>4
  <2>5. FormatStation(u) = AddrFormat(u)
    BY <2>4 DEF FormatStation
  <2> HIDE DEF u
  <2> QED BY <2>1, <2>2, <2>3, <2>4, <2>5
<1>9. /\ f.src \in Addrs /\ ~f.src.repeated /\ Unmarked(Raised(f.src)) = f.src
      /\ Len(FormatStation(f.src)) <= Len(A)
  BY <1>1, <1>2, <1>6, <1>8
<1>10. p[1] \in Seq(Tokens) /\ IsAddr(p[1])
  BY <1>4
<1>11. /\ f.dst \in Addrs /\ ~f.dst.repeated /\ Unmarked(Raised(f.dst)) = f.dst
       /\ Len(FormatStation(f.dst)) <= Len(p[1])
  BY <1>6, <1>8, <1>10
<1>12. ASSUME NEW i \in 1..n
       PROVE  /\ AddrParse(p[i + 1]) \in Addrs /\ Raised(AddrParse(p[i + 1])) = AddrParse(p[i + 1])
              /\ Len(AddrFormat(AddrParse(p[i + 1]))) <= Len(p[i + 1])
  <2> DEFINE x == p[i + 1]
  <2>1. x \in Seq(Tokens) /\ IsAddr(x)
    BY <1>4, <1>5
  <2> HIDE DEF x
  <2>2. AddrParse(x) \in Addrs /\ Raised(AddrParse(x)) = AddrParse(x) /\ Len(AddrFormat(AddrParse(x))) <= Len(x)
    BY <2>1, AddrNormal
  <2> QED BY <2>2 DEF x
<1>13. /\ f.path \in Seq(Addrs) /\ Len(f.path) = n
       /\ \A i \in 1..n : f.path[i] = AddrParse(p[i + 1])
  BY <1>5, <1>6, <1>7, <1>12
<1>14. f \in UiFrames(Tokens)
  <2> DEFINE a == ParseStation(p[1])
             b == ParseStation(A)
             c == PathOf(p)
  <2>1. a \in Addrs /\ b \in Addrs /\ c \in Seq(Addrs) /\ P \in Seq(Tokens)
    BY <1>2, <1>6, <1>9, <1>11, <1>13
  <2>2. f = [dst |-> a, src |-> b, path |-> c, payload |-> P]
    BY <1>3
  <2> HIDE DEF a, b, c
  <2> QED BY ONLY <2>1, <2>2 DEF UiFrames
<1>15. Encodable(f)
  BY <1>1, <1>5, <1>6, <1>13, LimitsAssumption DEF Encodable
<1>16. ReadBack(f) = [f EXCEPT !.payload = OneLine(@)]
  <2>1. [i \in 1..Len(f.path) |-> Raised(f.path[i])] = f.path
    <3> DEFINE r == f.path
    <3>1. r \in Seq(Addrs) /\ Len(r) = n /\ \A i \in 1..n : Raised(r[i]) = r[i]
      BY <1>12, <1>13
    <3> HIDE DEF r
    <3>2. [i \in 1..Len(r) |-> Raised(r[i])] = [i \in 1..Len(r) |-> r[i]]
      BY <3>1
    <3>3. [i \in 1..Len(r) |-> r[i]] = r
      BY <3>1
    <3> QED BY <3>2, <3>3 DEF r
  <2>2. ReadBack(f) = [dst |-> f.dst, src |-> f.src, path |-> f.path, payload |-> OneLine(f.payload)]
    BY <1>9, <1>11, <2>1 DEF ReadBack
  <2> DEFINE w == OneLine(f.payload)
  <2>3. [f EXCEPT !.payload = w] = [dst |-> f.dst, src |-> f.src, path |-> f.path, payload |-> w]
    <3> HIDE DEF w
    <3> QED BY <1>14 DEF UiFrames
  <2> QED BY <2>2, <2>3
<1>17. Len(FormatLine(f)) < MaxText
  <2> DEFINE d == FormatStation(f.dst)
             T == PathTexts(f)
             q == <<d>> \o T
  <2>1. ~Contains(f.payload, "NUL")
    BY <1>2, <1>6 DEF Contains, HasNul
  <2>2. Len(FormatLine(f)) = Len(LineHead(f)) + Len(P)
    BY <1>6, <1>14, <2>1, LineClean
  <2>3. /\ Len(LineHead(f)) = Len(FormatStation(f.src)) + Len(AddrList(f)) + 2
        /\ Len(FormatStation(f.src)) \in Nat /\ Len(AddrList(f)) \in Nat
        /\ Len(AddrList(f)) + 1 = Len(Joined(q))
    BY <1>14, HeadLength
  <2>4. d \in Seq(Tokens) /\ Len(d) <= Len(p[1])
    BY <1>11, StationText, AddrTexts
  <2>5. /\ T \in [1..n -> Seq(Tokens)] /\ \A i \in 1..n : T[i] = AddrFormat(f.path[i])
    BY <1>13, <1>14, PathTextsFacts
  <2> HIDE DEF d, T
  <2>6. /\ q \in Seq(Seq(Tokens)) /\ Len(q) = n + 1
        /\ q[1] = d /\ \A i \in 1..n : q[i + 1] = T[i]
    <3> DEFINE e == <<d>>
    <3>1. e \in Seq(Seq(Tokens)) /\ Len(e) = 1 /\ e[1] = d
      BY <2>4
    <3>2. T \in Seq(Seq(Tokens)) /\ Len(T) = n
      BY <1>5, <2>5
    <3> HIDE DEF e
    <3>3. /\ e \o T \in Seq(Seq(Tokens)) /\ Len(e \o T) = Len(e) + Len(T)
          /\ \A i \in 1..(Len(e) + Len(T)) : (e \o T)[i] = IF i <= Len(e) THEN e[i] ELSE T[i - Len(e)]
      BY ONLY <3>1, <3>2, ConcatProperties
    <3>4. q = e \o T
      BY DEF e
    <3> HIDE DEF q
    <3>5. Len(q) = n + 1 /\ \A i \in 1..(n + 1) : q[i] = IF i <= 1 THEN e[i] ELSE T[i - 1]
      BY <1>5, <3>1, <3>2, <3>3, <3>4
    <3>6. q[1] = d
      BY <1>5, <3>1, <3>5
    <3>7. \A i \in 1..n : q[i + 1] = T[i]
      BY <1>5, <3>5
    <3> QED BY <3>3, <3>4, <3>5, <3>6, <3>7
  <2> HIDE DEF q
  <2>7. \A i \in 1..Len(q) : Len(q[i]) <= Len(p[i])
    <3> SUFFICES ASSUME NEW i \in 1..(n + 1) PROVE Len(q[i]) <= Len(p[i])
      BY <2>6
    <3>1. CASE i = 1
      BY <2>4, <2>6, <3>1
    <3>2. CASE i # 1
      <4> DEFINE j == i - 1
      <4>1. j \in 1..n /\ j + 1 = i
        BY <1>5, <3>2
      <4> HIDE DEF j
      <4>2. q[j + 1] = AddrFormat(AddrParse(p[j + 1]))
        BY <1>13, <2>5, <2>6, <4>1
      <4>3. Len(AddrFormat(AddrParse(p[j + 1]))) <= Len(p[j + 1])
        BY <1>12, <4>1
      <4> QED BY <4>1, <4>2, <4>3
    <3> QED BY <3>1, <3>2
  <2>8. Len(Joined(q)) <= Len(Joined(p))
    <3>1. p \in Seq(Seq(Tokens)) /\ q \in Seq(Seq(Tokens)) /\ Len(q) <= Len(p)
      BY <1>4, <1>5, <2>6
    <3> QED BY ONLY <2>7, <3>1, JoinedShorter
  <2>9. Len(Joined(p)) \in Nat /\ Len(D) \in Nat /\ Len(P) \in Nat /\ Len(A) \in Nat
    <3>1. Joined(p) \in Seq(Tokens)
      BY <1>4, CommasType
    <3> QED BY <1>2, <3>1
  <2>10. Len(AddrList(f)) <= Len(D)
    BY <1>4, <2>3, <2>8, <2>9
  <2> QED BY <1>1, <1>2, <1>9, <1>19, <2>2, <2>3, <2>9, <2>10, MaxTextAssumption
<1>18. Formattable(f)
  <2>1. ~Contains(f.payload, "NUL")
    BY <1>2, <1>6 DEF Contains, HasNul
  <2> QED BY <1>15, <1>17, <2>1 DEF Formattable, Encodable
<1> QED BY <1>9, <1>11, <1>14, <1>15, <1>16, <1>18 DEF f

LEMMA NormalLine ==
    ASSUME NEW line \in Seq(Tokens), Parsable(line)
    PROVE  LET f == ParseLine(line) IN
              /\ Encodable(f) /\ DecodeUi(EncodeUi(f)) = f
              /\ ~f.dst.repeated /\ ~f.src.repeated
              /\ Formattable(f) /\ Parsable(FormatLine(f))
              /\ ParseLine(FormatLine(f)) = [f EXCEPT !.payload = OneLine(@)]
<1> DEFINE f == ParseLine(line)
<1>1. /\ f \in UiFrames(Tokens) /\ Encodable(f) /\ Formattable(f)
      /\ ~f.dst.repeated /\ ~f.src.repeated
      /\ ReadBack(f) = [f EXCEPT !.payload = OneLine(@)]
  BY ParsedFrame
<1> HIDE DEF f
<1>2. Parsable(FormatLine(f)) /\ ParseLine(FormatLine(f)) = ReadBack(f)
  BY <1>1, LineBack
<1>3. DecodeUi(EncodeUi(f)) = f
  BY <1>1, EncodeThenDecode
<1> QED BY <1>1, <1>2, <1>3 DEF f

(* Whatever another station wrote, tnc2_parse_line makes a frame of it that *)
(* ax25_encode_ui and tnc2_format_line take, and that is read back the same *)
(* from what they write, with no '*' on destination and source: for every  *)
(* line over every alphabet, and whatever the limits on lines, payloads    *)
(* and repeaters.                                                          *)
THEOREM LinesNormal == PktSpec => []NormalForm
<1>1. InputType => NormalForm
  <2> SUFFICES ASSUME text \in Seq(Tokens), Parsable(text)
               PROVE  \A f \in {ParseLine(text)} : \A line \in {FormatLine(f)} :
                         /\ Encodable(f) /\ DecodeUi(EncodeUi(f)) = f
                         /\ ~f.dst.repeated /\ ~f.src.repeated
                         /\ Formattable(f) /\ Parsable(line)
                         /\ ParseLine(line) = [f EXCEPT !.payload = OneLine(@)]
    BY DEF InputType, NormalForm
  <2> QED BY NormalLine, Zenon
<1> QED BY <1>1, InputsTyped, PTL

-----------------------------------------------------------------------------
(* From the client of one bridge to the client of another *)

(* Where the first mark stands: not before a comma or a colon. *)
MarkBehind(t) ==
    \A i \in 1..Len(t) : t[i] = "*" => \E j \in 1..(i - 1) : t[j] \in {Comma, ":"}

NoMark(t) == \A i \in 1..Len(t) : t[i] # "*"

LEMMA MarkAfter ==
    ASSUME NEW x \in Seq(Tokens), NEW y \in Seq(Tokens), NoMark(x), MarkBehind(y)
    PROVE  x \o y \in Seq(Tokens) /\ MarkBehind(x \o y) /\ (NoMark(y) => NoMark(x \o y))
<1> DEFINE z == x \o y
           m == Len(x)
           n == Len(y)
<1>1. /\ z \in Seq(Tokens) /\ Len(z) = m + n /\ m \in Nat /\ n \in Nat
      /\ \A i \in 1..(m + n) : z[i] = IF i <= m THEN x[i] ELSE y[i - m]
  BY ConcatProperties
<1>2. \A i \in 1..m : x[i] # "*"
  BY DEF NoMark
<1>3. \A i \in 1..n : y[i] = "*" => \E j \in 1..(i - 1) : y[j] \in {Comma, ":"}
  BY DEF MarkBehind
<1>4. NoMark(y) => \A i \in 1..n : y[i] # "*"
  BY DEF NoMark
<1> HIDE DEF z, m, n
<1>5. ASSUME NEW i \in 1..(m + n), z[i] = "*"
      PROVE  i - m \in 1..n /\ y[i - m] = "*"
  BY <1>1, <1>2, <1>5
<1>6. ASSUME NEW i \in 1..(m + n), z[i] = "*"
      PROVE  \E j \in 1..(i - 1) : z[j] \in {Comma, ":"}
  <2>1. PICK j \in 1..((i - m) - 1) : y[j] \in {Comma, ":"}
    BY <1>3, <1>5, <1>6
  <2>2. m + j \in 1..(i - 1) /\ m + j \in 1..(m + n) /\ ~(m + j <= m) /\ (m + j) - m = j
    BY <1>1, <1>5, <1>6, <2>1
  <2>3. z[m + j] = y[j]
    BY <1>1, <2>2
  <2> QED BY <2>1, <2>2, <2>3
<1>7. MarkBehind(z)
  BY <1>1, <1>6 DEF MarkBehind
<1>8. NoMark(y) => NoMark(z)
  BY <1>1, <1>4, <1>5 DEF NoMark
<1> QED BY <1>1, <1>7, <1>8 DEF z

LEMMA MarkBefore ==
    ASSUME NEW x \in Seq(Tokens), NEW y \in Seq(Tokens), MarkBehind(x), NoMark(y)
    PROVE  x \o y \in Seq(Tokens) /\ MarkBehind(x \o y)
<1> DEFINE z == x \o y
           m == Len(x)
           n == Len(y)
<1>1. /\ z \in Seq(Tokens) /\ Len(z) = m + n /\ m \in Nat /\ n \in Nat
      /\ \A i \in 1..(m + n) : z[i] = IF i <= m THEN x[i] ELSE y[i - m]
  BY ConcatProperties
<1>2. \A i \in 1..m : x[i] = "*" => \E j \in 1..(i - 1) : x[j] \in {Comma, ":"}
  BY DEF MarkBehind
<1>3. \A i \in 1..n : y[i] # "*"
  BY DEF NoMark
<1> HIDE DEF z, m, n
<1>4. ASSUME NEW i \in 1..(m + n), z[i] = "*"
      PROVE  i \in 1..m /\ x[i] = "*"
  BY <1>1, <1>3, <1>4
<1>5. ASSUME NEW i \in 1..(m + n), z[i] = "*"
      PROVE  \E j \in 1..(i - 1) : z[j] \in {Comma, ":"}
  <2>1. PICK j \in 1..(i - 1) : x[j] \in {Comma, ":"}
    BY <1>2, <1>4, <1>5
  <2>2. j \in 1..(m + n) /\ j <= m
    BY <1>1, <1>4, <1>5, <2>1
  <2>3. z[j] = x[j]
    BY <1>1, <2>2
  <2> QED BY <2>1, <2>3
<1>6. MarkBehind(z)
  BY <1>1, <1>5 DEF MarkBehind
<1> QED BY <1>1, <1>6 DEF z

(* A text that begins with a comma, or with nothing at all. *)
LEMMA MarkBehindFirst ==
    ASSUME NEW x \in Seq(Tokens), x # <<>> => x[1] = Comma
    PROVE  MarkBehind(x)
<1>1. SUFFICES ASSUME NEW i \in 1..Len(x), x[i] = "*"
               PROVE  \E j \in 1..(i - 1) : x[j] \in {Comma, ":"}
  BY DEF MarkBehind
<1>2. Len(x) \in Nat /\ x # <<>>
  BY <1>1
<1>3. x[1] = Comma /\ i # 1
  <2>1. Comma # "*"
    BY Zenon DEF Comma
  <2> QED BY <1>1, <1>2, <2>1
<1>4. 1 \in 1..(i - 1)
  BY <1>1, <1>2, <1>3
<1> QED BY <1>3, <1>4

LEMMA StationUnmarked ==
    ASSUME NEW a \in Addrs
    PROVE  NoMark(FormatStation(a))
<1> DEFINE u == Unmarked(a)
<1>1. u \in Addrs /\ ~u.repeated
  BY UnmarkedFacts
<1> HIDE DEF u
<1>2. FormatStation(a) = AddrFormat(u)
  BY DEF FormatStation, u
<1>3. PICK s \in DOMAIN SsidText :
          /\ u.ssid = 0 /\ ~u.repeated => AddrFormat(u) = <<u.call>>
          /\ u.ssid # 0 /\ ~u.repeated => AddrFormat(u) = <<u.call, s>>
  BY <1>1, FormatForms
<1>4. AddrFormat(u) = <<u.call>> \/ AddrFormat(u) = <<u.call, s>>
  BY <1>1, <1>3, Zenon
<1>5. u.call # "*" /\ s # "*"
  <2>1. u.call \in Calls
    BY <1>1 DEF Addrs
  <2> QED BY <2>1, AddrTokensPlain
<1>6. ASSUME NEW x, NEW y, x # "*", y # "*"
      PROVE  NoMark(<<x>>) /\ NoMark(<<x, y>>)
  BY <1>6 DEF NoMark
<1> QED BY <1>2, <1>4, <1>5, <1>6

(* In the head of a line only the path is marked. *)
LEMMA HeadMarks ==
    ASSUME NEW f \in UiFrames(Tokens)
    PROVE  MarkBehind(LineHead(f))
<1> DEFINE A == FormatStation(f.src)
           d == FormatStation(f.dst)
           E == [i \in DOMAIN f.path |-> <<Comma>> \o AddrFormat(f.path[i])]
           F == FlattenSeq(E)
           g == <<">">>
           c == <<":">>
<1>1. f.src \in Addrs /\ f.dst \in Addrs
  BY DEF UiFrames
<1>2. NoMark(A) /\ NoMark(d) /\ A \in Seq(Tokens) /\ d \in Seq(Tokens)
  BY <1>1, StationUnmarked, StationText, AddrTexts
<1>3. /\ g \in Seq(Tokens) /\ c \in Seq(Tokens) /\ <<Comma>> \in Seq(Tokens)
      /\ NoMark(g) /\ MarkBehind(g) /\ NoMark(c)
  <2>1. g \in Seq(Tokens) /\ c \in Seq(Tokens) /\ <<Comma>> \in Seq(Tokens)
    BY HeadTokensPlain DEF HeadTokens
  <2>2. NoMark(g) /\ NoMark(c)
    BY DEF NoMark
  <2>3. MarkBehind(g)
    BY <2>2 DEF NoMark, MarkBehind
  <2> QED BY <2>1, <2>2, <2>3
<1>4. /\ Len(f.path) \in Nat /\ DOMAIN f.path = 1..Len(f.path)
      /\ \A i \in 1..Len(f.path) : AddrFormat(f.path[i]) \in Seq(Tokens)
  <2>1. /\ Len(f.path) \in Nat /\ DOMAIN f.path = 1..Len(f.path)
        /\ PathTexts(f) \in [1..Len(f.path) -> Seq(Tokens)]
        /\ \A i \in 1..Len(f.path) : PathTexts(f)[i] = AddrFormat(f.path[i])
    BY PathTextsFacts
  <2> QED BY <2>1
<1>5. \A i \in 1..Len(f.path) : /\ <<Comma>> \o AddrFormat(f.path[i]) \in Seq(Tokens)
                               /\ Len(<<Comma>> \o AddrFormat(f.path[i])) >= 1
                               /\ (<<Comma>> \o AddrFormat(f.path[i]))[1] = Comma
  <2>1. SUFFICES ASSUME NEW y \in Seq(Tokens)
                 PROVE  /\ <<Comma>> \o y \in Seq(Tokens) /\ Len(<<Comma>> \o y) >= 1
                        /\ (<<Comma>> \o y)[1] = Comma
    BY <1>4
  <2>2. Len(<<Comma>>) = 1 /\ <<Comma>>[1] = Comma /\ Len(y) \in Nat
    OBVIOUS
  <2> QED BY <1>3, <2>2, ConcatProperties
<1>6. E \in Seq(Seq(Tokens)) /\ Len(E) = Len(f.path)
  BY <1>4, <1>5
<1>7. F \in Seq(Tokens) /\ MarkBehind(F)
  <2>1. F \in Seq(Tokens)
    BY <1>6, FlattenType
  <2>2. F # <<>> => F[1] = Comma
    <3>1. CASE E = <<>>
      BY <3>1, FlattenEmpty
    <3>2. CASE E # <<>>
      <4> DEFINE h == Head(E)
                 q == FlattenSeq(Tail(E))
      <4>1. h \in Seq(Tokens) /\ Len(h) >= 1 /\ h[1] = Comma
        <5>1. 1 \in 1..Len(f.path)
          BY <1>4, <1>6, <3>2
        <5>2. h = <<Comma>> \o AddrFormat(f.path[1])
          BY <1>4, <1>6, <5>1
        <5> QED BY <1>5, <5>1, <5>2
      <4>2. Tail(E) \in Seq(Seq(Tokens))
        <5> HIDE DEF E
        <5> QED BY <1>6, <3>2, TailType
      <4>3. q \in Seq(Tokens) /\ F = h \o q
        <5> HIDE DEF E
        <5> QED BY <1>6, <3>2, <4>2, FlattenType, FlattenHead
      <4> HIDE DEF h, q
      <4>4. F[1] = h[1]
        <5>1. Len(h) \in Nat /\ Len(q) \in Nat /\ 1 \in 1..(Len(h) + Len(q))
          BY <4>1, <4>3
        <5>2. \A k \in 1..(Len(h) + Len(q)) : (h \o q)[k] = IF k <= Len(h) THEN h[k] ELSE q[k - Len(h)]
          BY ONLY <4>1, <4>3, ConcatProperties
        <5> QED BY ONLY <4>1, <4>3, <5>1, <5>2
      <4> QED BY <4>1, <4>4
    <3> QED BY <3>1, <3>2
  <2> HIDE DEF F
  <2> QED BY <2>1, <2>2, MarkBehindFirst
<1>8. LineHead(f) = ((A \o g) \o (d \o F)) \o c
  BY DEF LineHead, AddrList
<1> HIDE DEF A, d, E, F, g, c
<1>9. A \o g \in Seq(Tokens) /\ NoMark(A \o g)
  BY <1>2, <1>3, MarkAfter
<1>10. d \o F \in Seq(Tokens) /\ MarkBehind(d \o F)
  BY <1>2, <1>7, MarkAfter
<1>11. (A \o g) \o (d \o F) \in Seq(Tokens) /\ MarkBehind((A \o g) \o (d \o F))
  BY <1>9, <1>10, MarkAfter
<1> QED BY <1>3, <1>8, <1>11, MarkBefore

(* The packet for the air: the header, the head H of a line and its         *)
(* payload I.                                                              *)
Packs(t, H, I) ==
    /\ H \in Seq(HeadTokens) /\ H # <<>> /\ I \in Seq(Tokens) /\ t \in Seq(Tokens)
    /\ Len(t) = (3 + Len(H)) + Len(I)
    /\ t[1] = "H0" /\ t[2] = "H1" /\ t[3] = "H2"
    /\ \A i \in 1..Len(H) : t[3 + i] = H[i]
    /\ \A i \in 1..Len(I) : t[(3 + Len(H)) + i] = I[i]
    /\ \A i \in 1..Len(I) : I[i] \notin EOL

LEMMA BuiltPacket ==
    ASSUME NEW f \in UiFrames(Tokens), ~Contains(f.payload, "NUL")
    PROVE  Packs(BuildPacket(FormatLine(f)), LineHead(f), OneLine(f.payload))
<1> DEFINE H == LineHead(f)
           I == OneLine(f.payload)
           L == FormatLine(f)
           t == BuildPacket(L)
           hh == <<"H0", "H1", "H2">>
<1>1. H \in Seq(HeadTokens) /\ H # <<>> /\ I \in Seq(Tokens) /\ L = H \o I
  BY LineForm
<1>2. \A i \in 1..Len(I) : I[i] \notin EOL
  <2>1. f.payload \in Seq(Tokens)
    BY DEF UiFrames
  <2> QED BY <2>1, OneLineFacts
<1>3. hh \in Seq(Tokens) /\ Len(hh) = 3 /\ hh[1] = "H0" /\ hh[2] = "H1" /\ hh[3] = "H2"
  BY HdrFacts
<1>4. t = hh \o L
  BY DEF BuildPacket, Hdr
<1> HIDE DEF H, I, L, t, hh
<1>5. H \in Seq(Tokens)
  BY <1>1, HeadTokensPlain, SeqMonotonic
<1>6. /\ L \in Seq(Tokens) /\ Len(L) = Len(H) + Len(I)
      /\ \A i \in 1..(Len(H) + Len(I)) : L[i] = IF i <= Len(H) THEN H[i] ELSE I[i - Len(H)]
  BY <1>1, <1>5, ConcatProperties
<1>7. /\ t \in Seq(Tokens) /\ Len(t) = Len(hh) + Len(L)
      /\ \A i \in 1..(Len(hh) + Len(L)) : t[i] = IF i <= Len(hh) THEN hh[i] ELSE L[i - Len(hh)]
  <2>1. hh \in Seq(Tokens) /\ L \in Seq(Tokens)
    BY <1>3, <1>6
  <2> QED BY ONLY <1>4, <2>1, ConcatProperties
<1>8. Len(H) \in Nat /\ Len(I) \in Nat
  BY <1>1
<1>9. t[1] = "H0" /\ t[2] = "H1" /\ t[3] = "H2"
  BY <1>3, <1>6, <1>7, <1>8
<1>10. \A i \in 1..Len(L) : t[3 + i] = L[i]
  <2> SUFFICES ASSUME NEW i \in 1..Len(L) PROVE t[3 + i] = L[i]
    OBVIOUS
  <2>1. 3 + i \in 1..(3 + Len(L)) /\ ~(3 + i <= 3) /\ (3 + i) - 3 = i
    BY <1>6, <1>8
  <2> QED BY <1>3, <1>7, <2>1
<1>11. \A i \in 1..Len(H) : t[3 + i] = H[i]
  BY <1>6, <1>8, <1>10
<1>12. \A i \in 1..Len(I) : t[(3 + Len(H)) + i] = I[i]
  <2> SUFFICES ASSUME NEW i \in 1..Len(I) PROVE t[(3 + Len(H)) + i] = I[i]
    OBVIOUS
  <2>1. Len(H) + i \in 1..Len(L) /\ ~(Len(H) + i <= Len(H)) /\ (Len(H) + i) - Len(H) = i
        /\ 3 + (Len(H) + i) = (3 + Len(H)) + i
    BY <1>6, <1>8
  <2> QED BY <1>6, <1>10, <2>1
<1>13. Len(t) = (3 + Len(H)) + Len(I)
  BY <1>3, <1>6, <1>7, <1>8
<1>14. Packs(t, H, I)
  BY <1>1, <1>2, <1>7, <1>9, <1>11, <1>12, <1>13 DEF Packs
<1> QED BY <1>14 DEF t, L, H, I

(* The only headers of a packet are the first and those in the payload. *)
LEMMA PacketHeaders ==
    ASSUME NEW t, NEW H, NEW I, Packs(t, H, I)
    PROVE  /\ HeaderAt(t, 1)
           /\ \A j \in 2..(3 + Len(H)) : ~HeaderAt(t, j)
           /\ \A i \in 1..Len(I) : HeaderAt(t, (3 + Len(H)) + i) <=> HeaderAt(I, i)
           /\ \A j \in 4..Len(t) : t[j] \notin EOL
<1> DEFINE h == Len(H)
<1>1. /\ I \in Seq(Tokens) /\ t \in Seq(Tokens) /\ Len(I) \in Nat /\ h \in Nat \ {0}
      /\ Len(t) = (3 + h) + Len(I)
      /\ t[1] = "H0" /\ t[2] = "H1" /\ t[3] = "H2"
      /\ \A i \in 1..Len(I) : t[(3 + h) + i] = I[i]
      /\ \A i \in 1..Len(I) : I[i] \notin EOL
  BY DEF Packs
<1>2. \A i \in 1..h : t[3 + i] \in HeadTokens
  <2>1. H \in Seq(HeadTokens) /\ \A i \in 1..h : t[3 + i] = H[i]
    BY DEF Packs
  <2>2. \A i \in 1..h : H[i] \in HeadTokens
    BY ONLY <2>1
  <2> QED BY ONLY <2>1, <2>2
<1> HIDE DEF h
<1>3. \A x \in HeadTokens : x # "H0" /\ x \notin EOL
  BY HeadTokensPlain
<1>4. \A j \in 4..(3 + h) : t[j] # "H0" /\ t[j] \notin EOL
  <2> SUFFICES ASSUME NEW j \in 4..(3 + h) PROVE t[j] # "H0" /\ t[j] \notin EOL
    OBVIOUS
  <2>1. j - 3 \in 1..h /\ 3 + (j - 3) = j
    BY <1>1
  <2>2. t[j] \in HeadTokens
    BY <1>2, <2>1
  <2> QED BY <1>3, <2>2
<1>5. HeaderAt(t, 1)
  <2>1. 1 \in Nat \ {0} /\ 1 + 2 <= Len(t) /\ 1 + 1 = 2 /\ 1 + 2 = 3
    BY <1>1
  <2> QED BY <1>1, <2>1, HeaderIs
<1>6. ASSUME NEW j \in 2..(3 + h) PROVE ~HeaderAt(t, j)
  <2>1. t[j] # "H0"
    <3>1. j = 2 \/ j = 3 \/ j \in 4..(3 + h)
      BY <1>1
    <3> QED BY <1>1, <1>4, <3>1, HdrFacts
  <2>2. j \in Nat \ {0}
    BY <1>1
  <2> QED BY <1>1, <2>1, <2>2, HeaderIs
<1>h. \A k \in Nat \ {0} :
          HeaderAt(t, k) <=> k + 2 <= Len(t) /\ t[k] = "H0" /\ t[k + 1] = "H1" /\ t[k + 2] = "H2"
  BY <1>1, HeaderIs, Zenon
<1>7. ASSUME NEW i \in 1..Len(I) PROVE HeaderAt(t, (3 + h) + i) <=> HeaderAt(I, i)
  <2> DEFINE j == (3 + h) + i
  <2>1. i \in Nat \ {0} /\ j \in Nat \ {0} /\ (j + 2 <= Len(t) <=> i + 2 <= Len(I)) /\ t[j] = I[i]
    BY <1>1
  <2>2. CASE i + 2 <= Len(I)
    <3>1. /\ i + 1 \in 1..Len(I) /\ i + 2 \in 1..Len(I) /\ (3 + h) + (i + 1) = j + 1
          /\ (3 + h) + (i + 2) = j + 2
      BY <1>1, <2>2
    <3>2. t[j + 1] = I[i + 1] /\ t[j + 2] = I[i + 2]
      BY <1>1, <3>1
    <3> HIDE DEF j
    <3>3. HeaderAt(I, i) <=> i + 2 <= Len(I) /\ I[i] = "H0" /\ I[i + 1] = "H1" /\ I[i + 2] = "H2"
      BY <1>1, <2>1, HeaderIs, Zenon
    <3>4. HeaderAt(t, j) <=> j + 2 <= Len(t) /\ t[j] = "H0" /\ t[j + 1] = "H1" /\ t[j + 2] = "H2"
      BY <1>h, <2>1, Zenon
    <3>5. HeaderAt(t, j) <=> HeaderAt(I, i)
      BY ONLY <2>1, <3>2, <3>3, <3>4
    <3> QED BY <3>5 DEF j
  <2>3. CASE ~(i + 2 <= Len(I))
    <3> HIDE DEF j
    <3> QED BY <2>1, <2>3 DEF HeaderAt, j
  <2> QED BY <2>2, <2>3
<1>8. ASSUME NEW j \in 4..Len(t) PROVE t[j] \notin EOL
  <2>1. CASE j <= 3 + h
    BY <1>1, <1>4, <2>1
  <2>2. CASE ~(j <= 3 + h)
    <3>1. j - (3 + h) \in 1..Len(I) /\ (3 + h) + (j - (3 + h)) = j
      BY <1>1, <2>2
    <3> QED BY <1>1, <3>1
  <2> QED BY <2>1, <2>2
<1> QED BY <1>5, <1>6, <1>7, <1>8 DEF h

(* Where a header in the payload cuts it. *)
CutOf(I) == Min({i \in DOMAIN I : HeaderAt(I, i)} \cup {Len(I) + 1})

LEMMA CutFacts ==
    ASSUME NEW I \in Seq(Tokens)
    PROVE  /\ CutOf(I) \in 1..(Len(I) + 1)
           /\ CutOf(I) = Len(I) + 1 \/ HeaderAt(I, CutOf(I))
           /\ \A i \in 1..(CutOf(I) - 1) : ~HeaderAt(I, i)
<1> DEFINE S == {i \in DOMAIN I : HeaderAt(I, i)} \cup {Len(I) + 1}
<1>1. DOMAIN I = 1..Len(I) /\ Len(I) \in Nat
  OBVIOUS
<1>2. S \in SUBSET Nat /\ S # {} /\ S \subseteq 1..(Len(I) + 1)
  BY <1>1
<1>3. \A i \in 1..Len(I) : HeaderAt(I, i) => i \in S
  BY <1>1
<1>4. \A i \in S : i = Len(I) + 1 \/ HeaderAt(I, i)
  OBVIOUS
<1>5. CutOf(I) = Min(S)
  BY DEF CutOf
<1> HIDE DEF S
<1>6. Min(S) \in S /\ \A i \in S : Min(S) <= i
  BY <1>2, MinIn
<1>7. CutOf(I) \in 1..(Len(I) + 1) /\ (CutOf(I) = Len(I) + 1 \/ HeaderAt(I, CutOf(I)))
  BY <1>2, <1>4, <1>5, <1>6
<1>8. ASSUME NEW i \in 1..(CutOf(I) - 1), HeaderAt(I, i) PROVE FALSE
  <2>1. i \in 1..Len(I) /\ i < CutOf(I)
    BY <1>1, <1>7
  <2>2. CutOf(I) <= i
    BY <1>3, <1>5, <1>6, <1>8, <2>1
  <2> QED BY <1>1, <1>7, <2>1, <2>2
<1> QED BY <1>7, <1>8

(* The first text of a packet is the line, cut before a header in it. *)
LEMMA FirstText ==
    ASSUME NEW t, NEW H, NEW I, Packs(t, H, I)
    PROVE  TextAfter(t, 1) = H \o SubSeq(I, 1, CutOf(I) - 1)
<1> DEFINE h == Len(H)
           c == CutOf(I)
           m == (3 + h) + c
           J == SubSeq(I, 1, c - 1)
<1>1. /\ H \in Seq(HeadTokens) /\ I \in Seq(Tokens) /\ t \in Seq(Tokens) /\ Len(I) \in Nat
      /\ h \in Nat \ {0} /\ Len(t) = (3 + h) + Len(I)
      /\ \A i \in 1..Len(H) : t[3 + i] = H[i]
      /\ \A i \in 1..Len(I) : t[(3 + h) + i] = I[i]
  BY DEF Packs
<1>2. /\ \A j \in 2..(3 + h) : ~HeaderAt(t, j)
      /\ \A i \in 1..Len(I) : HeaderAt(t, (3 + h) + i) <=> HeaderAt(I, i)
      /\ \A j \in 4..Len(t) : t[j] \notin EOL
  BY PacketHeaders
<1>3. /\ c \in 1..(Len(I) + 1) /\ (c = Len(I) + 1 \/ HeaderAt(I, c))
      /\ \A i \in 1..(c - 1) : ~HeaderAt(I, i)
  BY <1>1, CutFacts
<1> HIDE DEF h, c
<1>4. EndsAt(t, 1, m)
  <2>1. m \in (1 + 3)..(Len(t) + 1)
    BY <1>1, <1>3
  <2>2. m = Len(t) + 1 \/ Stops(t, m)
    <3>1. CASE c = Len(I) + 1
      BY <1>1, <3>1
    <3>2. CASE c # Len(I) + 1
      <4>1. c \in 1..Len(I) /\ HeaderAt(I, c)
        BY <1>1, <1>3, <3>2
      <4> QED BY <1>2, <4>1 DEF Stops
    <3> QED BY <3>1, <3>2
  <2>3. \A j \in (1 + 3)..(m - 1) : ~Stops(t, j)
    <3> SUFFICES ASSUME NEW j \in (1 + 3)..(m - 1) PROVE ~HeaderAt(t, j) /\ t[j] \notin EOL
      BY DEF Stops
    <3>1. t[j] \notin EOL
      BY <1>1, <1>2, <1>3
    <3>2. CASE j <= 3 + h
      BY <1>1, <1>2, <3>1, <3>2
    <3>3. CASE ~(j <= 3 + h)
      <4>1. j - (3 + h) \in 1..(c - 1) /\ j - (3 + h) \in 1..Len(I) /\ (3 + h) + (j - (3 + h)) = j
        BY <1>1, <1>3, <3>3
      <4>2. ~HeaderAt(I, j - (3 + h))
        BY <1>3, <4>1
      <4> QED BY <1>2, <3>1, <4>1, <4>2
    <3> QED BY <3>2, <3>3
  <2> QED BY <2>1, <2>2, <2>3 DEF EndsAt
<1>5. TextAfter(t, 1) = SubSeq(t, 4, m - 1)
  <2>1. 1 \in Nat \ {0} /\ 1 + 3 = 4
    OBVIOUS
  <2> HIDE DEF m
  <2>2. TextAfter(t, 1) = SubSeq(t, 1 + 3, m - 1)
    BY ONLY <1>1, <1>4, <2>1, TextTo
  <2> QED BY <2>1, <2>2
<1>6. H \in Seq(Tokens)
  BY <1>1, HeadTokensPlain, SeqMonotonic
<1>7. J \in Seq(Tokens) /\ Len(J) = c - 1 /\ \A i \in 1..(c - 1) : J[i] = I[i]
  <2>1. 1 \in 1..(Len(I) + 1) /\ c - 1 \in 0..Len(I)
    BY <1>1, <1>3
  <2> QED BY <1>1, <2>1, SubText
<1> HIDE DEF J
<1>8. /\ H \o J \in Seq(Tokens) /\ Len(H \o J) = Len(H) + Len(J)
      /\ \A i \in 1..(Len(H) + Len(J)) : (H \o J)[i] = IF i <= Len(H) THEN H[i] ELSE J[i - Len(H)]
  BY <1>6, <1>7, ConcatProperties
<1> DEFINE x == SubSeq(t, 4, m - 1)
<1>9. x \in Seq(Tokens) /\ Len(x) = h + (c - 1) /\ \A i \in 1..(h + (c - 1)) : x[i] = t[3 + i]
  <2>1. 4 \in 1..(Len(t) + 1) /\ m - 1 \in 3..Len(t) /\ m - 1 \in 0..Len(t)
    BY <1>1, <1>3
  <2>2. x \in Seq(Tokens) /\ Len(x) = (m - 1) - 3 /\ \A i \in 1..Len(x) : x[i] = t[3 + i]
    BY <1>1, <2>1
  <2> QED BY <1>1, <1>3, <2>2
<1> HIDE DEF x, m
<1>10. x = H \o J
  <2> DEFINE y == H \o J
  <2>1. y \in Seq(Tokens) /\ Len(y) = Len(x)
    BY <1>1, <1>3, <1>7, <1>8, <1>9 DEF h
  <2>2. ASSUME NEW i \in 1..Len(x) PROVE x[i] = y[i]
    <3>0. Len(H) = h
      BY DEF h
    <3>1. CASE i <= h
      <4>1. i \in 1..h
        BY <1>1, <3>1
      <4> QED BY <1>1, <1>3, <1>7, <1>8, <1>9, <3>0, <3>1, <4>1
    <3>2. CASE ~(i <= h)
      <4>1. i - h \in 1..(c - 1) /\ i - h \in 1..Len(I) /\ 3 + i = (3 + h) + (i - h)
        BY <1>1, <1>3, <1>9, <3>2
      <4>2. t[3 + i] = I[i - h] /\ J[i - h] = I[i - h]
        BY <1>1, <1>7, <4>1
      <4>3. y[i] = J[i - h]
        BY <1>1, <1>3, <1>7, <1>8, <1>9, <3>0, <3>2
      <4> QED BY <1>9, <4>2, <4>3
    <3> QED BY <3>1, <3>2
  <2> HIDE DEF y
  <2>3. x = y
    BY <1>9, <2>1, <2>2
  <2> QED BY <2>3 DEF y
<1> QED BY <1>5, <1>10 DEF x, J, c

(* The frame with the first k tokens of its payload. *)
FrameTo(f, k) == [f EXCEPT !.payload = SubSeq(@, 1, k)]

LEMMA FrameToFacts ==
    ASSUME NEW f \in UiFrames(Tokens), Formattable(f), NEW k \in 0..Len(f.payload)
    PROVE  /\ FrameTo(f, k) \in UiFrames(Tokens) /\ Formattable(FrameTo(f, k))
           /\ OneLine(FrameTo(f, k).payload) = SubSeq(OneLine(f.payload), 1, k)
           /\ FormatLine(FrameTo(f, k)) = LineHead(f) \o SubSeq(OneLine(f.payload), 1, k)
           /\ Len(FormatLine(FrameTo(f, k))) < MaxText
           /\ ReadBack(FrameTo(f, k)).dst = ReadBack(f).dst /\ ReadBack(FrameTo(f, k)).src = ReadBack(f).src
           /\ ReadBack(FrameTo(f, k)).path = ReadBack(f).path
           /\ ReadBack(FrameTo(f, k)).payload = SubSeq(OneLine(f.payload), 1, k)
<1> DEFINE p == f.payload
           q == SubSeq(p, 1, k)
           e == FrameTo(f, k)
           P == OneLine(p)
           Q == OneLine(q)
<1>1. p \in Seq(Tokens) /\ f.path \in Seq(Addrs) /\ f.dst \in Addrs /\ f.src \in Addrs
  BY DEF UiFrames
<1>2. /\ ~Contains(p, "NUL") /\ Len(p) <= MaxInfo /\ Len(f.path) <= MaxRepeaters
      /\ Len(FormatLine(f)) < MaxText
  BY DEF Formattable
<1>3. e = [f EXCEPT !.payload = q] /\ e.payload = q /\ e.path = f.path /\ e.dst = f.dst /\ e.src = f.src
  BY DEF FrameTo, UiFrames
<1> HIDE DEF p
<1>4. /\ q \in Seq(Tokens) /\ Len(q) = k /\ k \in Nat /\ k <= Len(p) /\ Len(p) \in Nat
      /\ \A i \in 1..k : q[i] = p[i]
  BY <1>1 DEF p
<1> HIDE DEF q, e
<1>5. e \in UiFrames(Tokens)
  BY <1>1, <1>3, <1>4 DEF UiFrames
<1>6. ~Contains(q, "NUL")
  BY <1>1, <1>2, <1>4 DEF Contains
<1>7. LineHead(e) = LineHead(f)
  BY <1>3 DEF LineHead, AddrList
<1>8. /\ Len(FormatLine(f)) = Len(LineHead(f)) + Len(p)
      /\ Len(FormatLine(e)) = Len(LineHead(e)) + Len(q)
  BY <1>2, <1>3, <1>5, <1>6, LineClean DEF p
<1>9. Len(LineHead(f)) \in Nat
  <2>1. LineHead(f) \in Seq(HeadTokens)
    BY LineForm
  <2> QED BY <2>1
<1>10. Len(FormatLine(e)) < MaxText
  BY <1>2, <1>4, <1>7, <1>8, <1>9, MaxTextAssumption
<1>11. Formattable(e)
  BY <1>2, <1>3, <1>4, <1>6, <1>10, LimitsAssumption DEF Formattable
<1>12. Q = SubSeq(P, 1, k)
  <2>1. /\ P \in Seq(Tokens) /\ Len(P) = Len(p)
        /\ \A i \in 1..Len(p) : P[i] = IF p[i] \in EOL THEN Space ELSE p[i]
    BY <1>1, OneLineFacts
  <2>2. /\ Q \in Seq(Tokens) /\ Len(Q) = k
        /\ \A i \in 1..k : Q[i] = IF q[i] \in EOL THEN Space ELSE q[i]
    BY <1>4, OneLineFacts
  <2> HIDE DEF P, Q
  <2> DEFINE S == SubSeq(P, 1, k)
  <2>3. S \in Seq(Tokens) /\ Len(S) = k /\ \A i \in 1..k : S[i] = P[i]
    BY <1>4, <2>1
  <2> HIDE DEF S
  <2>4. \A i \in 1..k : Q[i] = S[i]
    BY <1>4, <2>1, <2>2, <2>3
  <2>5. Q = S
    BY <2>2, <2>3, <2>4
  <2> QED BY <2>5 DEF S
<1>13. FormatLine(e) = LineHead(f) \o Q
  BY <1>3, <1>5, <1>7, LineForm
<1> HIDE DEF P, Q
<1>14. /\ ReadBack(e).dst = ReadBack(f).dst /\ ReadBack(e).src = ReadBack(f).src
       /\ ReadBack(e).path = ReadBack(f).path
       /\ ReadBack(e).payload = SubSeq(OneLine(f.payload), 1, k)
  <2>1. OneLine(f.payload) = P
    BY DEF P, p
  <2> QED BY <1>3, <1>12, <2>1 DEF ReadBack, Q
<1> QED BY <1>3, <1>5, <1>10, <1>11, <1>12, <1>13, <1>14 DEF e, P, Q, p

(* The texts of a packet begin with the first, and are no more if there is *)
(* no header in the payload.                                               *)
LEMMA PacketTexts ==
    ASSUME NEW t, NEW H, NEW I, Packs(t, H, I), Len(TextAfter(t, 1)) < MaxText
    PROVE  \E rest \in Seq(Seq(Tokens)) :
              /\ TextsOf(t) = <<TextAfter(t, 1)>> \o rest
              /\ ~HasHeader(I) => rest = <<>>
<1> DEFINE x == TextAfter(t, 1)
<1>1. /\ t \in Seq(Tokens) /\ I \in Seq(Tokens) /\ H \in Seq(HeadTokens) /\ H # <<>>
      /\ Len(t) = (3 + Len(H)) + Len(I)
  BY DEF Packs
<1>2. Len(I) \in Nat /\ Len(H) \in Nat \ {0} /\ Len(t) \in Nat \ {0} /\ 1 \in 1..Len(t)
  BY <1>1
<1>3. /\ HeaderAt(t, 1) /\ \A j \in 2..(3 + Len(H)) : ~HeaderAt(t, j)
      /\ \A i \in 1..Len(I) : HeaderAt(t, (3 + Len(H)) + i) <=> HeaderAt(I, i)
  BY PacketHeaders
<1>4. PICK q \in Seq(Seq(Seq(Tokens))) :
              /\ TextsOf(t) = FlattenSeq(q) /\ Len(q) = Len(t)
              /\ \A i \in 1..Len(t) : q[i] = WholeEntry(t, i)
  BY <1>1, WholeEntries
<1>5. x \in Seq(Tokens) /\ x # <<>>
  <2> DEFINE J == SubSeq(I, 1, CutOf(I) - 1)
  <2>1. x = H \o J
    BY FirstText
  <2>2. J \in Seq(Tokens)
    <3>1. CutOf(I) \in 1..(Len(I) + 1)
      BY <1>1, CutFacts
    <3>2. 1 \in 1..(Len(I) + 1) /\ CutOf(I) - 1 \in 0..Len(I)
      BY <1>2, <3>1
    <3> HIDE DEF CutOf
    <3> QED BY <1>1, <3>2, SubText
  <2>3. H \in Seq(Tokens)
    BY <1>1, HeadTokensPlain, SeqMonotonic
  <2> HIDE DEF x, J
  <2>4. x \in Seq(Tokens) /\ Len(x) = Len(H) + Len(J) /\ Len(J) \in Nat
    BY <2>1, <2>2, <2>3, ConcatProperties
  <2>5. Len(<<>>) = 0
    OBVIOUS
  <2> QED BY <1>2, <2>4, <2>5
<1>6. q[1] = <<x>>
  <2>1. \A j \in 1..1 : ~Overlong(t, j)
    <3>1. ~(Len(x) >= MaxText)
      BY <1>5, MaxTextAssumption
    <3> QED BY <3>1 DEF Overlong
  <2>2. q[1] = WholeEntry(t, 1)
    BY <1>2, <1>4
  <2> HIDE DEF x
  <2> QED BY <1>3, <1>5, <2>1, <2>2 DEF WholeEntry, x
<1> HIDE DEF x
<1> DEFINE rest == FlattenSeq(Tail(q))
<1>7. q # <<>> /\ Tail(q) \in Seq(Seq(Seq(Tokens))) /\ Head(q) = <<x>>
  <2>1. Len(<<>>) = 0
    OBVIOUS
  <2>2. q # <<>>
    BY <1>2, <1>4, <2>1
  <2> QED BY <1>4, <1>6, <2>2
<1>8. FlattenSeq(q) = <<x>> \o rest
  BY <1>4, <1>7, FlattenHead
<1>9. rest \in Seq(Seq(Tokens))
  BY <1>7, FlattenType
<1>10. ASSUME ~HasHeader(I) PROVE rest = <<>>
  <2>1. ASSUME NEW i \in 1..Len(t), i # 1 PROVE ~HeaderAt(t, i)
    <3>1. CASE i <= 3 + Len(H)
      BY <1>2, <1>3, <2>1, <3>1
    <3>2. CASE ~(i <= 3 + Len(H))
      <4> DEFINE m == i - (3 + Len(H))
      <4>1. m \in 1..Len(I) /\ (3 + Len(H)) + m = i
        BY <1>1, <1>2, <3>2
      <4>2. DOMAIN I = 1..Len(I)
        BY <1>1
      <4> HIDE DEF m
      <4>3. ~HeaderAt(I, m)
        BY <1>10, <4>1, <4>2 DEF HasHeader
      <4> QED BY <1>3, <4>1, <4>3
    <3> QED BY <3>1, <3>2
  <2>2. \A i \in 1..Len(Tail(q)) : Tail(q)[i] = <<>>
    <3> SUFFICES ASSUME NEW i \in 1..Len(Tail(q)) PROVE Tail(q)[i] = <<>>
      OBVIOUS
    <3>1. i + 1 \in 1..Len(t) /\ i + 1 # 1 /\ Tail(q)[i] = q[i + 1]
      BY <1>2, <1>4, <1>7
    <3>2. ~HeaderAt(t, i + 1)
      BY <2>1, <3>1
    <3> QED BY <1>4, <3>1, <3>2 DEF WholeEntry
  <2> DEFINE e == <<>>
  <2>3. e \in Seq(Seq(Seq(Tokens))) /\ Len(e) = 0
    OBVIOUS
  <2> HIDE DEF e
  <2>4. FlattenSeq(Tail(q)) = FlattenSeq(e)
    <3>1. Len(Tail(q)) \in Nat
      BY <1>7
    <3>2. Len(e) <= Len(Tail(q)) /\ (\A i \in 1..Len(e) : e[i] = Tail(q)[i])
      BY <2>3, <3>1
    <3>3. \A i \in (Len(e) + 1)..Len(Tail(q)) : Tail(q)[i] = <<>>
      BY <2>2, <2>3
    <3> QED BY ONLY <1>7, <2>3, <3>2, <3>3, FlattenCut
  <2> QED BY <2>4, FlattenEmpty DEF e
<1> HIDE DEF rest
<1> QED BY <1>4, <1>8, <1>9, <1>10 DEF x

(* The fold over the texts: once a frame is for the client, it stays.      *)
HandEach(r, line, c) == DeliverLine(r, line)

Handing == INSTANCE FoldLemmas WITH Op <- HandEach

Handed(lines) == FoldLeft(DeliverLine, [frames |-> <<>>, err |-> FALSE], lines)

LEMMA FirstHanded ==
    ASSUME NEW line \in Seq(Tokens), NEW rest \in Seq(Seq(Tokens)), Deliverable(line)
    PROVE  /\ Handed(<<line>> \o rest).frames # <<>>
           /\ Handed(<<line>> \o rest).frames[1] = EncodeUi(ParseLine(line))
           /\ rest = <<>> => Len(Handed(<<line>> \o rest).frames) = 1
<1> DEFINE R == {EncodeUi(ParseLine(l)) : l \in Seq(Tokens)}
           base == [frames |-> <<>>, err |-> FALSE]
           x == EncodeUi(ParseLine(line))
           s == <<line>> \o rest
           n == Len(s)
           A == [frames : Seq(R), err : BOOLEAN]
<1>1. x \in R
  OBVIOUS
<1>2. /\ s \in Seq(Seq(Tokens)) /\ n = 1 + Len(rest) /\ Len(rest) \in Nat
      /\ s[1] = line /\ \A i \in 1..n : s[i] \in Seq(Tokens)
  <2> DEFINE o == <<line>>
  <2>1. o \in Seq(Seq(Tokens)) /\ Len(o) = 1 /\ o[1] = line
    OBVIOUS
  <2> HIDE DEF o
  <2>2. /\ o \o rest \in Seq(Seq(Tokens)) /\ Len(o \o rest) = Len(o) + Len(rest)
        /\ \A i \in 1..(Len(o) + Len(rest)) :
              (o \o rest)[i] = IF i <= Len(o) THEN o[i] ELSE rest[i - Len(o)]
    BY <2>1, ConcatProperties
  <2>3. s = o \o rest /\ Len(rest) \in Nat
    BY DEF o
  <2> HIDE DEF s
  <2> QED BY <2>1, <2>2, <2>3
<1> HIDE DEF s, n
<1>3. DOMAIN s = 1..Len(s) /\ Len(s) \in Nat /\ n = Len(s)
  BY <1>2 DEF n
<1>4. Handed(s) = Handing!Folded(base, s, 0)
  BY DEF Handing!Folded, Handing!FoldLeft, Handing!MapThenFoldSet, Handing!Max,
         FoldLeft, MapThenFoldSet, Max, HandEach, Handed
<1>5. PICK g : Handing!Steps(g, base, s, 0, Len(s)) /\ Handing!Folded(base, s, 0) = g[Len(s)]
  BY <1>3, Handing!FoldSteps
<1>6. g[0] = base /\ \A k \in 1..n : g[k] = DeliverLine(g[k - 1], s[k])
  BY <1>3, <1>5 DEF Handing!Steps, HandEach
<1> HIDE DEF x, R
<1>7. g[1] = [frames |-> <<x>>, err |-> FALSE]
  <2>1. g[1] = DeliverLine(base, line)
    <3>1. 1 \in 1..n /\ 1 - 1 = 0
      BY <1>2
    <3> QED BY <1>2, <1>6, <3>1
  <2>2. Append(<<>>, x) = <<x>>
    OBVIOUS
  <2>3. base.err = FALSE /\ base.frames = <<>>
    OBVIOUS
  <2>4. DeliverLine(base, line) = [base EXCEPT !.frames = Append(@, x)]
    BY <2>3 DEF DeliverLine, x
  <2> QED BY <2>1, <2>2, <2>4
<1> DEFINE I(k) == g[k].frames \in Seq(R) /\ g[k].frames # <<>> /\ g[k].frames[1] = x
<1>8. I(1)
  BY <1>1, <1>7
<1>9. ASSUME NEW k \in 1..(n - 1), I(k), g[k] = [frames |-> g[k].frames, err |-> g[k].err]
      PROVE  I(k + 1) /\ g[k + 1] = [frames |-> g[k + 1].frames, err |-> g[k + 1].err]
  <2> DEFINE l == s[k + 1]
             y == EncodeUi(ParseLine(l))
             a == g[k]
  <2>1. g[k + 1] = DeliverLine(a, l) /\ l \in Seq(Tokens)
    <3>1. k + 1 \in 1..n /\ (k + 1) - 1 = k
      BY <1>2
    <3> QED BY <1>2, <1>6, <3>1
  <2>2. y \in R
    BY <2>1 DEF R
  <2>3. g[k + 1] = [a EXCEPT !.err = TRUE] \/ g[k + 1] = [a EXCEPT !.frames = Append(@, y)]
    BY <2>1 DEF DeliverLine
  <2> HIDE DEF y, l
  <2>4. /\ Append(a.frames, y) \in Seq(R) /\ Append(a.frames, y) # <<>>
        /\ Append(a.frames, y)[1] = x
    BY <1>9, <2>2
  <2>5. CASE g[k + 1] = [a EXCEPT !.err = TRUE]
    <3> DEFINE fr == a.frames
    <3>1. g[k + 1] = [frames |-> fr, err |-> TRUE]
      BY <1>9, <2>5
    <3> QED BY <1>9, <3>1
  <2>6. CASE g[k + 1] = [a EXCEPT !.frames = Append(@, y)]
    <3>1. g[k + 1] = [frames |-> Append(a.frames, y), err |-> a.err]
      BY <1>9, <2>6
    <3> HIDE DEF a
    <3> QED BY <2>4, <3>1
  <2> QED BY <2>3, <2>5, <2>6
<1> DEFINE G == {k \in Nat : k \in 1..n =>
                     I(k) /\ g[k] = [frames |-> g[k].frames, err |-> g[k].err]}
<1>10. \A k \in 0..n : k \in G
  <2>1. 0 \in G
    OBVIOUS
  <2>2. ASSUME NEW k \in 0..(n - 1), k \in G PROVE k + 1 \in G
    <3>0. k + 1 \in Nat
      OBVIOUS
    <3>1. CASE k = 0
      <4>1. g[1] = [frames |-> g[1].frames, err |-> g[1].err]
        BY <1>7
      <4> HIDE DEF I
      <4> QED BY <1>8, <3>1, <4>1
    <3>2. CASE k # 0
      <4>1. k \in 1..(n - 1) /\ k \in 1..n
        BY <1>2, <3>2
      <4>2. I(k + 1) /\ g[k + 1] = [frames |-> g[k + 1].frames, err |-> g[k + 1].err]
        BY <1>9, <2>2, <4>1
      <4> HIDE DEF I
      <4> QED BY <3>0, <4>2
    <3> QED BY <3>1, <3>2
  <2> HIDE DEF G
  <2>3. n \in Nat
    BY <1>2
  <2> QED BY <2>1, <2>2, <2>3, UpTo
<1>11. I(n)
  <2>1. n \in 0..n /\ n \in 1..n
    BY <1>2
  <2> HIDE DEF I
  <2> QED BY <1>10, <2>1
<1>12. Handed(s) = g[n]
  BY <1>3, <1>4, <1>5
<1>13. ASSUME rest = <<>> PROVE Len(g[n].frames) = 1
  BY <1>2, <1>7, <1>13
<1> QED BY <1>11, <1>12, <1>13 DEF s, x

(* The frame read back as groups: call signs raised, the C bits of a        *)
(* command, everything else as it was sent.                                *)
RaisedGroup(g, bit7, last) == [call |-> Upper[g.call], ssid |-> g.ssid, bit7 |-> bit7, last |-> last]

LEMMA GroupFields ==
    ASSUME NEW g \in Groups
    PROVE  /\ g = [call |-> g.call, ssid |-> g.ssid, bit7 |-> g.bit7, last |-> g.last]
           /\ g.ssid \in 0..15 /\ g.bit7 \in BOOLEAN /\ g.last \in BOOLEAN
BY DEF Groups

LEMMA GroupRaised ==
    ASSUME NEW g \in Groups, NEW b
    PROVE  [g EXCEPT !.call = Upper[@], !.bit7 = b] = RaisedGroup(g, b, g.last)
<1>1. g = [call |-> g.call, ssid |-> g.ssid, bit7 |-> g.bit7, last |-> g.last]
  BY GroupFields
<1> DEFINE c == g.call
           u == Upper[g.call]
           s == g.ssid
           d == g.bit7
           l == g.last
<1>2. g = [call |-> c, ssid |-> s, bit7 |-> d, last |-> l]
  BY <1>1
<1>3. RaisedGroup(g, b, g.last) = [call |-> u, ssid |-> s, bit7 |-> b, last |-> l]
  BY Zenon DEF RaisedGroup
<1>4. [g EXCEPT !.call = Upper[@], !.bit7 = b] = [g EXCEPT !.call = u, !.bit7 = b]
  OBVIOUS
<1> HIDE DEF c, u, s, d, l
<1>5. [g EXCEPT !.call = u, !.bit7 = b] = [call |-> u, ssid |-> s, bit7 |-> b, last |-> l]
  <2> DEFINE h == [g EXCEPT !.call = u]
  <2>1. h = [call |-> u, ssid |-> s, bit7 |-> d, last |-> l]
    BY ONLY <1>2
  <2>2. [g EXCEPT !.call = u, !.bit7 = b] = [h EXCEPT !.bit7 = b]
    BY ONLY TRUE
  <2> HIDE DEF h
  <2>3. [h EXCEPT !.bit7 = b] = [call |-> u, ssid |-> s, bit7 |-> b, last |-> l]
    BY ONLY <2>1
  <2> QED BY ONLY <2>2, <2>3
<1> QED BY <1>3, <1>4, <1>5

LEMMA DecodedGroups ==
    ASSUME NEW r \in RawFrames(Tokens), Decodable(r)
    PROVE  LET n == Len(r.addrs)
           IN  /\ r.addrs \in Seq(Groups) /\ r.info \in Seq(Tokens) /\ n \in Nat /\ n >= 2
               /\ DOMAIN r.addrs = 1..n /\ r.control = "ui"
               /\ \A i \in 1..n : r.addrs[i] \in Groups /\ r.addrs[i].call \in Calls
               /\ \A i \in 1..n : r.addrs[i].last = (i = n)
<1> DEFINE n == Len(r.addrs)
<1>1. r.addrs \in Seq(Groups) /\ r.info \in Seq(Tokens)
  BY DEF RawFrames
<1>2. n \in Nat /\ DOMAIN r.addrs = 1..n /\ \A i \in 1..n : r.addrs[i] \in Groups
  BY <1>1
<1>3. /\ n \in 2..MaxAddrs /\ r.control = "ui"
      /\ \A i \in 1..n : r.addrs[i].call \in Calls /\ (r.addrs[i].last <=> i = n)
  BY DEF Decodable
<1>4. n >= 2
  BY <1>3, LimitsAssumption
<1> HIDE DEF n
<1>5. ASSUME NEW i \in 1..n PROVE r.addrs[i].last = (i = n)
  <2>1. r.addrs[i].last \in BOOLEAN
    BY <1>2, GroupFields
  <2>2. r.addrs[i].last <=> i = n
    BY <1>3
  <2> QED BY <2>1, <2>2, Zenon
<1>6. \A i \in 1..n : r.addrs[i].call \in Calls
  BY <1>3
<1> QED BY <1>1, <1>2, <1>3, <1>4, <1>5, <1>6, Zenon DEF n

LEMMA NormalGroups ==
    ASSUME NEW r \in RawFrames(Tokens), Decodable(r)
    PROVE  LET n == Len(r.addrs)
               m == Normalised(r).addrs
           IN  /\ m \in Seq(Groups) /\ Len(m) = n
               /\ m[1] = RaisedGroup(r.addrs[1], TRUE, FALSE)
               /\ m[2] = RaisedGroup(r.addrs[2], FALSE, n = 2)
               /\ \A i \in 1..(n - 2) :
                     m[i + 2] = RaisedGroup(r.addrs[i + 2], r.addrs[i + 2].bit7, i = n - 2)
               /\ Normalised(r) = [addrs |-> m, control |-> "ui", info |-> OneLine(r.info)]
<1> DEFINE n == Len(r.addrs)
           a == r.addrs
           G(i) == [r.addrs[i] EXCEPT !.call = Upper[@], !.bit7 = IF i <= 2 THEN i = 1 ELSE @]
           M == [i \in DOMAIN r.addrs |-> G(i)]
           m == Normalised(r).addrs
<1>1. /\ a \in Seq(Groups) /\ r.info \in Seq(Tokens) /\ n \in Nat /\ n >= 2
      /\ DOMAIN a = 1..n /\ r.control = "ui"
      /\ \A i \in 1..n : a[i] \in Groups /\ a[i].call \in Calls
      /\ \A i \in 1..n : a[i].last = (i = n)
  BY DecodedGroups
<1> DEFINE T(i) == RaisedGroup(a[i], IF i <= 2 THEN i = 1 ELSE a[i].bit7, a[i].last)
<1>2. ASSUME NEW i \in 1..n PROVE G(i) = T(i) /\ T(i) \in Groups
  <2>1. a[i] \in Groups /\ a[i].call \in Calls
    BY <1>1
  <2>2. a[i].ssid \in 0..15 /\ a[i].bit7 \in BOOLEAN /\ a[i].last \in BOOLEAN
    BY <2>1, GroupFields
  <2> DEFINE b == IF i <= 2 THEN i = 1 ELSE a[i].bit7
  <2>3. b \in BOOLEAN
    BY <2>2
  <2>4. G(i) = [a[i] EXCEPT !.call = Upper[@], !.bit7 = b]
    BY Zenon
  <2> HIDE DEF b
  <2>5. G(i) = RaisedGroup(a[i], b, a[i].last)
    BY <2>1, <2>4, GroupRaised, Zenon
  <2>6. Upper[a[i].call] \in Calls
    BY <2>1, UpperAssumption
  <2>7. RaisedGroup(a[i], b, a[i].last) \in Groups
    BY <2>2, <2>3, <2>6, Zenon DEF RaisedGroup, Groups
  <2> QED BY <2>5, <2>7, Zenon DEF b
<1> HIDE DEF T
<1>3. /\ M \in Seq(Groups) /\ Len(M) = n /\ DOMAIN M = 1..n
      /\ \A i \in 1..n : M[i] = T(i)
  <2>1. \A i \in 1..n : G(i) = T(i) /\ T(i) \in Groups
    BY <1>2
  <2> HIDE DEF G
  <2> QED BY <1>1, <2>1
<1>4. Normalised(r) = [addrs |-> M, control |-> "ui", info |-> OneLine(r.info)]
  <2> DEFINE x == OneLine(r.info)
  <2>1. Normalised(r) = [r EXCEPT !.addrs = M, !.info = x]
    BY Zenon DEF Normalised
  <2>2. r = [addrs |-> r.addrs, control |-> r.control, info |-> r.info]
    BY DEF RawFrames
  <2> HIDE DEF M, x
  <2>3. Normalised(r) = [addrs |-> M, control |-> "ui", info |-> x]
    BY ONLY <1>1, <2>1, <2>2
  <2> QED BY <2>3 DEF x
<1>5. m = M
  <2> HIDE DEF M
  <2> QED BY <1>4
<1> HIDE DEF m, M
<1>6. m[1] = RaisedGroup(a[1], TRUE, FALSE)
  <2>1. 1 \in 1..n /\ 1 <= 2 /\ ~(1 = n)
    BY <1>1
  <2>2. a[1].last = FALSE
    BY <1>1, <2>1
  <2>3. m[1] = T(1)
    BY <1>3, <1>5, <2>1
  <2>4. T(1) = RaisedGroup(a[1], (1 = 1), FALSE)
    BY <2>1, <2>2, Zenon DEF T
  <2>5. (1 = 1) = TRUE
    OBVIOUS
  <2> QED BY <2>3, <2>4, <2>5, Zenon
<1>7. m[2] = RaisedGroup(a[2], FALSE, n = 2)
  <2>1. 2 \in 1..n /\ 2 <= 2 /\ (2 = 1) = FALSE
    BY <1>1
  <2>2. a[2].last = (2 = n) /\ (2 = n) = (n = 2)
    BY <1>1, <2>1, Zenon
  <2>3. m[2] = T(2)
    BY <1>3, <1>5, <2>1
  <2>4. T(2) = RaisedGroup(a[2], (2 = 1), a[2].last)
    BY <2>1, Zenon DEF T
  <2> QED BY <2>1, <2>2, <2>3, <2>4, Zenon
<1>8. ASSUME NEW i \in 1..(n - 2)
      PROVE  m[i + 2] = RaisedGroup(a[i + 2], a[i + 2].bit7, i = n - 2)
  <2>1. i + 2 \in 1..n /\ ~(i + 2 <= 2) /\ ((i + 2 = n) = (i = n - 2))
    BY <1>1
  <2>2. a[i + 2].last = (i + 2 = n)
    BY <1>1, <2>1, Zenon
  <2>3. m[i + 2] = T(i + 2)
    BY <1>3, <1>5, <2>1, Zenon
  <2>4. T(i + 2) = RaisedGroup(a[i + 2], a[i + 2].bit7, a[i + 2].last)
    BY <2>1, Zenon DEF T
  <2> QED BY <2>1, <2>2, <2>3, <2>4, Zenon
<1>9. m \in Seq(Groups) /\ Len(m) = n
  BY <1>3, <1>5
<1> QED BY <1>4, <1>5, <1>6, <1>7, <1>8, <1>9, Zenon DEF m

(* What ax25_decode_ui makes of a frame it takes. *)
LEMMA DecodedFrame ==
    ASSUME NEW r \in RawFrames(Tokens), Decodable(r)
    PROVE  LET f == DecodeUi(r)
               n == Len(r.addrs)
           IN  /\ f \in UiFrames(Tokens) /\ f.payload = r.info /\ Len(f.path) = n - 2
               /\ f.dst = DecodeAddr(r.addrs[1], FALSE) /\ f.src = DecodeAddr(r.addrs[2], FALSE)
               /\ \A i \in 1..(n - 2) : f.path[i] = DecodeAddr(r.addrs[i + 2], TRUE)
<1> DEFINE n == Len(r.addrs)
           a == r.addrs
           f == DecodeUi(r)
           D(i) == DecodeAddr(a[i + 2], TRUE)
           p == [i \in 1..(n - 2) |-> D(i)]
           d == DecodeAddr(a[1], FALSE)
           s == DecodeAddr(a[2], FALSE)
<1>1. /\ r.info \in Seq(Tokens) /\ n \in Nat /\ n >= 2
      /\ \A i \in 1..n : a[i] \in Groups /\ a[i].call \in Calls
  BY DecodedGroups
<1>2. ASSUME NEW i \in 1..n, NEW b \in BOOLEAN PROVE DecodeAddr(a[i], b) \in Addrs
  <2>1. a[i].call \in Calls /\ a[i].ssid \in 0..15 /\ a[i].bit7 \in BOOLEAN
    BY <1>1, GroupFields
  <2>2. (b /\ a[i].bit7) \in BOOLEAN
    OBVIOUS
  <2> QED BY <2>1, <2>2, Zenon DEF DecodeAddr, Addrs
<1>3. d \in Addrs /\ s \in Addrs /\ \A i \in 1..(n - 2) : D(i) \in Addrs
  <2>1. 1 \in 1..n /\ 2 \in 1..n /\ (\A i \in 1..(n - 2) : i + 2 \in 1..n) /\ TRUE \in BOOLEAN /\ FALSE \in BOOLEAN
    BY <1>1
  <2> QED BY <1>2, <2>1, Zenon
<1>4. f = [dst |-> d, src |-> s, path |-> p, payload |-> r.info]
  BY Zenon DEF DecodeUi
<1> HIDE DEF d, s, D, f
<1>5. p \in Seq(Addrs) /\ Len(p) = n - 2 /\ \A i \in 1..(n - 2) : p[i] = D(i)
  <2>1. n - 2 \in Nat
    BY <1>1
  <2> QED BY <1>3, <2>1
<1> HIDE DEF p
<1>6. f \in UiFrames(Tokens) /\ f.payload = r.info /\ f.path = p /\ f.dst = d /\ f.src = s
  BY <1>1, <1>3, <1>4, <1>5 DEF UiFrames
<1> QED BY <1>5, <1>6, Zenon DEF d, s, D, f

LEMMA ReadBackType ==
    ASSUME NEW f \in UiFrames(Tokens)
    PROVE  /\ ReadBack(f) \in UiFrames(Tokens) /\ Len(ReadBack(f).path) = Len(f.path)
           /\ ReadBack(f).dst = Unmarked(Raised(f.dst)) /\ ReadBack(f).src = Unmarked(Raised(f.src))
           /\ \A i \in 1..Len(f.path) : ReadBack(f).path[i] = Raised(f.path[i])
           /\ ReadBack(f).payload = OneLine(f.payload)
<1> DEFINE d == Unmarked(Raised(f.dst))
           s == Unmarked(Raised(f.src))
           R(i) == Raised(f.path[i])
           p == [i \in 1..Len(f.path) |-> R(i)]
           x == OneLine(f.payload)
           n == Len(f.path)
           e == ReadBack(f)
<1>1. f.path \in Seq(Addrs) /\ f.dst \in Addrs /\ f.src \in Addrs /\ f.payload \in Seq(Tokens)
  BY DEF UiFrames
<1>2. x \in Seq(Tokens)
  BY <1>1, OneLineFacts
<1>3. d \in Addrs /\ s \in Addrs
  BY <1>1, UnmarkedFacts
<1>4. n \in Nat /\ \A i \in 1..n : f.path[i] \in Addrs
  BY <1>1
<1>5. \A i \in 1..n : R(i) \in Addrs
  BY <1>4, UnmarkedFacts
<1>6. e = [dst |-> d, src |-> s, path |-> p, payload |-> x]
  BY Zenon DEF ReadBack
<1> HIDE DEF d, s, R, x, e
<1>7. p \in Seq(Addrs) /\ Len(p) = n /\ \A i \in 1..n : p[i] = R(i)
  BY <1>4, <1>5
<1> HIDE DEF p
<1>8. e \in UiFrames(Tokens) /\ e.payload = x /\ e.path = p /\ e.dst = d /\ e.src = s
  BY <1>2, <1>3, <1>6, <1>7 DEF UiFrames
<1> QED BY <1>7, <1>8, Zenon DEF d, s, R, x, e

(* The groups of a raised address. *)
LEMMA GroupsRaised ==
    ASSUME NEW g \in Groups, g.call \in Calls, NEW l
    PROVE  /\ \A b : EncodeAddr(Unmarked(Raised(DecodeAddr(g, FALSE))), l, b) = RaisedGroup(g, b, l)
           /\ EncodeAddr(Raised(DecodeAddr(g, TRUE)), l, Raised(DecodeAddr(g, TRUE)).repeated)
                 = RaisedGroup(g, g.bit7, l)
<1> DEFINE a == DecodeAddr(g, FALSE)
           h == DecodeAddr(g, TRUE)
           u == Unmarked(Raised(a))
           v == Raised(h)
<1>1. g.ssid \in 0..15 /\ g.bit7 \in BOOLEAN
  BY GroupFields
<1>2. a.call = g.call /\ a.ssid = g.ssid /\ h.call = g.call /\ h.ssid = g.ssid
  BY DEF DecodeAddr
<1>3. h.repeated = (TRUE /\ g.bit7)
  BY Zenon DEF DecodeAddr
<1>4. (TRUE /\ g.bit7) = g.bit7
  BY <1>1
<1>5. a \in Addrs /\ h \in Addrs
  <2>1. (TRUE /\ g.bit7) \in BOOLEAN /\ (FALSE /\ g.bit7) \in BOOLEAN
    OBVIOUS
  <2> QED BY <1>1, <2>1, Zenon DEF DecodeAddr, Addrs
<1> HIDE DEF a, h
<1>6. Raised(a) \in Addrs /\ Raised(a).ssid = a.ssid /\ Raised(a).call = Upper[a.call]
  BY <1>5, UnmarkedFacts
<1>7. v.ssid = h.ssid /\ v.call = Upper[h.call] /\ v.repeated = h.repeated
  BY <1>5, UnmarkedFacts
<1>8. u.ssid = Raised(a).ssid /\ u.call = Raised(a).call
  <2> DEFINE w == Raised(a)
  <2>1. w \in Addrs
    BY <1>6
  <2> HIDE DEF w
  <2>2. Unmarked(w).ssid = w.ssid /\ Unmarked(w).call = w.call
    BY <2>1 DEF Unmarked, Addrs
  <2> QED BY <2>2 DEF w
<1> HIDE DEF u, v
<1>9. u.ssid = g.ssid /\ u.call = Upper[g.call]
  BY <1>2, <1>6, <1>8
<1>10. v.ssid = g.ssid /\ v.call = Upper[g.call]
  BY <1>2, <1>7
<1>11. v.repeated = g.bit7
  BY <1>3, <1>4, <1>7, Zenon
<1>12. ASSUME NEW b PROVE EncodeAddr(u, l, b) = RaisedGroup(g, b, l)
  BY <1>9, Zenon DEF EncodeAddr, RaisedGroup
<1>13. EncodeAddr(v, l, v.repeated) = RaisedGroup(g, g.bit7, l)
  BY <1>10, <1>11, Zenon DEF EncodeAddr, RaisedGroup
<1> QED BY <1>12, <1>13, Zenon DEF u, v, a, h

(* What the line of a frame, cut after k tokens of the payload, is for the *)
(* client that hears it.                                                   *)
LEMMA Resent ==
    ASSUME NEW r \in RawFrames(Tokens), Decodable(r), Formattable(DecodeUi(r)),
           NEW k \in 0..Len(r.info)
    PROVE  EncodeUi(ReadBack(FrameTo(DecodeUi(r), k)))
              = [Normalised(r) EXCEPT !.info = SubSeq(@, 1, k)]
<1> DEFINE n == Len(r.addrs)
           a == r.addrs
           f == DecodeUi(r)
           e == FrameTo(f, k)
           b == ReadBack(e)
           x == EncodeUi(b)
           A == x.addrs
           w == Normalised(r)
           m == w.addrs
           I == OneLine(r.info)
           y == SubSeq(I, 1, k)
<1>1. /\ n \in Nat /\ n >= 2 /\ \A i \in 1..n : a[i] \in Groups /\ a[i].call \in Calls
  BY DecodedGroups
<1>2. /\ f \in UiFrames(Tokens) /\ f.payload = r.info /\ Len(f.path) = n - 2
      /\ f.dst = DecodeAddr(a[1], FALSE) /\ f.src = DecodeAddr(a[2], FALSE)
      /\ \A i \in 1..(n - 2) : f.path[i] = DecodeAddr(a[i + 2], TRUE)
  BY DecodedFrame
<1>3. /\ m \in Seq(Groups) /\ Len(m) = n
      /\ m[1] = RaisedGroup(a[1], TRUE, FALSE)
      /\ m[2] = RaisedGroup(a[2], FALSE, n = 2)
      /\ \A i \in 1..(n - 2) : m[i + 2] = RaisedGroup(a[i + 2], a[i + 2].bit7, i = n - 2)
      /\ w = [addrs |-> m, control |-> "ui", info |-> I]
  BY NormalGroups
<1> HIDE DEF w, f, m
<1>4. /\ e \in UiFrames(Tokens)
      /\ b.dst = ReadBack(f).dst /\ b.src = ReadBack(f).src /\ b.path = ReadBack(f).path
      /\ b.payload = y
  BY <1>2, FrameToFacts DEF f
<1>5. b \in UiFrames(Tokens)
  BY <1>4, ReadBackType
<1>6. /\ Len(ReadBack(f).path) = Len(f.path)
      /\ ReadBack(f).dst = Unmarked(Raised(f.dst)) /\ ReadBack(f).src = Unmarked(Raised(f.src))
      /\ \A i \in 1..Len(f.path) : ReadBack(f).path[i] = Raised(f.path[i])
  BY <1>2, ReadBackType
<1> HIDE DEF e, b, I, y
<1>7. /\ Len(A) = Len(b.path) + 2
      /\ A[1] = EncodeAddr(b.dst, FALSE, TRUE)
      /\ A[2] = EncodeAddr(b.src, b.path = <<>>, FALSE)
      /\ \A i \in 1..Len(b.path) : A[i + 2] = EncodeAddr(b.path[i], i = Len(b.path), b.path[i].repeated)
  BY <1>5, EncodedGroups
<1>8. x = [addrs |-> A, control |-> "ui", info |-> y]
  BY <1>4 DEF EncodeUi
<1>9. A \in Seq(Groups)
  <2> DEFINE g(i) == EncodeAddr(b.path[i], i = Len(b.path), b.path[i].repeated)
             d == EncodeAddr(b.dst, FALSE, TRUE)
             s == EncodeAddr(b.src, b.path = <<>>, FALSE)
             rest == [i \in DOMAIN b.path |-> g(i)]
  <2>1. b.dst \in Addrs /\ b.src \in Addrs /\ b.path \in Seq(Addrs)
    BY <1>5 DEF UiFrames
  <2>2. Len(b.path) \in Nat /\ DOMAIN b.path = 1..Len(b.path) /\ \A i \in 1..Len(b.path) : b.path[i] \in Addrs
    BY <2>1
  <2>3. \A c \in Addrs : c.repeated \in BOOLEAN
    BY DEF Addrs
  <2>4. d \in Groups /\ s \in Groups /\ \A i \in 1..Len(b.path) : g(i) \in Groups
    BY <2>1, <2>2, <2>3, GroupOfAddr
  <2>5. A = <<d, s>> \o rest
    BY DEF EncodeUi
  <2> HIDE DEF d, s, g, A
  <2>6. rest \in Seq(Groups)
    BY <2>2, <2>4
  <2> HIDE DEF rest
  <2> QED BY <2>4, <2>5, <2>6, TwoBefore
<1> HIDE DEF x, A
<1>10. Len(b.path) = n - 2 /\ Len(A) = n /\ n - 2 \in Nat
  BY <1>1, <1>2, <1>4, <1>6, <1>7
<1>11. A[1] = m[1]
  <2>1. a[1] \in Groups /\ a[1].call \in Calls
    BY <1>1
  <2>2. b.dst = Unmarked(Raised(DecodeAddr(a[1], FALSE)))
    BY <1>2, <1>4, <1>6, Zenon
  <2>3. EncodeAddr(Unmarked(Raised(DecodeAddr(a[1], FALSE))), FALSE, TRUE) = RaisedGroup(a[1], TRUE, FALSE)
    BY <2>1, GroupsRaised, Zenon
  <2> QED BY <1>3, <1>7, <2>2, <2>3, Zenon
<1>12. A[2] = m[2]
  <2>1. a[2] \in Groups /\ a[2].call \in Calls
    BY <1>1
  <2>2. b.src = Unmarked(Raised(DecodeAddr(a[2], FALSE)))
    BY <1>2, <1>4, <1>6, Zenon
  <2>3. EncodeAddr(Unmarked(Raised(DecodeAddr(a[2], FALSE))), n = 2, FALSE) = RaisedGroup(a[2], FALSE, n = 2)
    BY <2>1, GroupsRaised, ZenonT(40)
  <2>4. b.path \in Seq(Addrs)
    BY <1>5 DEF UiFrames
  <2>5. b.path = <<>> <=> Len(b.path) = 0
    BY <2>4, EmptySeq
  <2>6. Len(b.path) = 0 <=> n = 2
    BY <1>1, <1>10
  <2>7. (b.path = <<>>) = (n = 2)
    BY <2>5, <2>6, Zenon
  <2> QED BY <1>3, <1>7, <2>2, <2>3, <2>7, Zenon
<1>13. ASSUME NEW i \in 1..(n - 2) PROVE A[i + 2] = m[i + 2]
  <2>1. a[i + 2] \in Groups /\ a[i + 2].call \in Calls
    <3>1. i + 2 \in 1..n
      BY <1>1
    <3> QED BY <1>1, <3>1
  <2> DEFINE v == Raised(DecodeAddr(a[i + 2], TRUE))
  <2>2. b.path[i] = v
    BY <1>2, <1>4, <1>6, Zenon
  <2>3. EncodeAddr(v, i = n - 2, v.repeated) = RaisedGroup(a[i + 2], a[i + 2].bit7, i = n - 2)
    BY <2>1, GroupsRaised, Zenon
  <2>4. A[i + 2] = EncodeAddr(b.path[i], i = n - 2, b.path[i].repeated)
    BY <1>7, <1>10, Zenon
  <2> HIDE DEF v
  <2> QED BY <1>3, <2>2, <2>3, <2>4, Zenon
<1>14. A = m
  <2>1. ASSUME NEW i \in 1..n PROVE A[i] = m[i]
    <3>1. i = 1 \/ i = 2 \/ (i - 2 \in 1..(n - 2) /\ (i - 2) + 2 = i)
      BY <1>1
    <3> QED BY <1>11, <1>12, <1>13, <3>1
  <2> QED BY <1>3, <1>9, <1>10, <2>1
<1>15. [w EXCEPT !.info = SubSeq(@, 1, k)] = [addrs |-> m, control |-> "ui", info |-> y]
  <2>1. w.info = I
    BY ONLY <1>3
  <2>2. [w EXCEPT !.info = SubSeq(@, 1, k)] = [w EXCEPT !.info = y]
    BY ONLY <2>1 DEF y
  <2>3. w = [addrs |-> m, control |-> "ui", info |-> I]
    BY <1>3
  <2>4. [w EXCEPT !.info = y] = [addrs |-> m, control |-> "ui", info |-> y]
    BY ONLY <2>3
  <2> QED BY ONLY <2>2, <2>4
<1>16. x = [w EXCEPT !.info = SubSeq(@, 1, k)]
  BY ONLY <1>8, <1>14, <1>15
<1> QED BY <1>16, Zenon DEF x, b, e, f, w

LEMMA PacketMarks ==
    ASSUME NEW packet, NEW H, NEW I, Packs(packet, H, I), MarkBehind(H), H[Len(H)] = ":"
    PROVE  \A i \in DOMAIN packet :
              packet[i] = "*" => \E j \in 1..(i - 1) : packet[j] \in {Comma, ":"}
<1> DEFINE m == Len(H)
           n == Len(I)
<1>1. /\ m \in Nat /\ n \in Nat /\ m > 0 /\ DOMAIN packet = 1..((3 + m) + n)
      /\ packet[1] = "H0" /\ packet[2] = "H1" /\ packet[3] = "H2"
      /\ \A i \in 1..m : packet[3 + i] = H[i]
  BY DEF Packs
<1>2. \A i \in 1..m : H[i] = "*" => \E j \in 1..(i - 1) : H[j] \in {Comma, ":"}
  BY DEF MarkBehind
<1>3. packet[3 + m] = ":"
  BY <1>1
<1> HIDE DEF m, n
<1>4. SUFFICES ASSUME NEW i \in 1..((3 + m) + n), packet[i] = "*"
               PROVE  \E j \in 1..(i - 1) : packet[j] \in {Comma, ":"}
  BY <1>1
<1>5. i \notin {1, 2, 3}
  BY <1>1, <1>4
<1>6. CASE i <= 3 + m
  <2>1. i - 3 \in 1..m /\ 3 + (i - 3) = i
    BY <1>1, <1>4, <1>5, <1>6
  <2>2. H[i - 3] = "*"
    BY <1>1, <1>4, <2>1
  <2>3. PICK j \in 1..((i - 3) - 1) : H[j] \in {Comma, ":"}
    BY <1>2, <2>1, <2>2
  <2>4. j \in 1..m /\ 3 + j \in 1..(i - 1)
    BY <1>1, <2>1, <2>3
  <2> QED BY <1>1, <2>3, <2>4
<1>7. CASE i > 3 + m
  <2>1. 3 + m \in 1..(i - 1)
    BY <1>1, <1>4, <1>7
  <2> QED BY <1>3, <2>1
<1> QED BY <1>1, <1>4, <1>6, <1>7

LEMMA Arrives ==
    ASSUME NEW r \in RawFrames(Tokens), NEW packet \in ClientToAir(r)
    PROVE  /\ AirToClient(packet) # <<>>
           /\ AirToClient(packet)[1]
                 = [Normalised(r) EXCEPT !.info = SubSeq(@, 1, CutOf(Normalised(r).info) - 1)]
           /\ ~HasHeader(Normalised(r).info) => Len(AirToClient(packet)) = 1
           /\ \A i \in DOMAIN packet :
                 packet[i] = "*" => \E j \in 1..(i - 1) : packet[j] \in {Comma, ":"}
<1> DEFINE f == DecodeUi(r)
           I == OneLine(r.info)
           H == LineHead(f)
           k == CutOf(I) - 1
           e == FrameTo(f, k)
           line == FormatLine(e)
<1>1. Decodable(r) /\ Formattable(f) /\ packet = BuildPacket(FormatLine(f))
  <2>1. Decodable(r)
    BY DEF ClientToAir
  <2> QED BY <2>1 DEF ClientToAir
<1>2. f \in UiFrames(Tokens) /\ f.payload = r.info /\ r.info \in Seq(Tokens)
  <2>1. r.info \in Seq(Tokens)
    BY DEF RawFrames
  <2> QED BY <1>1, <2>1, DecodedFrame
<1>3. Normalised(r).info = I
  <2> DEFINE m == Normalised(r).addrs
  <2>1. Normalised(r) = [addrs |-> m, control |-> "ui", info |-> I]
    BY <1>1, NormalGroups
  <2> HIDE DEF m
  <2> QED BY <2>1
<1> HIDE DEF f
<1>4. Packs(packet, H, I)
  <2>1. ~Contains(f.payload, "NUL")
    BY <1>1 DEF Formattable
  <2> QED BY <1>1, <1>2, <2>1, BuiltPacket
<1>18. \A i \in DOMAIN packet :
          packet[i] = "*" => \E j \in 1..(i - 1) : packet[j] \in {Comma, ":"}
  <2>1. MarkBehind(H) /\ H[Len(H)] = ":"
    BY <1>2, HeadMarks, LineForm
  <2> HIDE DEF H, I
  <2> QED BY <1>4, <2>1, PacketMarks
<1>5. I \in Seq(Tokens) /\ Len(I) = Len(r.info) /\ Len(r.info) \in Nat
  BY <1>2, OneLineFacts
<1>6. k \in 0..Len(r.info)
  <2> HIDE DEF I
  <2>1. CutOf(I) \in 1..(Len(I) + 1)
    BY <1>5, CutFacts
  <2> HIDE DEF CutOf
  <2> QED BY <1>5, <2>1
<1>7. /\ e \in UiFrames(Tokens) /\ Formattable(e) /\ line = H \o SubSeq(I, 1, k)
      /\ Len(line) < MaxText
  <2> HIDE DEF k, I, H
  <2>1. k \in 0..Len(f.payload) /\ OneLine(f.payload) = I /\ LineHead(f) = H
    BY <1>2, <1>6 DEF I, H
  <2> QED BY <1>1, <1>2, <2>1, FrameToFacts
<1>8. TextAfter(packet, 1) = line
  <2>1. TextAfter(packet, 1) = H \o SubSeq(I, 1, k)
    BY <1>4, FirstText
  <2> QED BY <1>7, <2>1
<1> HIDE DEF k, e, I, H
<1>9. line \in Seq(Tokens) /\ Deliverable(line) /\ ParseLine(line) = ReadBack(e)
  <2>1. ~Contains(e.payload, "NUL")
    BY <1>7 DEF Formattable
  <2>2. line \in Seq(Tokens)
    BY <1>7, <2>1, LineClean
  <2>3. Parsable(line) /\ Encodable(ParseLine(line)) /\ ParseLine(line) = ReadBack(e)
    BY <1>7, LineBack
  <2> QED BY <2>2, <2>3 DEF Deliverable
<1> HIDE DEF line
<1>10. PICK rest \in Seq(Seq(Tokens)) : TextsOf(packet) = <<line>> \o rest /\ (~HasHeader(I) => rest = <<>>)
  BY <1>4, <1>7, <1>8, PacketTexts
<1>11. Extract(packet) = <<line>> \o rest
  <2>1. packet \in Seq(Tokens)
    BY <1>4 DEF Packs
  <2> QED BY <1>10, <2>1, ExtractIs
<1>12. AirToClient(packet) = Handed(<<line>> \o rest).frames
  BY <1>11 DEF AirToClient, Handed
<1>13. /\ AirToClient(packet) # <<>> /\ AirToClient(packet)[1] = EncodeUi(ParseLine(line))
       /\ rest = <<>> => Len(AirToClient(packet)) = 1
  BY <1>9, <1>12, FirstHanded
<1>14. EncodeUi(ReadBack(e)) = [Normalised(r) EXCEPT !.info = SubSeq(@, 1, k)]
  BY <1>1, <1>6, Resent, Zenon DEF e, f
<1>15. k = CutOf(Normalised(r).info) - 1
  BY <1>3 DEF k
<1>16. AirToClient(packet)[1] = [Normalised(r) EXCEPT !.info = SubSeq(@, 1, k)]
  BY <1>9, <1>13, <1>14, Zenon
<1>17. ~HasHeader(Normalised(r).info) => Len(AirToClient(packet)) = 1
  BY <1>3, <1>10, <1>13
<1> QED BY <1>13, <1>15, <1>16, <1>17, <1>18, Zenon

(* What a client sends (bridge_kiss_handle_data_frame) arrives at the      *)
(* client of another bridge (bridge_rx_send_loraham_packet_to_kiss_client) *)
(* as its first frame, with the same addresses, marks and text, in the     *)
(* normal form of a command, and as the only one; only header bytes within *)
(* the text cut it, and only there.  On the air neither source nor         *)
(* destination carries a mark (tnc2_format_station).  For every frame,     *)
(* every alphabet and all limits.                                          *)
THEOREM ArrivesEndToEnd == PktSpec => []EndToEnd
<1>1. InputType => EndToEnd
  <2> SUFFICES ASSUME raw \in RawFrames(Tokens), NEW packet \in ClientToAir(raw)
               PROVE  LET heard == AirToClient(packet)
                          sent == Normalised(raw)
                      IN  /\ heard # <<>>
                          /\ heard[1] = [sent EXCEPT !.info = SubSeq(@, 1, CutOf(sent.info) - 1)]
                          /\ ~HasHeader(sent.info) => Len(heard) = 1
                          /\ \A i \in DOMAIN packet :
                                packet[i] = "*" => \E j \in 1..(i - 1) : packet[j] \in {Comma, ":"}
    BY Zenon DEF InputType, EndToEnd, CutOf
  <2> QED BY Arrives, Zenon
<1> QED BY <1>1, InputsTyped, PTL
=============================================================================
