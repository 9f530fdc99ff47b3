----------------------------- MODULE EdgeProofs -----------------------------
(***************************************************************************)
(* Machine-checked proofs about the edges of the program, for any sizes    *)
(* and inputs of any length: the bytes of a KISS client (KissLink) and     *)
(* what the operator gives the program (Startup).                          *)
(***************************************************************************)
EXTENDS KissLink, Startup, SequenceLemmas, FiniteSetTheorems

-----------------------------------------------------------------------------
(* The KISS decoder *)

Octet == 0..255

Decoder == [in_frame : BOOLEAN, escaped : BOOLEAN, buf : Seq(Octet)]

(* The decoder keeps its type, and its buffer its size, byte by byte. *)
LEMMA StoreType ==
    ASSUME NEW d \in Decoder, Len(d.buf) <= MaxFrame, NEW b \in Octet
    PROVE  Store(d, b) \in Decoder /\ Len(Store(d, b).buf) <= MaxFrame
<1>1. Dropped \in Decoder /\ Len(Dropped.buf) = 0
  BY DEF Dropped, Fresh, Decoder
<1>2. MaxFrame \in Nat
  BY SizesAssumption
<1>3. d.buf \in Seq(Octet) /\ Len(d.buf) \in Nat
  BY DEF Decoder
<1>4. CASE Len(d.buf) >= MaxFrame
  BY <1>1, <1>2, <1>4 DEF Store
<1>5. CASE ~(Len(d.buf) >= MaxFrame)
  <2>1. Store(d, b) = [d EXCEPT !.escaped = FALSE, !.buf = Append(d.buf, b)]
    BY <1>5 DEF Store
  <2>2. Append(d.buf, b) \in Seq(Octet) /\ Len(Append(d.buf, b)) = Len(d.buf) + 1
    BY <1>3
  <2>3. Store(d, b) \in Decoder /\ Store(d, b).buf = Append(d.buf, b)
    BY <2>1, <2>2 DEF Decoder
  <2> QED BY <1>2, <1>3, <1>5, <2>2, <2>3
<1> QED BY <1>4, <1>5

LEMMA DecodeByteType ==
    ASSUME NEW d \in Decoder, Len(d.buf) <= MaxFrame, NEW b \in Octet
    PROVE  DecodeByte(d, b) \in Decoder /\ Len(DecodeByte(d, b).buf) <= MaxFrame
<1>1. /\ FrameStart \in Decoder /\ Len(FrameStart.buf) = 0
      /\ Dropped \in Decoder /\ Len(Dropped.buf) = 0
  BY DEF FrameStart, Dropped, Fresh, Decoder
<1>2. MaxFrame \in Nat
  BY SizesAssumption
<1>3. FEND \in Octet /\ FESC \in Octet
  BY DEF FEND, FESC, Octet
<1>4. CASE b = FEND
  BY <1>1, <1>2, <1>4 DEF DecodeByte, AfterFend, FEND, FESC
<1>5. CASE DecodeByte(d, b) = d
  BY <1>5
<1>6. CASE DecodeByte(d, b) = Unescape(d, b)
  <2>1. Unescape(d, b) \in {Store(d, FEND), Store(d, FESC), Dropped}
    BY DEF Unescape
  <2> QED BY <1>1, <1>2, <1>3, <1>6, <2>1, StoreType
<1>7. CASE DecodeByte(d, b) = [d EXCEPT !.escaped = TRUE]
  BY <1>7 DEF Decoder
<1>8. CASE DecodeByte(d, b) = Store(d, b)
  BY <1>8, StoreType
<1>9. \/ b = FEND \/ DecodeByte(d, b) = d \/ DecodeByte(d, b) = Unescape(d, b)
      \/ DecodeByte(d, b) = [d EXCEPT !.escaped = TRUE] \/ DecodeByte(d, b) = Store(d, b)
  BY Zenon DEF DecodeByte
<1> QED BY <1>4, <1>5, <1>6, <1>7, <1>8, <1>9

LEMMA HandledType ==
    ASSUME NEW d \in Decoder, NEW b
    PROVE  Handled(d, b) \in Seq(Seq(Octet))
<1>1. CASE Handled(d, b) = <<>>
  BY <1>1
<1>2. CASE d.buf # <<>> /\ Handled(d, b) = <<Tail(d.buf)>>
  <2>1. d.buf \in Seq(Octet)
    BY DEF Decoder
  <2>2. Tail(d.buf) \in Seq(Octet)
    BY <1>2, <2>1, HeadTailProperties
  <2> QED BY <1>2, <2>2
<1>3. Handled(d, b) = <<>> \/ (d.buf # <<>> /\ Handled(d, b) = <<Tail(d.buf)>>)
  BY DEF Handled, Completes
<1> QED BY <1>1, <1>2, <1>3

LEMMA OctetsOf == \A s \in Seq(Bytes) : s \in Seq(Octet)
<1> SUFFICES ASSUME NEW s \in Seq(Bytes) PROVE s \in Seq(Octet)
  OBVIOUS
<1>1. Len(s) \in Nat /\ s \in [1..Len(s) -> Bytes]
  OBVIOUS
<1>2. s \in [1..Len(s) -> Octet]
  BY <1>1, BytesAssumption DEF Octet
<1> QED BY <1>1, <1>2

LEMMA KissTypeStep == TypeOK /\ [Next]_vars => TypeOK'
<1> SUFFICES ASSUME TypeOK, [Next]_vars PROVE TypeOK'
  OBVIOUS
<1>0. /\ dec \in Decoder /\ Len(dec.buf) <= MaxFrame /\ frames \in Seq(Seq(Octet))
      /\ stream \in Seq(Bytes)
  BY DEF TypeOK, Decoder, Octet
<1> USE DEF Octet
<1>1. ASSUME NEW b \in Bytes, Receive(b) PROVE TypeOK'
  <2>1. b \in Octet
    BY BytesAssumption
  <2>2. dec' \in Decoder /\ Len(dec'.buf) <= MaxFrame
    BY <1>0, <1>1, <2>1, DecodeByteType DEF Receive
  <2>3. frames' \in Seq(Seq(Octet))
    BY <1>0, <1>1, HandledType, ConcatProperties DEF Receive
  <2>4. stream' \in Seq(Bytes)
    BY <1>0, <1>1, AppendProperties DEF Receive
  <2> QED BY <2>2, <2>3, <2>4, Zenon DEF TypeOK, Decoder
<1>2. CASE ClientChange
  <2>1. Fresh \in Decoder /\ Len(Fresh.buf) = 0 /\ 0 <= MaxFrame
    BY SizesAssumption DEF Fresh, Decoder
  <2>2. dec' = Fresh /\ frames' = <<>> /\ stream' = <<>>
    BY <1>2 DEF ClientChange
  <2>3. <<>> \in Seq(Seq(Octet)) /\ <<>> \in Seq(Bytes)
    OBVIOUS
  <2> QED BY <2>1, <2>2, <2>3, Zenon DEF TypeOK, Decoder
<1>3. CASE UNCHANGED vars
  BY <1>3 DEF vars, TypeOK
<1> QED BY <1>1, <1>2, <1>3 DEF Next

(* Whatever the client sends, the decoder keeps its frame within           *)
(* LHKT_KISS_MAX_FRAME, and all variables their types (kiss_decode_byte).  *)
THEOREM DecoderInBounds == Spec => []TypeOK
<1>1. Init => TypeOK
  BY SizesAssumption DEF Init, TypeOK, Fresh
<1> QED BY <1>1, KissTypeStep, PTL DEF Spec

-----------------------------------------------------------------------------
(* The stretches of the stream *)

(* FESC is open at the end of a stretch, or not followed as it should. *)
Open(s) == s # <<>> /\ s[Len(s)] = FESC
Proper(s) == \A i \in 1..(Len(s) - 1) : s[i] = FESC => Second(s, i + 1)

(* What one byte more of a stretch adds. *)
Adds(s, b) ==
    CASE Open(s) /\ b = TFEND -> <<FEND>>
      [] Open(s) /\ b = TFESC -> <<FESC>>
      [] b = FESC -> <<>>
      [] OTHER -> <<b>>

LEMMA WellFormedProper ==
    ASSUME NEW s \in Seq(Octet)
    PROVE  WellFormed(s) <=> Proper(s) /\ ~Open(s)
<1>1. Len(s) \in Nat /\ DOMAIN s = 1..Len(s) /\ (s = <<>> <=> Len(s) = 0)
  BY EmptySeq
<1>2. ASSUME WellFormed(s) PROVE Proper(s) /\ ~Open(s)
  <2>1. \A i \in 1..Len(s) : s[i] = FESC => i < Len(s) /\ Second(s, i + 1)
    BY <1>1, <1>2 DEF WellFormed
  <2> QED BY <1>1, <2>1 DEF Proper, Open
<1>3. ASSUME Proper(s), ~Open(s) PROVE WellFormed(s)
  <2>1. \A i \in 1..Len(s) : s[i] = FESC => i < Len(s) /\ Second(s, i + 1)
    BY <1>1, <1>3 DEF Proper, Open
  <2> QED BY <1>1, <2>1 DEF WellFormed
<1> QED BY <1>2, <1>3

LEMMA SecondStays ==
    ASSUME NEW s \in Seq(Octet), NEW b \in Octet, NEW i \in 1..Len(s)
    PROVE  Second(Append(s, b), i) <=> Second(s, i)
BY DEF Second

LEMMA SecondLast ==
    ASSUME NEW s \in Seq(Octet), NEW b \in Octet
    PROVE  Second(Append(s, b), Len(s) + 1) <=> Open(s) /\ b \in {TFEND, TFESC}
<1> DEFINE t == Append(s, b)
<1>1. Len(s) \in Nat /\ t[Len(s) + 1] = b /\ (Len(s) + 1) - 1 = Len(s)
      /\ (s = <<>> <=> Len(s) = 0)
  BY EmptySeq
<1>2. Len(s) > 0 => t[Len(s)] = s[Len(s)]
  OBVIOUS
<1>3. Len(s) + 1 > 1 <=> s # <<>>
  BY <1>1
<1> HIDE DEF t
<1>4. Second(t, Len(s) + 1) <=> Open(s) /\ b \in {TFEND, TFESC}
  <2>1. Second(t, Len(s) + 1) <=> b \in {TFEND, TFESC} /\ s # <<>> /\ t[Len(s)] = FESC
    BY <1>1, <1>3 DEF Second
  <2>2. s # <<>> => t[Len(s)] = s[Len(s)]
    BY <1>1, <1>2
  <2> QED BY <2>1, <2>2, Zenon DEF Open
<1> QED BY <1>4 DEF t

(* One byte more of a stretch. *)
LEMMA ProperAppend ==
    ASSUME NEW s \in Seq(Octet), NEW b \in Octet
    PROVE  /\ Proper(Append(s, b)) <=> Proper(s) /\ (Open(s) => b \in {TFEND, TFESC})
           /\ Open(Append(s, b)) <=> b = FESC
           /\ Proper(<<>>) /\ ~Open(<<>>)
<1> DEFINE t == Append(s, b)
           n == Len(s)
<1>1. /\ n \in Nat /\ Len(t) = n + 1 /\ t # <<>> /\ t[n + 1] = b
      /\ \A i \in 1..n : t[i] = s[i]
      /\ (s = <<>> <=> n = 0) /\ (n + 1) - 1 = n
  BY EmptySeq
<1>2. \A i \in 1..(n - 1) : Second(t, i + 1) <=> Second(s, i + 1)
  <2>1. \A i \in 1..(n - 1) : i + 1 \in 1..n
    BY <1>1
  <2> QED BY <2>1, SecondStays
<1>3. Second(t, n + 1) <=> Open(s) /\ b \in {TFEND, TFESC}
  BY SecondLast
<1>4. Open(t) <=> b = FESC
  <2> HIDE DEF t, n
  <2> QED BY <1>1 DEF Open
<1>5. Proper(<<>>) /\ ~Open(<<>>)
  BY DEF Proper, Open
<1> HIDE DEF t
<1>6. Proper(t) <=> \A i \in 1..n : s[i] = FESC => Second(t, i + 1)
  BY <1>1 DEF Proper
<1>7. Proper(s) <=> \A i \in 1..(n - 1) : s[i] = FESC => Second(s, i + 1)
  BY DEF Proper
<1>8. Open(s) <=> n # 0 /\ s[n] = FESC
  BY <1>1 DEF Open
<1> HIDE DEF n
<1>9. \A i \in 1..n : i \in 1..(n - 1) \/ (i = n /\ n # 0)
  BY <1>1
<1>10. (\A i \in 1..(n - 1) : i \in 1..n) /\ (n # 0 => n \in 1..n)
  BY <1>1
<1>11. Proper(t) <=> Proper(s) /\ (Open(s) => b \in {TFEND, TFESC})
  <2>1. ASSUME Proper(t) PROVE Proper(s) /\ (Open(s) => b \in {TFEND, TFESC})
    <3>1. Proper(s)
      BY <1>2, <1>6, <1>7, <1>10, <2>1
    <3>2. ASSUME Open(s) PROVE b \in {TFEND, TFESC}
      <4>1. n \in 1..n /\ s[n] = FESC
        BY <1>8, <1>10, <3>2
      <4> QED BY <1>3, <1>6, <2>1, <4>1, Zenon
    <3> QED BY <3>1, <3>2
  <2>2. ASSUME Proper(s), Open(s) => b \in {TFEND, TFESC} PROVE Proper(t)
    <3>1. ASSUME NEW i \in 1..n, s[i] = FESC PROVE Second(t, i + 1)
      <4>1. CASE i \in 1..(n - 1)
        BY <1>2, <1>7, <2>2, <3>1, <4>1, Zenon
      <4>2. CASE i = n /\ n # 0
        <5>1. Open(s)
          BY <1>8, <3>1, <4>2, Zenon
        <5> QED BY <1>3, <2>2, <4>2, <5>1, Zenon
      <4> QED BY <1>9, <4>1, <4>2
    <3> QED BY <1>6, <3>1
  <2> QED BY <2>1, <2>2
<1> QED BY <1>4, <1>5, <1>11 DEF t

LEMMA AddsType ==
    ASSUME NEW s, NEW b \in Octet
    PROVE  Adds(s, b) \in Seq(Octet) /\ Len(Adds(s, b)) \in {0, 1} /\ (b # FESC => Len(Adds(s, b)) = 1)
<1>1. FEND \in Octet /\ FESC \in Octet
  BY DEF FEND, FESC, Octet
<1>2. Adds(s, b) \in {<<FEND>>, <<FESC>>, <<>>, <<b>>} /\ (b # FESC => Adds(s, b) # <<>>)
  BY DEF Adds
<1>3. \A x \in Octet : <<x>> \in Seq(Octet) /\ Len(<<x>>) = 1 /\ <<x>> # <<>>
  OBVIOUS
<1>4. <<>> \in Seq(Octet) /\ Len(<<>>) = 0
  OBVIOUS
<1> QED BY <1>1, <1>2, <1>3, <1>4, Zenon

LEMMA PlainAppend ==
    /\ Plain(<<>>) = <<>>
    /\ \A s \in Seq(Octet) : Plain(s) \in Seq(Octet)
    /\ \A s \in Seq(Octet) : \A b \in Octet : Plain(Append(s, b)) = Plain(s) \o Adds(s, b)
<1> DEFINE byte(s, i) == CASE Second(s, i) /\ s[i] = TFEND -> <<FEND>>
                           [] Second(s, i) /\ s[i] = TFESC -> <<FESC>>
                           [] s[i] = FESC -> <<>>
                           [] OTHER -> <<s[i]>>
           plains(s) == [i \in DOMAIN s |-> byte(s, i)]
<1>0. FEND \in Octet /\ FESC \in Octet
  BY DEF FEND, FESC, Octet
<1>1. \A s \in Seq(Octet) : \A i \in 1..Len(s) : byte(s, i) \in Seq(Octet)
  <2>1. ASSUME NEW s \in Seq(Octet), NEW i \in 1..Len(s)
        PROVE  byte(s, i) \in Seq(Octet)
    <3>1. s[i] \in Octet
      OBVIOUS
    <3>2. byte(s, i) \in {<<FEND>>, <<FESC>>, <<>>, <<s[i]>>}
      OBVIOUS
    <3> HIDE DEF byte
    <3>3. \A x \in Octet : <<x>> \in Seq(Octet)
      OBVIOUS
    <3>4. <<>> \in Seq(Octet)
      OBVIOUS
    <3> QED BY <1>0, <3>1, <3>2, <3>3, <3>4, Zenon
  <2> HIDE DEF byte
  <2> QED BY <2>1
<1>2. ASSUME NEW s \in Seq(Octet)
      PROVE  /\ plains(s) \in Seq(Seq(Octet)) /\ Len(plains(s)) = Len(s)
             /\ \A i \in 1..Len(s) : plains(s)[i] = byte(s, i)
  <2>1. Len(s) \in Nat /\ DOMAIN s = 1..Len(s)
    OBVIOUS
  <2> HIDE DEF byte
  <2>2. plains(s) \in [1..Len(s) -> Seq(Octet)]
    BY <1>1, <2>1
  <2> QED BY <2>1, <2>2
<1>3. \A s : Plain(s) = FlattenSeq(plains(s))
  BY DEF Plain
<1>4. Plain(<<>>) = <<>>
  <2>1. plains(<<>>) = <<>>
    OBVIOUS
  <2> HIDE DEF plains
  <2> QED BY <1>3, <2>1, FlattenEmpty
<1>5. \A s \in Seq(Octet) : Plain(s) \in Seq(Octet)
  <2> HIDE DEF plains, byte
  <2> QED BY <1>2, <1>3, FlattenType
<1>6. ASSUME NEW s \in Seq(Octet), NEW b \in Octet
      PROVE  Plain(Append(s, b)) = Plain(s) \o Adds(s, b)
  <2> DEFINE t == Append(s, b)
             n == Len(s)
             p == plains(s)
             q == plains(t)
  <2>1. /\ t \in Seq(Octet) /\ Len(t) = n + 1 /\ n \in Nat
        /\ \A i \in 1..n : t[i] = s[i] /\ i \in 1..(n + 1)
        /\ n + 1 \in 1..(n + 1)
    OBVIOUS
  <2>2. t[n + 1] = b
    OBVIOUS
  <2>3. \A i \in 1..n : Second(t, i) <=> Second(s, i)
    BY SecondStays
  <2>4. Second(t, n + 1) <=> Open(s) /\ b \in {TFEND, TFESC}
    BY SecondLast
  <2> HIDE DEF t, n
  <2>5. \A i \in 1..n : byte(t, i) = byte(s, i)
    BY <2>1, <2>3
  <2>6. byte(t, n + 1) = Adds(s, b)
    BY <2>2, <2>4 DEF Adds
  <2> HIDE DEF byte
  <2>7. /\ p \in Seq(Seq(Octet)) /\ Len(p) = n /\ \A i \in 1..n : p[i] = byte(s, i)
    BY <1>2 DEF n
  <2>8. /\ q \in Seq(Seq(Octet)) /\ Len(q) = n + 1 /\ \A i \in 1..(n + 1) : q[i] = byte(t, i)
    <3> HIDE DEF plains
    <3> QED BY <1>2, <2>1
  <2>9. Plain(s) = FlattenSeq(p) /\ Plain(t) = FlattenSeq(q)
    BY <1>3, Zenon
  <2> HIDE DEF p, q, plains
  <2>10. q = Append(p, Adds(s, b))
    <3>1. Len(q) = Len(p) + 1 /\ \A i \in 1..Len(p) : q[i] = p[i]
      BY <2>1, <2>5, <2>7, <2>8
    <3>2. q[n + 1] = Adds(s, b)
      BY <2>1, <2>6, <2>8, Zenon
    <3> QED BY <2>7, <2>8, <3>1, <3>2, AppendOf
  <2>11. FlattenSeq(q) = FlattenSeq(p) \o Adds(s, b)
    BY <2>7, <2>10, AddsType, FlattenAppend
  <2> QED BY <2>9, <2>11 DEF t
<1> QED BY <1>4, <1>5, <1>6

-----------------------------------------------------------------------------
(* The decoder has read stretch c since the last FEND. *)
Follows(d, c) ==
    IF Proper(c) /\ Len(Plain(c)) <= MaxFrame
    THEN d.in_frame /\ (d.escaped <=> Open(c)) /\ d.buf = Plain(c)
    ELSE ~d.in_frame

LEMMA StoreFollows ==
    ASSUME NEW d \in Decoder, d.in_frame, NEW x \in Octet
    PROVE  IF Len(d.buf) + 1 <= MaxFrame
           THEN Store(d, x).in_frame /\ ~Store(d, x).escaped /\ Store(d, x).buf = d.buf \o <<x>>
           ELSE ~Store(d, x).in_frame
<1>1. d.buf \in Seq(Octet) /\ Len(d.buf) \in Nat /\ MaxFrame \in Nat
  BY SizesAssumption DEF Decoder
<1>2. CASE Len(d.buf) + 1 <= MaxFrame
  <2>1. Store(d, x) = [d EXCEPT !.escaped = FALSE, !.buf = Append(d.buf, x)]
    BY <1>1, <1>2 DEF Store
  <2>2. Store(d, x).escaped = FALSE /\ Store(d, x).buf = Append(d.buf, x)
        /\ Store(d, x).in_frame = d.in_frame
    BY <2>1 DEF Decoder
  <2>3. Append(d.buf, x) = d.buf \o <<x>>
    BY <1>1, AppendIsConcat
  <2> QED BY <1>2, <2>2, <2>3, Zenon
<1>3. CASE ~(Len(d.buf) + 1 <= MaxFrame)
  <2>1. Store(d, x) = Dropped
    BY <1>1, <1>3 DEF Store
  <2>2. ~Dropped.in_frame
    BY DEF Dropped, Fresh
  <2> QED BY <1>3, <2>1, <2>2, Zenon
<1> QED BY <1>2, <1>3

LEMMA FollowsByte ==
    ASSUME NEW d \in Decoder, NEW c \in Seq(Octet), NEW b \in Octet, b # FEND, Follows(d, c)
    PROVE  Follows(DecodeByte(d, b), Append(c, b))
<1> DEFINE t == Append(c, b)
           r == DecodeByte(d, b)
<1>1. /\ Proper(t) <=> Proper(c) /\ (Open(c) => b \in {TFEND, TFESC})
      /\ Open(t) <=> b = FESC
  BY ProperAppend
<1>2. Plain(t) = Plain(c) \o Adds(c, b) /\ Plain(c) \in Seq(Octet)
  BY PlainAppend
<1>3. /\ Adds(c, b) \in Seq(Octet)
      /\ Len(Plain(t)) = Len(Plain(c)) + Len(Adds(c, b))
      /\ Len(Plain(c)) \in Nat /\ Len(Adds(c, b)) \in Nat /\ MaxFrame \in Nat
  BY <1>2, AddsType, ConcatProperties, SizesAssumption
<1>4. FEND \in Octet /\ FESC \in Octet /\ TFEND # FESC /\ TFESC # FESC /\ TFEND # TFESC
  BY DEF FEND, FESC, TFEND, TFESC, Octet
<1> HIDE DEF t, r
<1>5. CASE ~(Proper(c) /\ Len(Plain(c)) <= MaxFrame)
  <2>1. ~d.in_frame
    BY <1>5 DEF Follows
  <2>2. r = d
    BY <2>1 DEF r, DecodeByte
  <2>3. ~(Proper(t) /\ Len(Plain(t)) <= MaxFrame)
    BY <1>1, <1>3, <1>5
  <2> QED BY <2>1, <2>2, <2>3, Zenon DEF Follows, t, r
<1>6. CASE Proper(c) /\ Len(Plain(c)) <= MaxFrame
  <2>1. d.in_frame /\ (d.escaped <=> Open(c)) /\ d.buf = Plain(c)
    BY <1>6, Zenon DEF Follows
  <2>2. ASSUME NEW x \in Octet, r = Store(d, x), Adds(c, b) = <<x>>, Proper(t), ~Open(t)
        PROVE  Follows(r, t)
    <3>1. Len(Plain(t)) = Len(d.buf) + 1 /\ Plain(t) = d.buf \o <<x>>
      BY <1>2, <1>3, <2>1, <2>2
    <3>2. IF Len(d.buf) + 1 <= MaxFrame
          THEN r.in_frame /\ ~r.escaped /\ r.buf = d.buf \o <<x>> ELSE ~r.in_frame
      BY <2>1, <2>2, StoreFollows
    <3> QED BY <2>2, <3>1, <3>2, Zenon DEF Follows
  <2>3. CASE Open(c) /\ b = TFEND
    <3>1. r = Store(d, FEND)
      BY <1>4, <2>1, <2>3 DEF r, DecodeByte, Unescape
    <3>2. Adds(c, b) = <<FEND>>
      BY <1>4, <2>3 DEF Adds
    <3>3. Proper(t) /\ ~Open(t)
      BY <1>1, <1>4, <1>6, <2>3
    <3> QED BY <1>4, <2>2, <3>1, <3>2, <3>3 DEF t, r
  <2>4. CASE Open(c) /\ b = TFESC
    <3>1. r = Store(d, FESC)
      BY <1>4, <2>1, <2>4 DEF r, DecodeByte, Unescape
    <3>2. Adds(c, b) = <<FESC>>
      BY <1>4, <2>4 DEF Adds
    <3>3. Proper(t) /\ ~Open(t)
      BY <1>1, <1>4, <1>6, <2>4
    <3> QED BY <1>4, <2>2, <3>1, <3>2, <3>3 DEF t, r
  <2>5. CASE Open(c) /\ b \notin {TFEND, TFESC}
    <3>1. r = Dropped
      BY <2>1, <2>5 DEF r, DecodeByte, Unescape
    <3>2. ~Dropped.in_frame
      BY DEF Dropped, Fresh
    <3>3. ~Proper(t)
      BY <1>1, <2>5
    <3> QED BY <3>1, <3>2, <3>3, Zenon DEF Follows, t, r
  <2>6. CASE ~Open(c) /\ b = FESC
    <3>1. r = [d EXCEPT !.escaped = TRUE]
      BY <2>1, <2>6 DEF r, DecodeByte
    <3>2. r.escaped = TRUE /\ r.in_frame = d.in_frame /\ r.buf = d.buf
      BY <3>1 DEF Decoder
    <3>3. Adds(c, b) = <<>>
      BY <2>6 DEF Adds
    <3>4. Plain(t) = Plain(c)
      BY <1>2, <3>3, ConcatEmptySeq
    <3> QED BY <1>1, <1>6, <2>1, <2>6, <3>2, <3>4, Zenon DEF Follows, t, r
  <2>7. CASE ~Open(c) /\ b # FESC
    <3>1. r = Store(d, b)
      BY <2>1, <2>7 DEF r, DecodeByte
    <3>2. Adds(c, b) = <<b>>
      BY <2>7 DEF Adds
    <3>3. Proper(t) /\ ~Open(t)
      BY <1>1, <1>6, <2>7
    <3> QED BY <2>2, <3>1, <3>2, <3>3 DEF t, r
  <2> QED BY <2>3, <2>4, <2>5, <2>6, <2>7
<1> QED BY <1>5, <1>6

(* At the FEND that ends a stretch it is handed on if it should be. *)
LEMMA FollowsFend ==
    ASSUME NEW d \in Decoder, NEW c \in Seq(Octet), Follows(d, c)
    PROVE  Handled(d, FEND) = IF IsDataFrame(c) THEN <<Tail(Plain(c))>> ELSE <<>>
<1>1. WellFormed(c) <=> Proper(c) /\ ~Open(c)
  BY WellFormedProper
<1>2. Plain(c) \in Seq(Octet) /\ Len(Plain(c)) \in Nat /\ MaxFrame \in Nat
      /\ (Plain(c) = <<>> <=> Len(Plain(c)) = 0)
  BY PlainAppend, EmptySeq, SizesAssumption
<1>3. CASE ~(Proper(c) /\ Len(Plain(c)) <= MaxFrame)
  <2>1. ~d.in_frame
    BY <1>3 DEF Follows
  <2>2. ~IsDataFrame(c)
    BY <1>1, <1>2, <1>3 DEF IsDataFrame
  <2> QED BY <2>1, <2>2, Zenon DEF Handled, Completes
<1>4. CASE Proper(c) /\ Len(Plain(c)) <= MaxFrame
  <2>1. d.in_frame /\ (d.escaped <=> Open(c)) /\ d.buf = Plain(c)
    BY <1>4, Zenon DEF Follows
  <2>2. Plain(c) # <<>> =>
            (Plain(c)[1] % 16 = CMD_DATA /\ (Plain(c)[1] \div 16) = 0 <=> Plain(c)[1] = CMD_DATA)
    <3>1. Plain(c) # <<>> => Plain(c)[1] \in Octet
      BY <1>2
    <3>2. \A x \in Octet : (x % 16 = 0 /\ (x \div 16) = 0 <=> x = 0)
      BY DEF Octet
    <3> QED BY <3>1, <3>2 DEF CMD_DATA
  <2>3. IsDataFrame(c) <=> ~Open(c) /\ Plain(c) # <<>> /\ Plain(c)[1] = CMD_DATA
    BY <1>1, <1>2, <1>4 DEF IsDataFrame
  <2>4. Completes(d, FEND) <=> ~Open(c) /\ Plain(c) # <<>>
    BY <2>1, Zenon DEF Completes
  <2> QED BY <2>1, <2>2, <2>3, <2>4, Zenon DEF Handled
<1> QED BY <1>3, <1>4

-----------------------------------------------------------------------------
(* The frames of the stream *)

(* The stretch being read, and what was handed on at place k. *)
Reading(s) == StretchTo(s, Len(s) + 1)

FrameAt(s, k) ==
    IF s[k] = FEND /\ Begin(s, k) # 1 /\ IsDataFrame(StretchTo(s, k))
    THEN <<Tail(Plain(StretchTo(s, k)))>> ELSE <<>>

FramesOf(s) == FlattenSeq([k \in DOMAIN s |-> FrameAt(s, k)])

LEMMA BeginAfter == \A s, k : Begin(s, k) = After(s, FEND, k)
BY DEF Begin, After

LEMMA StretchStays ==
    ASSUME NEW s \in Seq(Octet), NEW b \in Octet, NEW k \in 1..(Len(s) + 1)
    PROVE  /\ Begin(Append(s, b), k) = Begin(s, k)
           /\ StretchTo(Append(s, b), k) = StretchTo(s, k)
           /\ StretchTo(s, k) \in Seq(Octet)
<1> DEFINE m == Begin(s, k)
<1>1. k \in Nat \ {0} /\ k - 1 \in 0..Len(s) /\ Len(s) \in Nat
  OBVIOUS
<1>2. m \in Nat \ {0}
  BY <1>1, AfterProperties, BeginAfter
<1>3. Begin(Append(s, b), k) = m
  BY AfterStays, BeginAfter
<1> HIDE DEF m
<1>4. SubSeq(Append(s, b), m, k - 1) = SubSeq(s, m, k - 1)
  BY <1>1, <1>2, SubSeqSame
<1>5. SubSeq(s, m, k - 1) \in Seq(Octet)
  <2>1. \A i \in m..(k - 1) : s[i] \in Octet
    BY <1>1, <1>2
  <2> QED BY <1>1, <1>2, <2>1, SubSeqProperties
<1> QED BY <1>3, <1>4, <1>5 DEF m, StretchTo

(* The stretch being read grows, or the next one begins. *)
LEMMA ReadingGrows ==
    ASSUME NEW s \in Seq(Octet), NEW b \in Octet
    PROVE  /\ b = FEND => Begin(Append(s, b), Len(s) + 2) # 1 /\ Reading(Append(s, b)) = <<>>
           /\ b # FEND => /\ Begin(Append(s, b), Len(s) + 2) = Begin(s, Len(s) + 1)
                          /\ Reading(Append(s, b)) = Append(Reading(s), b)
<1> DEFINE t == Append(s, b)
           n == Len(s)
           m == Begin(s, n + 1)
<1>1. /\ n \in Nat /\ t \in Seq(Octet) /\ Len(t) = n + 1 /\ (n + 2) - 1 = n + 1
      /\ (n + 1) + 1 = n + 2 /\ (n + 1) - 1 = n /\ n + 2 # 1
  OBVIOUS
<1>2. Begin(t, n + 2) = IF b = FEND THEN n + 2 ELSE m
  BY AfterAppend, BeginAfter
<1>3. Reading(t) = SubSeq(t, Begin(t, n + 2), n + 1) /\ Reading(s) = SubSeq(s, m, n)
  <2> HIDE DEF t, n
  <2>1. Reading(t) = SubSeq(t, Begin(t, n + 2), n + 1)
    BY <1>1 DEF Reading, StretchTo
  <2>2. Reading(s) = SubSeq(s, m, n)
    BY <1>1 DEF Reading, StretchTo, n
  <2> QED BY <2>1, <2>2
<1>4. CASE b = FEND
  <2>1. SubSeq(t, n + 2, n + 1) = <<>>
    <3> HIDE DEF n, t
    <3> QED BY <1>1, SubSeqEmpty
  <2> QED BY <1>1, <1>2, <1>3, <1>4, <2>1
<1>5. CASE b # FEND
  <2>1. m \in 1..(n + 1)
    BY <1>1, AfterProperties, BeginAfter
  <2> HIDE DEF m
  <2>2. SubSeq(t, m, n + 1) = Append(SubSeq(s, m, n), b)
    BY <2>1, SubSeqAppend
  <2> QED BY <1>2, <1>3, <1>5, <2>2 DEF m
<1> QED BY <1>4, <1>5

LEMMA FramesAppend ==
    ASSUME NEW s \in Seq(Octet), NEW b \in Octet
    PROVE  FramesOf(Append(s, b)) =
               FramesOf(s) \o IF b = FEND /\ Begin(s, Len(s) + 1) # 1 /\ IsDataFrame(Reading(s))
                              THEN <<Tail(Plain(Reading(s)))>> ELSE <<>>
<1> DEFINE t == Append(s, b)
           n == Len(s)
           p == [k \in DOMAIN s |-> FrameAt(s, k)]
           q == [k \in DOMAIN t |-> FrameAt(t, k)]
<1>1. /\ n \in Nat /\ DOMAIN s = 1..n /\ DOMAIN t = 1..(n + 1) /\ t \in Seq(Octet)
      /\ \A i \in 1..n : t[i] = s[i] /\ i \in 1..(n + 1)
      /\ n + 1 \in 1..(n + 1)
  OBVIOUS
<1>2. t[n + 1] = b
  OBVIOUS
<1>3. ASSUME NEW k \in 1..(n + 1)
      PROVE  /\ Begin(t, k) = Begin(s, k)
             /\ StretchTo(t, k) = StretchTo(s, k) /\ StretchTo(s, k) \in Seq(Octet)
  BY StretchStays
<1> HIDE DEF t
<1>4. ASSUME NEW u, NEW k \in 1..(n + 1), StretchTo(u, k) \in Seq(Octet)
      PROVE  FrameAt(u, k) \in Seq(Seq(Octet))
  <2>1. CASE IsDataFrame(StretchTo(u, k))
    <3> DEFINE x == Plain(StretchTo(u, k))
    <3>1. x \in Seq(Octet) /\ Len(x) \in 1..MaxFrame
      BY <1>4, <2>1, PlainAppend DEF IsDataFrame
    <3>2. x # <<>>
      BY <3>1, EmptySeq
    <3>3. Tail(x) \in Seq(Octet)
      BY <3>1, <3>2, HeadTailProperties
    <3>4. FrameAt(u, k) \in {<<>>, <<Tail(x)>>}
      BY DEF FrameAt
    <3> HIDE DEF x
    <3>5. <<>> \in Seq(Seq(Octet)) /\ <<Tail(x)>> \in Seq(Seq(Octet))
      BY <3>3
    <3> QED BY <3>4, <3>5, Zenon
  <2>2. CASE ~IsDataFrame(StretchTo(u, k))
    BY <2>2 DEF FrameAt
  <2> QED BY <2>1, <2>2
<1> DEFINE f == IF b = FEND /\ Begin(s, n + 1) # 1 /\ IsDataFrame(Reading(s))
                THEN <<Tail(Plain(Reading(s)))>> ELSE <<>>
<1>5. FrameAt(t, n + 1) = f
  <2>1. StretchTo(t, n + 1) = Reading(s) /\ Begin(t, n + 1) = Begin(s, n + 1)
    BY <1>1, <1>3 DEF Reading
  <2> QED BY <1>2, <2>1, Zenon DEF FrameAt
<1>6. \A k \in 1..n : FrameAt(t, k) = FrameAt(s, k)
  BY <1>1, <1>3, Zenon DEF FrameAt
<1>7. p \in [1..n -> Seq(Seq(Octet))] /\ \A k \in 1..n : p[k] = FrameAt(s, k)
  BY <1>1, <1>3, <1>4
<1>8. q \in [1..(n + 1) -> Seq(Seq(Octet))] /\ \A k \in 1..(n + 1) : q[k] = FrameAt(t, k)
  BY <1>1, <1>3, <1>4
<1>9. FramesOf(s) = FlattenSeq(p) /\ FramesOf(t) = FlattenSeq(q)
  BY DEF FramesOf
<1> HIDE DEF p, q, f, n
<1>10. q[n + 1] = f /\ \A k \in 1..n : q[k] = p[k]
  BY <1>1, <1>5, <1>6, <1>7, <1>8
<1>11. FlattenSeq(q) = FlattenSeq(p) \o q[n + 1]
  BY <1>1, <1>7, <1>8, <1>10, FlattenMore
<1> QED BY <1>9, <1>10, <1>11 DEF t, f, n

(* The decoder follows the stretch being read. *)
KissInv ==
    /\ frames = FramesOf(stream)
    /\ Begin(stream, Len(stream) + 1) = 1 => ~dec.in_frame
    /\ Begin(stream, Len(stream) + 1) # 1 => Follows(dec, Reading(stream))

LEMMA KissEmpty == FramesOf(<<>>) = <<>> /\ Begin(<<>>, 1) = 1
<1>1. [k \in DOMAIN <<>> |-> FrameAt(<<>>, k)] = <<>>
  OBVIOUS
<1>2. After(<<>>, FEND, 1) = 1
  BY AfterProperties
<1> QED BY <1>1, <1>2, FlattenEmpty, BeginAfter DEF FramesOf

LEMMA KissStart == dec = Fresh /\ frames = <<>> /\ stream = <<>> => KissInv
<1>1. ~Fresh.in_frame
  BY DEF Fresh
<1>2. Len(<<>>) + 1 = 1
  OBVIOUS
<1> QED BY <1>1, <1>2, KissEmpty, Zenon DEF KissInv

LEMMA ReceiveInv ==
    ASSUME TypeOK, KissInv, NEW b \in Bytes, Receive(b)
    PROVE  KissInv'
<1> DEFINE m == Begin(stream, Len(stream) + 1)
           c == Reading(stream)
<1>1. /\ dec \in Decoder /\ stream \in Seq(Octet) /\ b \in Octet
      /\ stream' = Append(stream, b) /\ dec' = DecodeByte(dec, b)
      /\ frames' = frames \o Handled(dec, b)
  <2>1. stream \in Seq(Octet)
    <3>1. stream \in Seq(Bytes)
      BY DEF TypeOK
    <3> QED BY <3>1, OctetsOf
  <2> QED BY <2>1, BytesAssumption DEF TypeOK, Decoder, Octet, Receive
<1>2. c \in Seq(Octet)
  <2>1. Len(stream) + 1 \in 1..(Len(stream) + 1)
    BY <1>1
  <2> QED BY <1>1, <2>1, StretchStays DEF Reading
<1>3. Len(stream') + 1 = Len(stream) + 2
  BY <1>1
<1>4. /\ b = FEND => Begin(stream', Len(stream') + 1) # 1 /\ Reading(stream') = <<>>
      /\ b # FEND => Begin(stream', Len(stream') + 1) = m /\ Reading(stream') = Append(c, b)
  BY <1>1, <1>3, ReadingGrows
<1>5. FramesOf(stream') = FramesOf(stream) \o IF b = FEND /\ m # 1 /\ IsDataFrame(c)
                                              THEN <<Tail(Plain(c))>> ELSE <<>>
  BY <1>1, FramesAppend
<1>6. frames = FramesOf(stream) /\ (m = 1 => ~dec.in_frame) /\ (m # 1 => Follows(dec, c))
  BY Zenon DEF KissInv
<1> HIDE DEF m, c
<1> SUFFICES /\ frames' = FramesOf(stream')
             /\ Begin(stream', Len(stream') + 1) = 1 => ~dec'.in_frame
             /\ Begin(stream', Len(stream') + 1) # 1 => Follows(dec', Reading(stream'))
  BY Zenon DEF KissInv
<1>7. CASE b = FEND
  <2>1. Handled(dec, FEND) = IF m # 1 /\ IsDataFrame(c) THEN <<Tail(Plain(c))>> ELSE <<>>
    <3>1. CASE m = 1
      BY <1>6, <3>1, Zenon DEF Handled, Completes
    <3>2. CASE m # 1
      BY <1>1, <1>2, <1>6, <3>2, FollowsFend, Zenon
    <3> QED BY <3>1, <3>2
  <2>2. frames' = FramesOf(stream')
    BY <1>1, <1>5, <1>6, <1>7, <2>1, Zenon
  <2>3. dec' = FrameStart
    BY <1>1, <1>7 DEF DecodeByte, AfterFend, FEND, FESC
  <2>4. Follows(FrameStart, <<>>)
    <3>1. FrameStart.in_frame /\ ~FrameStart.escaped /\ FrameStart.buf = <<>>
      BY DEF FrameStart
    <3>2. Proper(<<>>) /\ ~Open(<<>>)
      BY <1>1, ProperAppend
    <3>3. Plain(<<>>) = <<>> /\ Len(<<>>) <= MaxFrame
      BY PlainAppend, SizesAssumption
    <3> QED BY <3>1, <3>2, <3>3, Zenon DEF Follows
  <2> QED BY <1>4, <1>7, <2>2, <2>3, <2>4, Zenon
<1>8. CASE b # FEND
  <2>1. Handled(dec, b) = <<>>
    BY <1>8, Zenon DEF Handled, Completes
  <2>2. frames' = FramesOf(stream')
    BY <1>1, <1>5, <1>6, <1>8, <2>1, Zenon
  <2>3. CASE m = 1
    <3>1. dec' = dec
      BY <1>1, <1>6, <1>8, <2>3 DEF DecodeByte
    <3> QED BY <1>4, <1>6, <1>8, <2>2, <2>3, <3>1, Zenon
  <2>4. CASE m # 1
    <3>1. Follows(DecodeByte(dec, b), Append(c, b))
      BY <1>1, <1>2, <1>6, <1>8, <2>4, FollowsByte
    <3> QED BY <1>1, <1>4, <1>8, <2>2, <2>4, <3>1, Zenon
  <2> QED BY <2>3, <2>4
<1> QED BY <1>7, <1>8

LEMMA KissStep == TypeOK /\ KissInv /\ [Next]_vars => KissInv'
<1> SUFFICES ASSUME TypeOK, KissInv, [Next]_vars PROVE KissInv'
  OBVIOUS
<1>1. CASE \E b \in Bytes : Receive(b)
  BY <1>1, ReceiveInv
<1>2. CASE ClientChange
  <2>1. dec' = Fresh /\ frames' = <<>> /\ stream' = <<>>
    BY <1>2 DEF ClientChange
  <2>2. ~Fresh.in_frame
    BY DEF Fresh
  <2>3. Len(<<>>) + 1 = 1
    OBVIOUS
  <2> QED BY <2>1, <2>2, <2>3, KissEmpty, Zenon DEF KissInv
<1>3. CASE UNCHANGED vars
  <2>1. dec' = dec /\ frames' = frames /\ stream' = stream
    BY <1>3 DEF vars
  <2> QED BY <2>1, Zenon DEF KissInv
<1> QED BY <1>1, <1>2, <1>3 DEF Next

(* From any bytes of a client, of any length, exactly the well-formed      *)
(* stretches that fit and carry data for port 0 are handed on, unescaped   *)
(* and in order (kiss_decode_byte, bridge_kiss_handle_frame).              *)
THEOREM StretchesDecoded == Spec => []DecodesStretches
<1>1. Init => KissInv
  BY KissStart DEF Init
<1>2. KissInv => DecodesStretches
  BY DEF KissInv, DecodesStretches, FramesOf, FrameAt
<1> QED BY <1>1, <1>2, KissStep, DecoderInBounds, PTL DEF Spec

-----------------------------------------------------------------------------
(* The KISS encoder *)

Encoding == INSTANCE FoldLemmas WITH Op <- Put

(* The encoding of data byte by byte: g[k + 1] is what is written after    *)
(* byte k of it, g[1] after the command byte.                              *)
Encodes(g, data, out_size) ==
    /\ g[1] = Put([ok |-> TRUE, out |-> <<FEND>>], CMD_DATA, out_size)
    /\ \A k \in 1..Len(data) : g[k + 1] = Put(g[k], data[k], out_size)

LEMMA EncodeSteps ==
    ASSUME NEW data \in Seq(Octet), NEW out_size \in Nat, out_size >= 3
    PROVE  \E g : /\ Encodes(g, data, out_size)
                  /\ Encode(data, out_size) = CloseFrame(g[Len(data) + 1], out_size)
<1> DEFINE base == [ok |-> TRUE, out |-> <<FEND>>]
           s == <<CMD_DATA>> \o data
           n == Len(data)
<1>0. CMD_DATA \in Octet
  BY DEF CMD_DATA, Octet
<1>1. /\ n \in Nat /\ s \in Seq(Octet) /\ Len(s) = n + 1 /\ DOMAIN s = 1..Len(s)
      /\ s[1] = CMD_DATA
      /\ \A k \in 1..n : s[k + 1] = data[k] /\ k + 1 \in 1..Len(s) /\ (k + 1) - 1 = k
      /\ 1 \in 1..Len(s) /\ 1 - 1 = 0
  BY <1>0
<1> HIDE DEF s
<1>2. PICK g : /\ Encoding!Steps(g, base, s, out_size, Len(s))
               /\ Encoding!Folded(base, s, out_size) = g[Len(s)]
  BY <1>1, Encoding!FoldSteps, SMTT(30)
<1>3. Encoding!Folded(base, s, out_size) = FoldLeft(LAMBDA e, b : Put(e, b, out_size), base, s)
  BY DEF Encoding!Folded, Encoding!FoldLeft, Encoding!MapThenFoldSet, Encoding!Max,
         FoldLeft, MapThenFoldSet, Max
<1>4. Encode(data, out_size) = CloseFrame(g[n + 1], out_size)
  <2>1. ~(out_size < 3)
    OBVIOUS
  <2> QED BY <1>1, <1>2, <1>3, <2>1, Zenon DEF Encode, s
<1>5. g[0] = base /\ \A k \in 1..Len(s) : g[k] = Put(g[k - 1], s[k], out_size)
  BY <1>2 DEF Encoding!Steps
<1> HIDE DEF base, n
<1>6. g[1] = Put(base, CMD_DATA, out_size)
  BY <1>1, <1>5
<1>7. \A k \in 1..n : g[k + 1] = Put(g[k], data[k], out_size)
  BY <1>1, <1>5
<1> QED BY <1>4, <1>6, <1>7 DEF Encodes, base, n

(* The room taken after byte k. *)
Specials(data, k) == {i \in 1..k : data[i] \in {FEND, FESC}}

Room(data, k) == 2 + k + Cardinality(Specials(data, k))

LEMMA EscapedType ==
    ASSUME NEW b \in Octet
    PROVE  /\ Escaped(b) \in Seq(Octet)
           /\ Len(Escaped(b)) = IF b \in {FEND, FESC} THEN 2 ELSE 1
<1>1. FEND \in Octet /\ FESC \in Octet /\ TFEND \in Octet /\ TFESC \in Octet
  BY DEF FEND, FESC, TFEND, TFESC, Octet
<1>2. CASE b = FEND
  BY <1>1, <1>2 DEF Escaped, FEND, FESC
<1>3. CASE b = FESC
  BY <1>1, <1>3 DEF Escaped, FEND, FESC
<1>4. CASE b \notin {FEND, FESC}
  BY <1>4 DEF Escaped
<1> QED BY <1>2, <1>3, <1>4

LEMMA RoomStep ==
    ASSUME NEW data \in Seq(Octet)
    PROVE  /\ Room(data, 0) = 2
           /\ \A k \in 0..Len(data) : Room(data, k) \in 2..(2 + 2 * k)
           /\ \A k \in 1..Len(data) : Room(data, k) = Room(data, k - 1) + Len(Escaped(data[k]))
           /\ Needed(data) = Room(data, Len(data)) + 1
<1>1. Len(data) \in Nat /\ DOMAIN data = 1..Len(data)
  OBVIOUS
<1>2. \A k \in Nat : /\ IsFiniteSet(Specials(data, k)) /\ Cardinality(Specials(data, k)) \in Nat
                     /\ Cardinality(Specials(data, k)) <= k
  <2>1. ASSUME NEW k \in Nat
        PROVE  /\ IsFiniteSet(Specials(data, k)) /\ Cardinality(Specials(data, k)) \in Nat
               /\ Cardinality(Specials(data, k)) <= k
    <3>1. IsFiniteSet(1..k) /\ Cardinality(1..k) = k
      BY FS_Interval
    <3>2. Specials(data, k) \subseteq 1..k
      BY DEF Specials
    <3> QED BY <3>1, <3>2, FS_Subset, FS_CardinalityType
  <2> QED BY <2>1
<1>3. Room(data, 0) = 2
  <2>1. Cardinality(Specials(data, 0)) = 0
    BY <1>2
  <2> QED BY <2>1 DEF Room
<1>4. \A k \in 0..Len(data) : Room(data, k) \in 2..(2 + 2 * k)
  <2>1. ASSUME NEW k \in 0..Len(data) PROVE Room(data, k) \in 2..(2 + 2 * k)
    <3>1. k \in Nat
      BY <1>1
    <3> DEFINE c == Cardinality(Specials(data, k))
    <3>2. c \in Nat /\ c <= k
      BY <1>2, <3>1
    <3>3. Room(data, k) = 2 + k + c
      BY DEF Room
    <3> HIDE DEF c
    <3> QED BY <3>1, <3>2, <3>3
  <2> QED BY <2>1
<1>5. ASSUME NEW k \in 1..Len(data)
      PROVE  Room(data, k) = Room(data, k - 1) + Len(Escaped(data[k]))
  <2>1. k \in Nat /\ k - 1 \in Nat /\ data[k] \in Octet /\ k \notin Specials(data, k - 1)
    BY <1>1 DEF Specials
  <2>2. Len(Escaped(data[k])) = IF data[k] \in {FEND, FESC} THEN 2 ELSE 1
    BY <2>1, EscapedType
  <2>3. \A i \in 1..k : i = k \/ i \in 1..(k - 1)
    BY <2>1
  <2>4. k \in 1..k /\ \A i \in 1..(k - 1) : i \in 1..k
    BY <2>1
  <2>5. CASE data[k] \in {FEND, FESC}
    <3>1. Specials(data, k) = Specials(data, k - 1) \cup {k}
      BY <2>3, <2>4, <2>5, Zenon DEF Specials
    <3>2. Cardinality(Specials(data, k)) = Cardinality(Specials(data, k - 1)) + 1
      BY <1>2, <2>1, <3>1, FS_AddElement
    <3>3. Cardinality(Specials(data, k - 1)) \in Nat
      BY <1>2, <2>1
    <3> QED BY <2>1, <2>2, <2>5, <3>2, <3>3 DEF Room
  <2>6. CASE data[k] \notin {FEND, FESC}
    <3>1. Specials(data, k) = Specials(data, k - 1)
      BY <2>3, <2>4, <2>6, Zenon DEF Specials
    <3> QED BY <1>2, <2>1, <2>2, <2>6, <3>1 DEF Room
  <2> QED BY <2>5, <2>6
<1>6. Needed(data) = Room(data, Len(data)) + 1
  <2>1. {i \in DOMAIN data : data[i] \in {FEND, FESC}} = Specials(data, Len(data))
    BY <1>1 DEF Specials
  <2>2. Needed(data) = 3 + Len(data) + Cardinality(Specials(data, Len(data)))
    BY <2>1 DEF Needed
  <2> QED BY <1>1, <1>2, <2>2 DEF Room
<1> QED BY <1>3, <1>4, <1>5, <1>6

(* What was written takes this room, unless there is not so much. *)
Stored(e, room, out_size) ==
    /\ room <= out_size => e.ok /\ e.out \in Seq(Octet) /\ Len(e.out) = room
    /\ room > out_size => e = NoSpace

LEMMA PutFits ==
    ASSUME NEW e, NEW room \in Nat, NEW out_size \in Nat, Stored(e, room, out_size), NEW b \in Octet
    PROVE  /\ Stored(Put(e, b, out_size), room + Len(Escaped(b)), out_size)
           /\ room + Len(Escaped(b)) <= out_size =>
                  Put(e, b, out_size) = [ok |-> TRUE, out |-> e.out \o Escaped(b)]
<1> DEFINE x == Escaped(b)
           r == Put(e, b, out_size)
<1>1. x \in Seq(Octet) /\ Len(x) \in Nat
  BY EscapedType
<1>2. ~NoSpace.ok
  BY DEF NoSpace
<1> HIDE DEF x
<1>3. CASE room > out_size
  <2>1. e = NoSpace
    BY <1>3 DEF Stored
  <2>2. r = NoSpace
    BY <1>2, <2>1, Zenon DEF Put
  <2>3. room + Len(x) > out_size /\ ~(room + Len(x) <= out_size)
    BY <1>1, <1>3
  <2> QED BY <2>2, <2>3, Zenon DEF Stored, x
<1>4. CASE room <= out_size /\ room + Len(x) > out_size
  <2>1. Len(e.out) = room
    BY <1>4 DEF Stored
  <2>2. r = NoSpace
    BY <1>4, <2>1 DEF Put, x
  <2>3. ~(room + Len(x) <= out_size)
    BY <1>1, <1>4
  <2> QED BY <2>2, <2>3, Zenon DEF Stored, x
<1>5. CASE room + Len(x) <= out_size
  <2>1. room <= out_size /\ ~(room + Len(x) > out_size)
    BY <1>1, <1>5
  <2>2. e.ok /\ e.out \in Seq(Octet) /\ Len(e.out) = room
    BY <2>1, Zenon DEF Stored
  <2>3. r = [ok |-> TRUE, out |-> e.out \o x]
    BY <2>1, <2>2, Zenon DEF Put, x
  <2>4. e.out \o x \in Seq(Octet) /\ Len(e.out \o x) = room + Len(x)
    BY <1>1, <2>2, ConcatProperties
  <2>5. r.ok = TRUE /\ r.out = e.out \o x
    BY <2>3
  <2> QED BY <2>1, <2>3, <2>4, <2>5, Zenon DEF Stored, x
<1>6. room > out_size \/ (room <= out_size /\ room + Len(x) > out_size) \/ room + Len(x) <= out_size
  BY <1>1
<1> QED BY <1>3, <1>4, <1>5, <1>6

LEMMA EncodesFits ==
    ASSUME NEW data \in Seq(Octet), NEW out_size \in Nat, out_size >= 3, NEW g,
           Encodes(g, data, out_size)
    PROVE  \A k \in 0..Len(data) : Stored(g[k + 1], Room(data, k), out_size)
<1> DEFINE n == Len(data)
           P == {k \in 0..n : Stored(g[k + 1], Room(data, k), out_size)}
<1>1. n \in Nat
  OBVIOUS
<1>2. 0 \in P
  <2> DEFINE e == [ok |-> TRUE, out |-> <<FEND>>]
  <2>1. FEND \in Octet /\ CMD_DATA \in Octet /\ CMD_DATA \notin {FEND, FESC}
    BY DEF FEND, FESC, CMD_DATA, Octet
  <2>2. Stored(e, 1, out_size)
    <3>1. e.ok = TRUE /\ e.out = <<FEND>>
      OBVIOUS
    <3>2. <<FEND>> \in Seq(Octet) /\ Len(<<FEND>>) = 1 /\ ~(1 > out_size)
      BY <2>1
    <3> QED BY <3>1, <3>2, Zenon DEF Stored
  <2> HIDE DEF e
  <2>3. 1 + Len(Escaped(CMD_DATA)) = 2
    <3>1. Len(Escaped(CMD_DATA)) = 1
      BY <2>1, EscapedType, Zenon
    <3> QED BY <3>1
  <2>4. Stored(Put(e, CMD_DATA, out_size), 2, out_size)
    BY <2>1, <2>2, <2>3, PutFits
  <2>5. g[1] = Put(e, CMD_DATA, out_size)
    BY DEF Encodes, e
  <2>6. 0 + 1 = 1 /\ 0 \in 0..n /\ Room(data, 0) = 2
    BY <1>1, RoomStep
  <2> QED BY <2>4, <2>5, <2>6
<1>3. ASSUME NEW k \in 0..(n - 1), k \in P PROVE k + 1 \in P
  <2>1. k + 1 \in 1..n /\ k + 1 \in 0..n /\ (k + 1) - 1 = k /\ k \in 0..n /\ data[k + 1] \in Octet
    BY <1>1
  <2>2. Room(data, k) \in Nat
    BY <2>1, RoomStep
  <2>3. Stored(g[k + 1], Room(data, k), out_size)
    BY <1>3
  <2>4. g[(k + 1) + 1] = Put(g[k + 1], data[k + 1], out_size)
    BY <2>1 DEF Encodes
  <2>5. Room(data, k + 1) = Room(data, k) + Len(Escaped(data[k + 1]))
    BY <2>1, RoomStep
  <2>6. Stored(g[(k + 1) + 1], Room(data, k + 1), out_size)
    BY <2>1, <2>2, <2>3, <2>4, <2>5, PutFits
  <2> QED BY <2>1, <2>6
<1> HIDE DEF P
<1>4. \A k \in 0..n : k \in P
  BY <1>1, <1>2, <1>3, UpTo
<1> QED BY <1>4 DEF P

(* The encoder succeeds exactly if there is room for all. *)
LEMMA EncodeRoom ==
    ASSUME NEW data \in Seq(Octet), NEW out_size \in Nat
    PROVE  /\ Encode(data, out_size).ok = (Needed(data) <= out_size)
           /\ Len(Encode(data, out_size).out) <= out_size
<1> DEFINE r == Encode(data, out_size)
           n == Len(data)
           room == Room(data, n)
<1>0. n \in Nat /\ n \in 0..n
  OBVIOUS
<1>1. Needed(data) = room + 1 /\ room \in 2..(2 + 2 * n)
  BY <1>0, RoomStep
<1>2. room \in Nat /\ room >= 2
  BY <1>0, <1>1
<1>3. NoSpace.ok = FALSE /\ Len(NoSpace.out) = 0
  BY DEF NoSpace
<1> HIDE DEF r, room
<1>4. CASE r = NoSpace /\ ~(room + 1 <= out_size)
  <2>1. r.ok = FALSE /\ Len(r.out) = 0
    BY <1>3, <1>4
  <2>2. (Needed(data) <= out_size) = FALSE
    BY <1>1, <1>4
  <2>3. Len(r.out) <= out_size
    BY <2>1
  <2> QED BY <2>1, <2>2, <2>3, Zenon DEF r
<1>5. CASE out_size < 3
  <2>1. r = NoSpace
    BY <1>5 DEF r, Encode
  <2> QED BY <1>2, <1>4, <1>5, <2>1
<1>6. CASE out_size >= 3
  <2>1. PICK g : Encodes(g, data, out_size) /\ r = CloseFrame(g[n + 1], out_size)
    BY <1>6, EncodeSteps DEF r
  <2> DEFINE e == g[n + 1]
  <2>2. Stored(e, room, out_size)
    BY <1>0, <1>6, <2>1, EncodesFits DEF room
  <2> HIDE DEF e
  <2>3. r = CloseFrame(e, out_size)
    BY <2>1 DEF e
  <2>4. CASE room > out_size
    <3>1. e = NoSpace
      BY <2>2, <2>4 DEF Stored
    <3>2. r = NoSpace
      BY <1>3, <2>3, <3>1 DEF CloseFrame
    <3> QED BY <1>2, <1>4, <2>4, <3>2
  <2>5. CASE room = out_size
    <3>1. Len(e.out) = room
      BY <1>2, <2>2, <2>5 DEF Stored
    <3>2. r = NoSpace
      BY <1>2, <2>3, <2>5, <3>1 DEF CloseFrame
    <3> QED BY <1>2, <1>4, <2>5, <3>2
  <2>6. CASE room < out_size
    <3>1. room <= out_size /\ ~(room + 1 > out_size) /\ room + 1 <= out_size
      BY <1>2, <2>6
    <3>2. e.ok /\ e.out \in Seq(Octet) /\ Len(e.out) = room
      BY <2>2, <3>1, Zenon DEF Stored
    <3>3. r = [ok |-> TRUE, out |-> Append(e.out, FEND)]
      BY <2>3, <3>1, <3>2, Zenon DEF CloseFrame
    <3>4. r.ok = TRUE /\ r.out = Append(e.out, FEND)
      BY <3>3
    <3>5. FEND \in Octet
      BY DEF FEND, Octet
    <3>6. Len(r.out) = room + 1
      BY <3>2, <3>4, <3>5
    <3> QED BY <1>1, <3>1, <3>4, <3>6 DEF r
  <2> QED BY <1>2, <2>4, <2>5, <2>6
<1> QED BY <1>5, <1>6

(* For any bytes and any buffer, kiss_encode_data_frame reports success    *)
(* exactly if the whole frame fits and never writes past the buffer.       *)
THEOREM EncoderFits == Spec => []EncodeFits
<1>1. TypeOK => EncodeFits
  <2> SUFFICES ASSUME TypeOK PROVE EncodeFits
    OBVIOUS
  <2>1. stream \in Seq(Octet)
    <3>1. stream \in Seq(Bytes)
      BY DEF TypeOK
    <3> QED BY <3>1, OctetsOf
  <2>2. Needed(stream) \in Nat
    <3>1. Len(stream) \in 0..Len(stream)
      BY <2>1
    <3> QED BY <2>1, <3>1, RoomStep
  <2>3. ASSUME NEW out_size \in 0..(Needed(stream) + 1)
        PROVE  /\ Encode(stream, out_size).ok = (Needed(stream) <= out_size)
               /\ Len(Encode(stream, out_size).out) <= out_size
    <3>1. out_size \in Nat
      BY <2>2
    <3> QED BY <2>1, <3>1, EncodeRoom
  <2> QED BY <2>3 DEF EncodeFits
<1> QED BY <1>1, DecoderInBounds, PTL

-----------------------------------------------------------------------------
(* The encoder and the decoder *)

DeliverEach(a, b, c) == Deliver(a, b)

Delivering == INSTANCE FoldLemmas WITH Op <- DeliverEach

(* The decoder after the bytes s, and one byte more. *)
Through(a, s) == FoldLeft(Deliver, a, s)

LEMMA ThroughSteps ==
    ASSUME NEW a
    PROVE  /\ Through(a, <<>>) = a
           /\ \A s \in Seq(Octet) : \A b \in Octet :
                 Through(a, Append(s, b)) = Deliver(Through(a, s), b)
<1>1. \A s : Delivering!Folded(a, s, 0) = Through(a, s)
  BY DEF Delivering!Folded, Delivering!FoldLeft, Delivering!MapThenFoldSet, Delivering!Max,
         FoldLeft, MapThenFoldSet, Max, DeliverEach, Through
<1>2. Delivering!Folded(a, <<>>, 0) = a
  BY Delivering!FoldEmpty
<1>3. ASSUME NEW s \in Seq(Octet), NEW b \in Octet
      PROVE  Delivering!Folded(a, Append(s, b), 0) = DeliverEach(Delivering!Folded(a, s, 0), b, 0)
  BY Delivering!FoldAppend
<1> QED BY <1>1, <1>2, <1>3 DEF DeliverEach

(* Within a frame, with what was handed on before. *)
Within(buf, out) == [d |-> [in_frame |-> TRUE, escaped |-> FALSE, buf |-> buf], out |-> out]

(* The escapes of the encoder are undone by the decoder. *)
LEMMA DeliverEscaped ==
    ASSUME NEW buf \in Seq(Octet), Len(buf) < MaxFrame, NEW out \in Seq(Seq(Octet)),
           NEW b \in Octet, NEW a, NEW s \in Seq(Octet), Through(a, s) = Within(buf, out)
    PROVE  Through(a, s \o Escaped(b)) = Within(Append(buf, b), out)
<1> DEFINE d == [in_frame |-> TRUE, escaped |-> FALSE, buf |-> buf]
           x == [in_frame |-> TRUE, escaped |-> TRUE, buf |-> buf]
           r == Through(a, s)
<1>1. /\ FEND \in Octet /\ FESC \in Octet /\ TFEND \in Octet /\ TFESC \in Octet
      /\ TFEND # FEND /\ TFESC # FEND /\ FESC # FEND /\ TFEND # TFESC
      /\ TFEND # FESC /\ TFESC # FESC
  BY DEF FEND, FESC, TFEND, TFESC, Octet
<1>2. out \o <<>> = out
  BY ConcatEmptySeq
<1>3. ~(Len(buf) >= MaxFrame)
  BY SizesAssumption
<1>4. r.d = d /\ r.out = out
  BY DEF Within
<1>5. \A e, y : y # FEND => Handled(e, y) = <<>>
  BY Zenon DEF Handled, Completes
<1>6. CASE b \notin {FEND, FESC}
  <2>1. s \o Escaped(b) = Append(s, b)
    <3>1. Escaped(b) = <<b>>
      BY <1>6 DEF Escaped
    <3> QED BY <3>1, AppendIsConcat
  <2>2. Through(a, Append(s, b)) = Deliver(r, b)
    BY ThroughSteps
  <2>3. DecodeByte(d, b) = [in_frame |-> TRUE, escaped |-> FALSE, buf |-> Append(buf, b)]
    BY <1>3, <1>6 DEF DecodeByte, Store
  <2>4. Deliver(r, b) = [d |-> DecodeByte(d, b), out |-> out]
    <3> HIDE DEF d, r
    <3> QED BY <1>2, <1>4, <1>5, <1>6 DEF Deliver
  <2> QED BY <2>1, <2>2, <2>3, <2>4 DEF Within
<1>7. ASSUME NEW y \in {TFEND, TFESC}, Escaped(b) = <<FESC, y>>,
             DecodeByte(x, y) = [in_frame |-> TRUE, escaped |-> FALSE, buf |-> Append(buf, b)]
      PROVE  Through(a, s \o Escaped(b)) = Within(Append(buf, b), out)
  <2>1. s \o Escaped(b) = Append(Append(s, FESC), y) /\ Append(s, FESC) \in Seq(Octet) /\ y \in Octet
    BY <1>1, <1>7
  <2>2. Through(a, Append(s, FESC)) = Deliver(r, FESC)
    BY <1>1, ThroughSteps
  <2>3. DecodeByte(d, FESC) = x
    BY <1>1 DEF DecodeByte
  <2>4. Deliver(r, FESC) = [d |-> x, out |-> out]
    <3> HIDE DEF d, r, x
    <3> QED BY <1>1, <1>2, <1>4, <1>5, <2>3 DEF Deliver
  <2>5. Through(a, Append(Append(s, FESC), y)) = Deliver([d |-> x, out |-> out], y)
    <3> HIDE DEF x, r
    <3>1. Through(a, Append(Append(s, FESC), y)) = Deliver(Through(a, Append(s, FESC)), y)
      BY <2>1, ThroughSteps
    <3> QED BY <2>2, <2>4, <3>1
  <2>6. Deliver([d |-> x, out |-> out], y) = [d |-> DecodeByte(x, y), out |-> out]
    <3> HIDE DEF x
    <3>1. y # FEND
      BY <1>1
    <3> QED BY <1>2, <1>5, <3>1 DEF Deliver
  <2> HIDE DEF x
  <2> QED BY <1>7, <2>1, <2>5, <2>6 DEF Within
<1>8. CASE b = FEND
  <2>1. Escaped(b) = <<FESC, TFEND>>
    BY <1>1, <1>8 DEF Escaped
  <2>2. DecodeByte(x, TFEND) = [in_frame |-> TRUE, escaped |-> FALSE, buf |-> Append(buf, b)]
    BY <1>1, <1>3, <1>8 DEF DecodeByte, Unescape, Store
  <2> QED BY <1>7, <2>1, <2>2
<1>9. CASE b = FESC
  <2>1. Escaped(b) = <<FESC, TFESC>>
    BY <1>1, <1>9 DEF Escaped
  <2>2. DecodeByte(x, TFESC) = [in_frame |-> TRUE, escaped |-> FALSE, buf |-> Append(buf, b)]
    BY <1>1, <1>3, <1>9 DEF DecodeByte, Unescape, Store
  <2> QED BY <1>7, <2>1, <2>2
<1> QED BY <1>6, <1>8, <1>9

(* What is in the buffer after byte k of data. *)
Holds(buf, data, k) ==
    /\ buf \in Seq(Octet) /\ Len(buf) = k + 1 /\ buf[1] = CMD_DATA
    /\ \A i \in 1..k : buf[i + 1] = data[i]

LEMMA HoldsMore ==
    ASSUME NEW data \in Seq(Octet), NEW k \in 0..(Len(data) - 1), NEW buf, Holds(buf, data, k)
    PROVE  Holds(Append(buf, data[k + 1]), data, k + 1)
<1>1. Len(data) \in Nat /\ k \in Nat /\ data[k + 1] \in Octet
  OBVIOUS
<1> DEFINE t == Append(buf, data[k + 1])
<1>2. buf \in Seq(Octet) /\ Len(buf) = k + 1 /\ buf[1] = CMD_DATA
      /\ \A i \in 1..k : buf[i + 1] = data[i]
  BY DEF Holds
<1>3. t \in Seq(Octet) /\ Len(t) = (k + 1) + 1 /\ t[(k + 1) + 1] = data[k + 1]
      /\ \A i \in 1..(k + 1) : t[i] = buf[i]
  BY <1>1, <1>2
<1> HIDE DEF t
<1>4. t[1] = CMD_DATA
  BY <1>1, <1>2, <1>3
<1>5. ASSUME NEW i \in 1..(k + 1) PROVE t[i + 1] = data[i]
  <2>1. CASE i \in 1..k
    <3>1. i + 1 \in 1..(k + 1)
      BY <1>1, <2>1
    <3> QED BY <1>2, <1>3, <2>1, <3>1
  <2>2. CASE i = k + 1
    BY <1>3, <2>2
  <2> QED BY <1>1, <2>1, <2>2
<1> QED BY <1>3, <1>4, <1>5 DEF Holds, t

(* The encoding so far puts the data so far into the decoder. *)
LEMMA EncodingDecoded ==
    ASSUME NEW data \in Seq(Octet), Len(data) < MaxFrame, NEW g,
           Encodes(g, data, 3 + 2 * Len(data)), NEW d \in Decoder
    PROVE  \A k \in 0..Len(data) : \E buf :
               /\ Holds(buf, data, k)
               /\ Through([d |-> d, out |-> <<>>], g[k + 1].out) = Within(buf, Handled(d, FEND))
<1> DEFINE n == Len(data)
           size == 3 + 2 * n
           a == [d |-> d, out |-> <<>>]
           h == Handled(d, FEND)
           Good(k) == \E buf : Holds(buf, data, k) /\ Through(a, g[k + 1].out) = Within(buf, h)
           P == {k \in 0..n : Good(k)}
<1>1. n \in Nat /\ size \in Nat /\ size >= 3 /\ MaxFrame \in Nat /\ n < MaxFrame
  BY SizesAssumption
<1>2. h \in Seq(Seq(Octet))
  BY HandledType
<1>3. /\ FEND \in Octet /\ CMD_DATA \in Octet /\ CMD_DATA \notin {FEND, FESC}
  BY DEF FEND, FESC, CMD_DATA, Octet
<1>4. \A k \in 0..n : Stored(g[k + 1], Room(data, k), size)
  BY <1>1, EncodesFits
<1>5. \A k \in 0..n : Room(data, k) \in Nat /\ Room(data, k) <= size
  <2>1. ASSUME NEW k \in 0..n PROVE Room(data, k) \in Nat /\ Room(data, k) <= size
    <3>1. Room(data, k) \in 2..(2 + 2 * k)
      BY RoomStep
    <3> HIDE DEF n
    <3> QED BY <1>1, <3>1
  <2> QED BY <2>1
<1> HIDE DEF h
<1>6. 0 \in P
  <2> DEFINE e == [ok |-> TRUE, out |-> <<FEND>>]
  <2>1. Through(a, <<FEND>>) = Within(<<>>, h)
    <3>1. <<FEND>> = Append(<<>>, FEND) /\ <<>> \in Seq(Octet)
      OBVIOUS
    <3>2. Through(a, <<FEND>>) = Deliver(a, FEND)
      <4> HIDE DEF a
      <4>1. Through(a, <<>>) = a
        BY ThroughSteps
      <4>2. Through(a, Append(<<>>, FEND)) = Deliver(Through(a, <<>>), FEND)
        BY <1>3, <3>1, ThroughSteps, Zenon
      <4> QED BY <3>1, <4>1, <4>2, Zenon
    <3>3. DecodeByte(d, FEND) = [in_frame |-> TRUE, escaped |-> FALSE, buf |-> <<>>]
      BY DEF DecodeByte, AfterFend, FrameStart, FEND, FESC
    <3>4. <<>> \o h = h
      BY <1>2, ConcatEmptySeq
    <3>5. a.d = d /\ a.out = <<>>
      OBVIOUS
    <3> HIDE DEF a
    <3>6. Deliver(a, FEND) = [d |-> DecodeByte(d, FEND), out |-> h]
      BY <3>4, <3>5 DEF Deliver, h
    <3> QED BY <3>2, <3>3, <3>6 DEF Within
  <2>2. Stored(e, 1, size)
    <3>1. e.ok = TRUE /\ e.out = <<FEND>>
      OBVIOUS
    <3>2. <<FEND>> \in Seq(Octet) /\ Len(<<FEND>>) = 1 /\ ~(1 > size)
      BY <1>1, <1>3
    <3> QED BY <3>1, <3>2, Zenon DEF Stored
  <2>3. Escaped(CMD_DATA) = <<CMD_DATA>>
    BY <1>3 DEF Escaped
  <2>4. 1 + Len(Escaped(CMD_DATA)) <= size
    BY <1>1, <2>3
  <2>5. g[1] = [ok |-> TRUE, out |-> <<FEND>> \o Escaped(CMD_DATA)]
    <3>1. e.out = <<FEND>>
      OBVIOUS
    <3>2. g[1] = Put(e, CMD_DATA, size)
      BY DEF Encodes
    <3> HIDE DEF e, size
    <3>3. 1 \in Nat /\ size \in Nat
      BY <1>1
    <3>4. 1 + Len(Escaped(CMD_DATA)) <= size =>
              Put(e, CMD_DATA, size) = [ok |-> TRUE, out |-> e.out \o Escaped(CMD_DATA)]
      BY <1>3, <2>2, <3>3, PutFits, Zenon
    <3> QED BY <2>4, <3>1, <3>2, <3>4, Zenon
  <2>6. Through(a, <<FEND>> \o Escaped(CMD_DATA)) = Within(Append(<<>>, CMD_DATA), h)
    <3>1. <<>> \in Seq(Octet) /\ Len(<<>>) < MaxFrame /\ <<FEND>> \in Seq(Octet)
      BY <1>1, <1>3
    <3> DEFINE none == <<>>
               one == <<FEND>>
    <3>2. none \in Seq(Octet) /\ Len(none) < MaxFrame /\ one \in Seq(Octet)
          /\ Through(a, one) = Within(none, h)
      BY <2>1, <3>1
    <3> HIDE DEF a, none, one
    <3>3. Through(a, one \o Escaped(CMD_DATA)) = Within(Append(none, CMD_DATA), h)
      BY <1>2, <1>3, <3>2, DeliverEscaped
    <3> QED BY <3>3 DEF none, one
  <2>7. Holds(Append(<<>>, CMD_DATA), data, 0)
    BY <1>3 DEF Holds
  <2>8. g[0 + 1].out = <<FEND>> \o Escaped(CMD_DATA)
    BY <2>5
  <2>9. Good(0)
    <3> HIDE DEF a
    <3> QED BY <2>6, <2>7, <2>8
  <2> HIDE DEF Good
  <2> QED BY <1>1, <2>9
<1>7. ASSUME NEW k \in 0..(n - 1), k \in P PROVE k + 1 \in P
  <2> HIDE DEF a, size
  <2>1. k + 1 \in 1..n /\ k + 1 \in 0..n /\ k \in 0..n /\ (k + 1) - 1 = k /\ k + 1 < MaxFrame
        /\ data[k + 1] \in Octet
    BY <1>1
  <2>2. PICK buf : Holds(buf, data, k) /\ Through(a, g[k + 1].out) = Within(buf, h)
    BY <1>7
  <2>3. Holds(Append(buf, data[k + 1]), data, k + 1)
    BY <2>2, HoldsMore
  <2>4. buf \in Seq(Octet) /\ Len(buf) < MaxFrame
    BY <2>1, <2>2 DEF Holds
  <2>5. g[k + 1].out \in Seq(Octet) /\ Stored(g[k + 1], Room(data, k), size) /\ Room(data, k) \in Nat
    BY <1>4, <1>5, <2>1 DEF Stored
  <2>6. Room(data, k) + Len(Escaped(data[k + 1])) <= size
    <3>1. Room(data, k + 1) = Room(data, k) + Len(Escaped(data[k + 1]))
      BY <2>1, RoomStep
    <3> QED BY <1>5, <2>1, <3>1
  <2>7. g[(k + 1) + 1] = Put(g[k + 1], data[k + 1], size)
    BY <2>1 DEF Encodes, size
  <2>8. g[(k + 1) + 1] = [ok |-> TRUE, out |-> g[k + 1].out \o Escaped(data[k + 1])]
    <3> DEFINE e == g[k + 1]
               b == data[k + 1]
               room == Room(data, k)
    <3>1. room \in Nat /\ Stored(e, room, size) /\ b \in Octet /\ room + Len(Escaped(b)) <= size
      BY <2>1, <2>5, <2>6
    <3> HIDE DEF e, b, room
    <3>2. Put(e, b, size) = [ok |-> TRUE, out |-> e.out \o Escaped(b)]
      BY <1>1, <3>1, PutFits
    <3> QED BY <2>7, <3>2 DEF e, b
  <2>9. g[(k + 1) + 1].out = g[k + 1].out \o Escaped(data[k + 1])
    <3> DEFINE x == g[k + 1].out \o Escaped(data[k + 1])
               y == g[(k + 1) + 1]
    <3>1. y = [ok |-> TRUE, out |-> x]
      BY <2>8
    <3> HIDE DEF x, y
    <3>2. y.out = x
      BY <3>1
    <3> QED BY <3>2 DEF x, y
  <2>10. Through(a, g[(k + 1) + 1].out) = Within(Append(buf, data[k + 1]), h)
    BY <1>2, <2>1, <2>2, <2>4, <2>5, <2>9, DeliverEscaped
  <2>11. Good(k + 1)
    BY <2>3, <2>10
  <2> HIDE DEF Good
  <2> QED BY <2>1, <2>11
<1> HIDE DEF P, n
<1>8. \A k \in 0..n : k \in P
  BY <1>1, <1>6, <1>7, UpTo
<1> QED BY <1>8 DEF P, n, h

(* A whole encoding puts the decoder back into step and comes out of it. *)
LEMMA EncodeDecode ==
    ASSUME NEW data \in Seq(Octet), Len(data) < MaxFrame, NEW d \in Decoder
    PROVE  LET r == Through([d |-> d, out |-> <<>>], Encode(data, 3 + 2 * Len(data)).out)
           IN  r.d = FrameStart /\ r.out # <<>> /\ Last(r.out) = data
<1> DEFINE n == Len(data)
           size == 3 + 2 * n
           a == [d |-> d, out |-> <<>>]
           h == Handled(d, FEND)
           e == Encode(data, size)
<1>1. n \in Nat /\ n \in 0..n /\ size \in Nat /\ size >= 3
  OBVIOUS
<1>2. h \in Seq(Seq(Octet)) /\ FEND \in Octet
  BY HandledType DEF FEND, Octet
<1>3. PICK g : Encodes(g, data, size) /\ e = CloseFrame(g[n + 1], size)
  BY <1>1, EncodeSteps
<1> DEFINE o == g[n + 1].out
<1>4. Stored(g[n + 1], Room(data, n), size)
  BY <1>1, <1>3, EncodesFits
<1>5. Room(data, n) \in 2..(2 + 2 * n)
  BY <1>1, RoomStep
<1>6. PICK buf : Holds(buf, data, n) /\ Through(a, o) = Within(buf, h)
  BY <1>1, <1>3, EncodingDecoded
<1> HIDE DEF h, e
<1>7. e.out = Append(o, FEND) /\ o \in Seq(Octet)
  <2> HIDE DEF n
  <2>1. Room(data, n) <= size /\ ~(Room(data, n) + 1 > size)
    BY <1>1, <1>5
  <2> HIDE DEF size
  <2>2. g[n + 1].ok /\ o \in Seq(Octet) /\ Len(o) = Room(data, n)
    BY <1>4, <2>1, Zenon DEF Stored
  <2>3. e = [ok |-> TRUE, out |-> Append(o, FEND)]
    BY <1>3, <2>1, <2>2, Zenon DEF CloseFrame
  <2> QED BY <2>2, <2>3
<1> HIDE DEF a, o, n
<1>8. Through(a, e.out) = Deliver(Within(buf, h), FEND)
  <2>1. Through(a, Append(o, FEND)) = Deliver(Through(a, o), FEND)
    BY <1>2, <1>7, ThroughSteps
  <2> QED BY <1>6, <1>7, <2>1, Zenon
<1> DEFINE w == Within(buf, h)
           r == Deliver(w, FEND)
<1>9. w.d.in_frame = TRUE /\ w.d.escaped = FALSE /\ w.d.buf = buf /\ w.out = h
  BY DEF Within
<1>10. buf # <<>> /\ buf[1] % 16 = CMD_DATA /\ (buf[1] \div 16) = 0 /\ Tail(buf) = data
  <2>1. buf \in Seq(Octet) /\ Len(buf) = n + 1 /\ buf[1] = CMD_DATA
        /\ \A i \in 1..n : buf[i + 1] = data[i]
    BY <1>6 DEF Holds
  <2>2. buf # <<>>
    BY <1>1, <2>1, EmptySeq
  <2>3. /\ Tail(buf) \in Seq(Octet) /\ Len(Tail(buf)) = n
        /\ \A i \in 1..n : Tail(buf)[i] = buf[i + 1]
    BY <1>1, <2>1, <2>2, HeadTailProperties
  <2>4. Tail(buf) = data
    BY <2>1, <2>3, SeqEqual DEF n
  <2> QED BY <2>1, <2>2, <2>4 DEF CMD_DATA
<1> HIDE DEF w
<1>11. Handled(w.d, FEND) = <<data>>
  BY <1>9, <1>10, Zenon DEF Handled, Completes
<1>12. DecodeByte(w.d, FEND) = FrameStart
  BY DEF DecodeByte, AfterFend, FEND, FESC
<1>13. r.d = FrameStart /\ r.out = h \o <<data>>
  BY <1>9, <1>11, <1>12 DEF Deliver
<1>14. h \o <<data>> = Append(h, data)
  BY <1>2, AppendIsConcat
<1>15. Append(h, data) # <<>> /\ Last(Append(h, data)) = data
  <2>1. Len(h) \in Nat /\ Append(h, data) \in Seq(Seq(Octet)) /\ Len(Append(h, data)) = Len(h) + 1
        /\ Append(h, data)[Len(h) + 1] = data
    BY <1>2
  <2>2. Append(h, data) # <<>>
    <3>1. Len(<<>>) = 0 /\ Len(h) + 1 # 0
      BY <2>1
    <3> QED BY <2>1, <3>1, Zenon
  <2>3. Last(Append(h, data)) = Append(h, data)[Len(Append(h, data))]
    BY DEF Last
  <2> QED BY <2>1, <2>2, <2>3, Zenon
<1> HIDE DEF r
<1> QED BY <1>8, <1>13, <1>14, <1>15 DEF a, e, r, w, n, size

(* Whatever bytes the client sent before, what kiss_encode_data_frame      *)
(* makes of a frame is what kiss_decode_byte hands on, and afterwards the  *)
(* decoder is at the start of a frame.                                     *)
THEOREM OneFendResyncs == Spec => []Resyncs
<1>1. TypeOK => Resyncs
  <2> SUFFICES ASSUME TypeOK, NEW p \in Payloads, Len(p) < MaxFrame
               PROVE  LET e == Encode(p, 3 + 2 * Len(p)).out
                          r == FoldLeft(Deliver, [d |-> dec, out |-> <<>>], e)
                      IN  r.d = FrameStart /\ r.out # <<>> /\ Last(r.out) = p
    BY DEF Resyncs
  <2>1. p \in Seq(Octet) /\ dec \in Decoder
    BY PayloadsAssumption DEF TypeOK, Decoder, Octet
  <2> QED BY <2>1, EncodeDecode DEF Through
<1> QED BY <1>1, DecoderInBounds, PTL

-----------------------------------------------------------------------------
(* Addresses and their bits *)

LEMMA DivMod ==
    ASSUME NEW a \in Nat, NEW m \in Nat \ {0}
    PROVE  a \div m \in Nat /\ (a % m) \in 0..(m - 1) /\ a = m * (a \div m) + (a % m)
<1>1. a \div m \in Nat
  OBVIOUS
<1>2. (a % m) \in 0..(m - 1)
  OBVIOUS
<1>3. a = m * (a \div m) + (a % m)
  OBVIOUS
<1> QED BY <1>1, <1>2, <1>3

LEMMA Quotient ==
    ASSUME NEW m \in Nat \ {0}, NEW q \in Nat, NEW r \in 0..(m - 1)
    PROVE  (m * q + r) \div m = q /\ (m * q + r) % m = r
OBVIOUS

(* One bit less of a number. *)
LEMMA Halve ==
    ASSUME NEW a \in Nat, NEW m \in Nat \ {0}
    PROVE  a \div (2 * m) = (a \div m) \div 2
<1> DEFINE x == a \div m
           r == a % m
           y == x \div 2
           z == x % 2
<1>1. x \in Nat /\ r \in 0..(m - 1) /\ a = m * x + r
  BY DivMod
<1> HIDE DEF x, r
<1>2. y \in Nat /\ z \in 0..1 /\ x = 2 * y + z
  BY <1>1, DivMod
<1> HIDE DEF y, z
<1>3. m * z \in {0, m}
  BY <1>2
<1>4. m * x = (2 * m) * y + m * z
  <2>1. m * x = m * (2 * y) + m * z
    BY <1>1, <1>2
  <2>2. m * (2 * y) = (2 * m) * y
    BY <1>2
  <2> QED BY <2>1, <2>2
<1> DEFINE w == m * z + r
           mm == 2 * m
<1>5. w \in 0..(mm - 1) /\ mm \in Nat \ {0}
  BY <1>1, <1>3
<1>6. a = mm * y + w
  <2>1. m * x \in Nat /\ mm * y \in Nat /\ m * z \in Nat
    BY <1>1, <1>2, <1>3
  <2> QED BY <1>1, <1>4, <2>1
<1> HIDE DEF w, mm
<1>7. a \div mm = y
  BY <1>2, <1>5, <1>6, Quotient
<1> QED BY <1>7 DEF mm, x, y

LEMMA Pow2Exists == Pow2 = [n \in 0..Width |-> IF n = 0 THEN 1 ELSE 2 * Pow2[n - 1]]
<1> DEFINE G(k) == \E f : f = [n \in 0..k |-> IF n = 0 THEN 1 ELSE 2 * f[n - 1]]
           P == {k \in 0..Width : G(k)}
<1>1. Width \in Nat
  BY WidthAssumption
<1>2. 0 \in P
  <2>1. [n \in 0..0 |-> 1] = [n \in 0..0 |-> IF n = 0 THEN 1 ELSE 2 * [i \in 0..0 |-> 1][n - 1]]
    OBVIOUS
  <2>2. G(0)
    <3> WITNESS [n \in 0..0 |-> 1]
    <3> QED BY <2>1
  <2> HIDE DEF G
  <2> QED BY <1>1, <2>2
<1>3. ASSUME NEW k \in 0..(Width - 1), k \in P PROVE k + 1 \in P
  <2>1. k + 1 \in 0..Width /\ k \in Nat
    BY <1>1
  <2>2. PICK f : f = [n \in 0..k |-> IF n = 0 THEN 1 ELSE 2 * f[n - 1]]
    BY <1>3
  <2> DEFINE h == [n \in 0..(k + 1) |-> IF n = k + 1 THEN 2 * f[k] ELSE f[n]]
             u == [n \in 0..(k + 1) |-> IF n = 0 THEN 1 ELSE 2 * h[n - 1]]
  <2>3. ASSUME NEW n \in 0..(k + 1) PROVE h[n] = u[n]
    <3>1. CASE n = k + 1
      BY <2>1, <3>1
    <3>2. CASE n = 0
      BY <2>1, <2>2, <3>2
    <3>3. CASE n \in 1..k
      <4>1. h[n] = f[n] /\ h[n - 1] = f[n - 1] /\ n \in 0..k /\ n # 0
        BY <2>1, <3>3
      <4>2. f[n] = 2 * f[n - 1]
        BY <2>2, <4>1
      <4> QED BY <4>1, <4>2
    <3> QED BY <2>1, <3>1, <3>2, <3>3
  <2>4. h = u
    BY <2>3
  <2>5. G(k + 1)
    <3> WITNESS h
    <3> QED BY <2>4
  <2> QED BY <2>1, <2>5
<1> HIDE DEF P
<1>4. \A k \in 0..Width : k \in P
  BY <1>1, <1>2, <1>3, UpTo
<1>5. G(Width)
  <2>1. Width \in 0..Width
    BY <1>1
  <2> QED BY <1>4, <2>1, Zenon DEF P
<1> QED BY <1>5 DEF Pow2

LEMMA PowStep ==
    /\ Pow2[0] = 1
    /\ \A n \in 0..Width : Pow2[n] \in Nat \ {0}
    /\ \A n \in 1..Width : Pow2[n] = 2 * Pow2[n - 1]
<1> DEFINE P == {k \in 0..Width : Pow2[k] \in Nat \ {0}}
<1>1. Width \in Nat
  BY WidthAssumption
<1>2. ASSUME NEW n \in 0..Width PROVE Pow2[n] = IF n = 0 THEN 1 ELSE 2 * Pow2[n - 1]
  BY Pow2Exists
<1>3. Pow2[0] = 1 /\ 0 \in P
  BY <1>1, <1>2
<1>4. \A n \in 1..Width : Pow2[n] = 2 * Pow2[n - 1]
  BY <1>1, <1>2
<1>5. ASSUME NEW k \in 0..(Width - 1), k \in P PROVE k + 1 \in P
  <2>1. k + 1 \in 1..Width /\ (k + 1) - 1 = k /\ k + 1 \in 0..Width
    BY <1>1
  <2>2. Pow2[k + 1] = 2 * Pow2[k]
    BY <1>4, <2>1
  <2>3. Pow2[k] \in Nat \ {0}
    BY <1>5
  <2> QED BY <2>1, <2>2, <2>3
<1> HIDE DEF P
<1>6. \A k \in 0..Width : k \in P
  BY <1>1, <1>3, <1>5, UpTo
<1> QED BY <1>3, <1>4, <1>6 DEF P

(* A larger power is a multiple of a smaller one. *)
LEMMA PowMultiple ==
    ASSUME NEW j \in 0..Width, NEW k \in j..Width
    PROVE  \E c \in Nat \ {0} : Pow2[k] = Pow2[j] * c /\ (j < k => c >= 2)
<1> DEFINE G(d) == \E c \in Nat \ {0} : Pow2[j + d] = Pow2[j] * c /\ (d > 0 => c >= 2)
           n == Width - j
           P == {d \in 0..n : G(d)}
<1>1. Width \in Nat /\ j \in Nat /\ n \in Nat /\ k - j \in 0..n /\ j + (k - j) = k
  BY WidthAssumption
<1>2. 0 \in P
  <2>1. Pow2[j + 0] = Pow2[j] * 1
    BY <1>1, PowStep
  <2> QED BY <1>1, <2>1
<1>3. ASSUME NEW d \in 0..(n - 1), d \in P PROVE d + 1 \in P
  <2>1. d + 1 \in 0..n /\ j + (d + 1) \in 1..Width /\ (j + (d + 1)) - 1 = j + d
    BY <1>1
  <2>2. PICK c \in Nat \ {0} : Pow2[j + d] = Pow2[j] * c
    BY <1>3
  <2>3. Pow2[j + (d + 1)] = 2 * Pow2[j + d]
    BY <2>1, PowStep
  <2>4. Pow2[j] \in Nat
    BY PowStep
  <2>5. 2 * (Pow2[j] * c) = Pow2[j] * (2 * c)
    BY <2>4
  <2>6. 2 * c \in Nat \ {0} /\ 2 * c >= 2
    OBVIOUS
  <2>7. G(d + 1)
    <3> WITNESS 2 * c \in Nat \ {0}
    <3> QED BY <2>2, <2>3, <2>5, <2>6
  <2> QED BY <2>1, <2>7
<1> HIDE DEF P, n
<1>4. \A d \in 0..n : d \in P
  BY <1>1, <1>2, <1>3, UpTo
<1>5. G(k - j)
  BY <1>1, <1>4 DEF P
<1>6. j < k => k - j > 0
  BY <1>1
<1> QED BY <1>1, <1>5, <1>6

(* The first i of the w bits of a number. *)
Part(a, w, i) == a \div Pow2[w - i]

LEMMA PartStep ==
    ASSUME NEW a \in Nat, NEW w \in 0..Width, NEW i \in 1..w
    PROVE  Part(a, w, i - 1) = Part(a, w, i) \div 2 /\ Part(a, w, i) \in Nat
           /\ Part(a, w, i - 1) \in Nat
<1>1. /\ Width \in Nat /\ w - i \in 0..Width /\ w - (i - 1) \in 1..Width
      /\ (w - (i - 1)) - 1 = w - i /\ w - (i - 1) \in 0..Width
  BY WidthAssumption
<1>2. Pow2[w - (i - 1)] = 2 * Pow2[w - i] /\ Pow2[w - i] \in Nat \ {0} /\ Pow2[w - (i - 1)] \in Nat \ {0}
  BY <1>1, PowStep
<1> DEFINE m == Pow2[w - i]
           mm == Pow2[w - (i - 1)]
<1>3. m \in Nat \ {0} /\ mm = 2 * m /\ mm \in Nat \ {0}
  BY <1>2
<1>4. Part(a, w, i) = a \div m /\ Part(a, w, i - 1) = a \div mm
  BY DEF Part
<1> HIDE DEF m, mm
<1>5. a \div m \in Nat /\ a \div mm \in Nat
  BY <1>3, DivMod
<1>6. a \div (2 * m) = (a \div m) \div 2
  BY <1>3, Halve
<1> QED BY <1>3, <1>4, <1>5, <1>6

(* If the first p bits agree, so do fewer; ... *)
LEMMA FewerAgree ==
    ASSUME NEW a \in Nat, NEW b \in Nat, NEW w \in 0..Width, NEW v \in 0..Width,
           NEW p \in 0..w, p <= v, Part(a, w, p) = Part(b, v, p)
    PROVE  \A i \in 0..p : Part(a, w, i) = Part(b, v, i)
<1> DEFINE P == {d \in 0..p : Part(a, w, p - d) = Part(b, v, p - d)}
<1>1. p \in Nat /\ Width \in Nat
  BY WidthAssumption
<1>2. 0 \in P
  BY <1>1
<1>3. ASSUME NEW d \in 0..(p - 1), d \in P PROVE d + 1 \in P
  <2>1. d + 1 \in 0..p /\ p - (d + 1) = (p - d) - 1 /\ p - d \in 1..w /\ p - d \in 1..v
    BY <1>1
  <2> DEFINE i == p - d
  <2>2. Part(a, w, i) = Part(b, v, i)
    BY <1>3
  <2>3. Part(a, w, i - 1) = Part(a, w, i) \div 2 /\ Part(b, v, i - 1) = Part(b, v, i) \div 2
    BY <2>1, PartStep
  <2> QED BY <2>1, <2>2, <2>3
<1> HIDE DEF P
<1>4. \A d \in 0..p : d \in P
  BY <1>1, <1>2, <1>3, UpTo
<1>5. ASSUME NEW i \in 0..p PROVE Part(a, w, i) = Part(b, v, i)
  <2>1. p - i \in 0..p /\ p - (p - i) = i
    BY <1>1
  <2>2. Part(a, w, p - (p - i)) = Part(b, v, p - (p - i))
    BY <1>4, <2>1 DEF P
  <2> QED BY <2>1, <2>2
<1> QED BY <1>5

(* ... if they agree bit by bit, they agree. *)
LEMMA BitsAgree ==
    ASSUME NEW a \in Nat, NEW b \in Nat, NEW w \in 0..Width, NEW v \in 0..Width,
           NEW p \in 0..w, p <= v, Part(a, w, 0) = Part(b, v, 0),
           \A i \in 1..p : Part(a, w, i) % 2 = Part(b, v, i) % 2
    PROVE  Part(a, w, p) = Part(b, v, p)
<1> DEFINE P == {i \in 0..p : Part(a, w, i) = Part(b, v, i)}
<1>1. p \in Nat /\ Width \in Nat
  BY WidthAssumption
<1>2. 0 \in P
  BY <1>1
<1>3. ASSUME NEW i \in 0..(p - 1), i \in P PROVE i + 1 \in P
  <2>1. i + 1 \in 1..p /\ i + 1 \in 0..p /\ i + 1 \in 1..w /\ i + 1 \in 1..v /\ (i + 1) - 1 = i
    BY <1>1
  <2> DEFINE x == Part(a, w, i + 1)
             y == Part(b, v, i + 1)
  <2>2. x \in Nat /\ y \in Nat /\ Part(a, w, i) = x \div 2 /\ Part(b, v, i) = y \div 2
    BY <2>1, PartStep
  <2>3. x \div 2 = y \div 2 /\ (x % 2) = (y % 2)
    BY <1>3, <2>1, <2>2
  <2> HIDE DEF x, y
  <2>4. x = 2 * (x \div 2) + (x % 2) /\ y = 2 * (y \div 2) + (y % 2)
    BY <2>2, DivMod
  <2>5. x = y
    BY <2>3, <2>4
  <2> QED BY <2>1, <2>5 DEF x, y
<1> HIDE DEF P
<1>4. \A i \in 0..p : i \in P
  BY <1>1, <1>2, <1>3, UpTo
<1> QED BY <1>1, <1>4 DEF P

(* A mask keeps the first bits. *)
LEMMA MaskedPart ==
    ASSUME NEW a \in Nat, NEW p \in 0..Width
    PROVE  /\ Masked(a, p) = Pow2[Width - p] * Part(a, Width, p)
           /\ Masked(a, p) \in Nat /\ Masked(a, p) <= a
           /\ Part(a, Width, p) \in Nat
           /\ Part(Masked(a, p), Width, p) = Part(a, Width, p)
           /\ Masked(Masked(a, p), p) = Masked(a, p)
<1> DEFINE m == Pow2[Width - p]
           q == a \div m
           r == a % m
<1>1. Width - p \in 0..Width
  BY WidthAssumption
<1>2. m \in Nat \ {0}
  BY <1>1, PowStep
<1>3. Part(a, Width, p) = q /\ Masked(a, p) = a - r
  BY DEF Part, Masked
<1> HIDE DEF m
<1>4. q \in Nat /\ r \in 0..(m - 1) /\ a = m * q + r
  BY <1>2, DivMod
<1> HIDE DEF q, r
<1>5. m * q \in Nat
  BY <1>2, <1>4
<1>6. a - r = m * q /\ m * q <= a
  BY <1>2, <1>4, <1>5
<1>7. 0 \in 0..(m - 1) /\ m * q = m * q + 0
  BY <1>2, <1>5
<1>8. (m * q) \div m = q /\ (m * q) % m = 0
  BY <1>2, <1>4, <1>7, Quotient
<1>9. Part(m * q, Width, p) = (m * q) \div m /\ Masked(m * q, p) = m * q - ((m * q) % m)
  BY DEF Part, Masked, m
<1>10. m * q - 0 = m * q
  BY <1>5
<1>11. Masked(a, p) = m * q
  BY <1>3, <1>6
<1>12. Part(Masked(a, p), Width, p) = q /\ Masked(Masked(a, p), p) = m * q
  BY <1>8, <1>9, <1>10, <1>11
<1>13. Masked(a, p) \in Nat /\ Masked(a, p) <= a
  BY <1>5, <1>6, <1>11
<1> QED BY <1>3, <1>4, <1>11, <1>12, <1>13 DEF m

(* Two addresses are in the same network if their first bits agree. *)
LEMMA CidrBits ==
    ASSUME NEW a \in Nat, NEW b \in Nat, NEW p \in 0..Width
    PROVE  InCidr(a, b, p) <=> Part(a, Width, p) = Part(b, Width, p)
<1> DEFINE m == Pow2[Width - p]
           x == Part(a, Width, p)
           y == Part(b, Width, p)
<1>1. Width - p \in 0..Width
  BY WidthAssumption
<1>2. m \in Nat \ {0}
  BY <1>1, PowStep
<1>3. Masked(a, p) = m * x /\ x \in Nat /\ Masked(b, p) = m * y /\ y \in Nat
  BY MaskedPart
<1> HIDE DEF m, x, y
<1>4. m * x = m * y <=> x = y
  BY <1>2, <1>3
<1> QED BY <1>3, <1>4 DEF InCidr, x, y

LEMMA AddrNat == \A a \in IpAddrs : a \in Nat /\ a < Pow2[Width] /\ Part(a, Width, 0) = 0
<1> SUFFICES ASSUME NEW a \in IpAddrs PROVE a \in Nat /\ a < Pow2[Width] /\ Part(a, Width, 0) = 0
  OBVIOUS
<1> DEFINE m == Pow2[Width]
<1>1. m \in Nat \ {0} /\ Width - 0 = Width
  BY WidthAssumption, PowStep
<1>2. a \in 0..(m - 1)
  BY DEF IpAddrs
<1> HIDE DEF m
<1>3. a \in Nat /\ a < m /\ a = m * 0 + a
  BY <1>1, <1>2
<1>4. a \div m = 0
  BY <1>1, <1>2, <1>3, Quotient
<1> QED BY <1>1, <1>3, <1>4 DEF Part, m

(* An address is a loopback address if its first bits are LoopNet. *)
LEMMA LoopbackPart ==
    ASSUME NEW a \in IpAddrs
    PROVE  Loopback(a) <=> Part(a, Width, LoopPrefix) = LoopNet
<1> DEFINE p == LoopPrefix
           n == LoopNet
<1>1. Width \in Nat /\ p \in 0..Width /\ p \in Nat /\ n \in 0..(Pow2[p] - 1) /\ p \in 0..p /\ p <= p
      /\ Width \in 0..Width /\ p <= Width /\ p - 0 = p /\ p - p = 0
  BY WidthAssumption
<1>2. Pow2[p] \in Nat \ {0} /\ Pow2[0] = 1
  BY <1>1, PowStep
<1>3. n \in Nat
  BY <1>1, <1>2
<1>4. Part(n, p, p) = n /\ Part(n, p, 0) = 0
  <2> DEFINE m == Pow2[p]
  <2>1. Part(n, p, p) = n \div 1 /\ Part(n, p, 0) = n \div m
    BY <1>1, <1>2 DEF Part
  <2>2. m \in Nat \ {0} /\ n \in 0..(m - 1)
    BY <1>1, <1>2
  <2> HIDE DEF m, n
  <2>3. n \div 1 = n
    BY <1>3
  <2>4. n = m * 0 + n
    BY <1>3, <2>2
  <2>5. n \div m = 0
    BY <2>2, <2>4, Quotient
  <2> QED BY <2>1, <2>3, <2>5
<1>5. a \in Nat /\ Part(a, Width, 0) = 0
  BY AddrNat
<1>6. Loopback(a) <=> \A i \in 1..p : Part(a, Width, i) % 2 = Part(n, p, i) % 2
  BY DEF Loopback, Bit, Part
<1> HIDE DEF p, n
<1>7. ASSUME \A i \in 1..p : Part(a, Width, i) % 2 = Part(n, p, i) % 2
      PROVE  Part(a, Width, p) = n
  <2>1. Part(a, Width, p) = Part(n, p, p)
    BY <1>1, <1>3, <1>4, <1>5, <1>7, BitsAgree
  <2> QED BY <1>4, <2>1
<1>8. ASSUME Part(a, Width, p) = n
      PROVE  \A i \in 1..p : Part(a, Width, i) % 2 = Part(n, p, i) % 2
  <2>1. Part(a, Width, p) = Part(n, p, p)
    BY <1>4, <1>8
  <2>2. \A i \in 0..p : Part(a, Width, i) = Part(n, p, i)
    BY <1>1, <1>3, <1>5, <2>1, FewerAgree
  <2>3. \A i \in 1..p : i \in 0..p
    BY <1>1
  <2> QED BY <2>2, <2>3
<1> QED BY <1>6, <1>7, <1>8 DEF p, n

-----------------------------------------------------------------------------
(* What a bind stands for *)

(* A good bind has a prefix within the width and a network within it. *)
LEMMA BindOfGood ==
    ASSUME NEW t \in GoodBinds
    PROVE  LET p == IF BindText[t][2] < 0 THEN Width ELSE BindText[t][2]
           IN  /\ BindText[t][1] \in IpAddrs /\ p \in 0..Width
               /\ BindOf(t).prefix = p
               /\ BindOf(t).net = Masked(BindText[t][1], p)
               /\ BindOf(t).net \in IpAddrs
               /\ BindOf(t).host = ListenOn(BindOf(t).net, p)
<1> DEFINE a == BindText[t][1]
           x == BindText[t][2]
           p == IF x < 0 THEN Width ELSE x
<1>1. a \in IpAddrs /\ x \in {Unslashed} \cup 0..Width /\ Width \in Nat
  BY WidthAssumption DEF GoodBinds, GoodBind
<1>2. BindOf(t) = BindApply(a, x)
  BY DEF BindOf
<1> HIDE DEF a, x
<1>3. p \in 0..Width /\ PrefixOf(x) = p
  BY <1>1 DEF PrefixOf, Unslashed, NoDigits
<1>4. BindApply(a, x) = [net |-> Masked(a, PrefixOf(x)), prefix |-> PrefixOf(x),
                         host |-> ListenOn(Masked(a, PrefixOf(x)), PrefixOf(x))]
  BY DEF BindApply
<1> HIDE DEF p
<1>5. BindOf(t).prefix = p /\ BindOf(t).net = Masked(a, p) /\ BindOf(t).host = ListenOn(Masked(a, p), p)
  BY <1>2, <1>3, <1>4
<1>6. a \in Nat /\ a < Pow2[Width] /\ Pow2[Width] \in Nat
  BY <1>1, AddrNat, PowStep
<1>7. Masked(a, p) \in Nat /\ Masked(a, p) <= a
  BY <1>3, <1>6, MaskedPart
<1>8. Masked(a, p) \in IpAddrs
  BY <1>6, <1>7 DEF IpAddrs
<1> QED BY <1>1, <1>3, <1>5, <1>8 DEF a, x, p

(* Whoever is in the network of a bind has the first bits of its address. *)
LEMMA InBind ==
    ASSUME NEW t \in GoodBinds, NEW a \in IpAddrs, InCidr(a, BindOf(t).net, BindOf(t).prefix)
    PROVE  \A i \in 1..(IF BindText[t][2] < 0 THEN Width ELSE BindText[t][2]) :
               Bit(a, i) = Bit(BindText[t][1], i)
<1> DEFINE b == BindText[t][1]
           p == IF BindText[t][2] < 0 THEN Width ELSE BindText[t][2]
<1>1. b \in IpAddrs /\ p \in 0..Width /\ BindOf(t).prefix = p /\ BindOf(t).net = Masked(b, p)
  BY BindOfGood
<1> HIDE DEF b, p
<1>2. a \in Nat /\ b \in Nat /\ Width \in 0..Width /\ p <= Width /\ Width \in Nat /\ p \in Nat
  BY <1>1, AddrNat, WidthAssumption
<1>3. Masked(b, p) \in Nat /\ Part(Masked(b, p), Width, p) = Part(b, Width, p)
  BY <1>1, <1>2, MaskedPart
<1>4. Part(a, Width, p) = Part(b, Width, p)
  BY <1>1, <1>2, <1>3, CidrBits
<1>5. \A i \in 0..p : Part(a, Width, i) = Part(b, Width, i)
  BY <1>1, <1>2, <1>4, FewerAgree
<1>6. \A i \in 1..p : Bit(a, i) = Bit(b, i)
  <2>1. \A i \in 1..p : i \in 0..p
    BY <1>2
  <2>2. \A i : Bit(a, i) = Part(a, Width, i) % 2 /\ Bit(b, i) = Part(b, Width, i) % 2
    BY DEF Bit, Part
  <2> QED BY <1>5, <2>1, <2>2
<1> QED BY <1>6 DEF b, p

(* A network is on loopback exactly if all its addresses are: if it is     *)
(* wider than the loopback network, the address next to it is in it too.   *)
LEMMA ListenNeeded ==
    ASSUME NEW t \in GoodBinds
    PROVE  BindOf(t).host = "loopback" <=>
               \A a \in {a \in IpAddrs : InCidr(a, BindOf(t).net, BindOf(t).prefix)} : Loopback(a)
<1> DEFINE b == BindText[t][1]
           p == IF BindText[t][2] < 0 THEN Width ELSE BindText[t][2]
           net == BindOf(t).net
           lp == LoopPrefix
<1>1. /\ b \in IpAddrs /\ p \in 0..Width /\ BindOf(t).prefix = p /\ net = Masked(b, p)
      /\ net \in IpAddrs /\ BindOf(t).host = ListenOn(net, p)
  BY BindOfGood
<1>2. BindOf(t).host = "loopback" <=> Part(net, Width, lp) = LoopNet /\ p >= lp
  BY <1>1 DEF ListenOn, Part
<1> HIDE DEF b, p, net, lp
<1>3. /\ b \in Nat /\ net \in Nat /\ net < Pow2[Width] /\ Width \in Nat /\ Width \in 0..Width
      /\ p \in Nat /\ p <= Width /\ lp \in 0..Width /\ lp \in Nat /\ LoopNet \in Int
  BY <1>1, AddrNat, WidthAssumption DEF lp
<1>4. ASSUME Part(net, Width, lp) = LoopNet, p >= lp, NEW a \in IpAddrs, InCidr(a, net, p)
      PROVE  Loopback(a)
  <2>1. a \in Nat
    BY AddrNat
  <2>2. Part(a, Width, p) = Part(net, Width, p)
    BY <1>1, <1>3, <1>4, <2>1, CidrBits
  <2>3. \A i \in 0..p : Part(a, Width, i) = Part(net, Width, i)
    BY <1>1, <1>3, <2>1, <2>2, FewerAgree
  <2>4. lp \in 0..p
    BY <1>3, <1>4
  <2>5. Part(a, Width, lp) = LoopNet
    BY <1>4, <2>3, <2>4
  <2> QED BY <2>5, LoopbackPart DEF lp
<1>5. ASSUME \A a \in IpAddrs : InCidr(a, net, p) => Loopback(a)
      PROVE  Part(net, Width, lp) = LoopNet /\ p >= lp
  <2>1. InCidr(net, net, p)
    BY DEF InCidr
  <2>2. Part(net, Width, lp) = LoopNet
    BY <1>1, <1>5, <2>1, LoopbackPart DEF lp
  <2>3. ASSUME p < lp PROVE FALSE
    <3> DEFINE m == Pow2[Width - p]
               u == Pow2[Width - lp]
               y == Part(net, Width, p)
               q == Part(net, Width, lp)
               a == net + u
    <3>1. Width - p \in 0..Width /\ Width - lp \in 0..Width /\ Width - p \in (Width - lp)..Width
          /\ Width - lp < Width - p /\ Width \in (Width - p)..Width
      BY <1>1, <1>3, <2>3
    <3>2. m \in Nat \ {0} /\ u \in Nat \ {0}
      BY <3>1, PowStep
    <3>3. PICK c \in Nat \ {0} : m = u * c /\ c >= 2
      BY <3>1, PowMultiple
    <3>4. PICK e \in Nat \ {0} : Pow2[Width] = m * e
      BY <3>1, PowMultiple
    <3>5. net = m * y /\ y \in Nat
      <4>1. Masked(b, p) = m * Part(b, Width, p) /\ Part(Masked(b, p), Width, p) = Part(b, Width, p)
            /\ Part(b, Width, p) \in Nat
        BY <1>1, <1>3, MaskedPart
      <4> QED BY <1>1, <4>1
    <3>6. q \in Nat /\ q = net \div u
      <4>1. q = net \div u
        BY DEF Part
      <4> HIDE DEF u, q
      <4> QED BY <1>3, <3>2, <4>1, DivMod
    <3> HIDE DEF m, u, y, q
    <3>7. u < m
      BY <3>2, <3>3
    <3>8. a \in IpAddrs
      <4>1. y < e
        BY <1>3, <3>2, <3>4, <3>5
      <4>2. m * y + m <= m * e
        BY <3>2, <3>5, <4>1
      <4>3. m * y \in Nat /\ m * e \in Nat
        BY <3>2, <3>5
      <4>4. a \in Nat /\ a < Pow2[Width]
        BY <3>2, <3>4, <3>5, <3>7, <4>2, <4>3
      <4> QED BY <3>4, <4>3, <4>4 DEF IpAddrs
    <3>9. Part(a, Width, p) = y
      <4>1. a = m * y + u /\ u \in 0..(m - 1)
        BY <3>2, <3>5, <3>7
      <4>2. (m * y + u) \div m = y
        BY <3>2, <3>5, <4>1, Quotient
      <4>3. Part(a, Width, p) = a \div m
        BY DEF Part, m
      <4> QED BY <4>1, <4>2, <4>3
    <3>10. InCidr(a, net, p)
      <4>1. a \in Nat
        BY <1>3, <3>2
      <4>2. Part(net, Width, p) = y
        BY DEF y
      <4> HIDE DEF a
      <4> QED BY <1>1, <1>3, <3>9, <4>1, <4>2, CidrBits
    <3>11. Part(a, Width, lp) = q + 1
      <4> DEFINE r == net % u
      <4>1. net = u * q + r /\ r \in 0..(u - 1)
        BY <1>3, <3>2, <3>6, DivMod
      <4> HIDE DEF r
      <4>2. u * (q + 1) = u * q + u /\ u * q \in Nat
        BY <3>2, <3>6
      <4>3. a = u * (q + 1) + r
        BY <3>2, <4>1, <4>2
      <4>4. (u * (q + 1) + r) \div u = q + 1
        <5>1. q + 1 \in Nat
          BY <3>6
        <5> QED BY <3>2, <4>1, <5>1, Quotient, Zenon
      <4>5. Part(a, Width, lp) = a \div u
        BY DEF Part, u
      <4> QED BY <4>3, <4>4, <4>5
    <3> HIDE DEF a
    <3>12. Part(a, Width, lp) = LoopNet
      BY <1>5, <3>8, <3>10, LoopbackPart DEF lp
    <3>13. q = LoopNet
      BY <2>2 DEF q
    <3> QED BY <3>6, <3>11, <3>12, <3>13
  <2> QED BY <1>3, <2>2, <2>3
<1>6. (Part(net, Width, lp) = LoopNet /\ p >= lp) <=> \A a \in IpAddrs : InCidr(a, net, p) => Loopback(a)
  BY <1>4, <1>5
<1> QED BY <1>1, <1>2, <1>6 DEF net

-----------------------------------------------------------------------------
(* Settings one after the other *)

Applying == INSTANCE FoldLemmas WITH Op <- Apply

Keys == DOMAIN Defaults

(* The network in a configuration is the one of its bind. *)
Consistent(c) ==
    /\ DOMAIN c = Keys
    /\ c.bind \in GoodBinds
    /\ c.net = BindOf(c.bind).net /\ c.prefix = BindOf(c.bind).prefix

HostOfBind(c) == c.kiss_host = BindOf(c.bind).host

(* The keys that only a setting of their own changes. *)
PlainKeys == Keys \ {"kiss_host", "net", "prefix"}

(* Where the first k settings give one of some keys, what a key is after   *)
(* them, and what the listen address is.                                   *)
At(ss, keys, k) == {i \in 1..k : ss[i].key \in keys}

ValueAfter(ss, key, k, old) ==
    IF At(ss, {key}, k) # {} THEN ss[Max(At(ss, {key}, k))].value ELSE old

HostAfter(ss, k, old) ==
    IF At(ss, HostKeys, k) # {} THEN HostOf(ss[Max(At(ss, HostKeys, k))]) ELSE old

LEMMA AtNone == ASSUME NEW ss, NEW keys PROVE At(ss, keys, 0) = {}
BY DEF At

LEMMA AtNew ==
    ASSUME NEW ss, NEW keys, NEW k \in Nat, ss[k + 1].key \in keys
    PROVE  At(ss, keys, k + 1) # {} /\ Max(At(ss, keys, k + 1)) = k + 1
<1> DEFINE S == At(ss, keys, k + 1)
<1>1. k + 1 \in S /\ S \in SUBSET (0..(k + 1)) /\ S # {} /\ k + 1 \in Nat
  BY DEF At
<1> HIDE DEF S
<1>2. Max(S) \in S /\ \A i \in S : i <= Max(S)
  BY <1>1, MaxIn
<1>3. Max(S) \in 0..(k + 1) /\ k + 1 <= Max(S)
  BY <1>1, <1>2
<1>4. Max(S) = k + 1
  BY <1>3
<1> QED BY <1>1, <1>4 DEF S

LEMMA AtOld ==
    ASSUME NEW ss, NEW keys, NEW k \in Nat, ss[k + 1].key \notin keys
    PROVE  At(ss, keys, k + 1) = At(ss, keys, k)
<1>1. \A i \in 1..(k + 1) : i = k + 1 \/ i \in 1..k
  OBVIOUS
<1>2. \A i \in 1..k : i \in 1..(k + 1)
  OBVIOUS
<1> QED BY <1>1, <1>2, Zenon DEF At

LEMMA ValueStep ==
    ASSUME NEW ss, NEW key, NEW k \in Nat, NEW old
    PROVE  /\ ValueAfter(ss, key, 0, old) = old
           /\ ValueAfter(ss, key, k + 1, old) =
                IF ss[k + 1].key = key THEN ss[k + 1].value ELSE ValueAfter(ss, key, k, old)
<1>1. At(ss, {key}, 0) = {}
  BY AtNone, Zenon
<1>2. CASE ss[k + 1].key = key
  <2>1. At(ss, {key}, k + 1) # {} /\ Max(At(ss, {key}, k + 1)) = k + 1
    BY <1>2, AtNew
  <2> QED BY <1>1, <1>2, <2>1 DEF ValueAfter
<1>3. CASE ss[k + 1].key # key
  <2>1. At(ss, {key}, k + 1) = At(ss, {key}, k)
    BY <1>3, AtOld
  <2> QED BY <1>1, <1>3, <2>1 DEF ValueAfter
<1> QED BY <1>2, <1>3

LEMMA HostStep ==
    ASSUME NEW ss, NEW k \in Nat, NEW old
    PROVE  /\ HostAfter(ss, 0, old) = old
           /\ HostAfter(ss, k + 1, old) =
                IF ss[k + 1].key \in HostKeys THEN HostOf(ss[k + 1]) ELSE HostAfter(ss, k, old)
<1>1. At(ss, HostKeys, 0) = {}
  BY AtNone, Zenon
<1>2. CASE ss[k + 1].key \in HostKeys
  <2>1. At(ss, HostKeys, k + 1) # {} /\ Max(At(ss, HostKeys, k + 1)) = k + 1
    BY <1>2, AtNew
  <2> QED BY <1>1, <1>2, <2>1 DEF HostAfter
<1>3. CASE ss[k + 1].key \notin HostKeys
  <2>1. At(ss, HostKeys, k + 1) = At(ss, HostKeys, k)
    BY <1>3, AtOld
  <2> QED BY <1>1, <1>3, <2>1 DEF HostAfter
<1> QED BY <1>2, <1>3

(* The tables of the file and of the command line. *)
Table(values) ==
    /\ DOMAIN values \subseteq (PlainKeys \cup {"kiss_host", "help"})
    /\ "bind" \in DOMAIN values => values["bind"] \subseteq GoodBinds

LEMMA KeysAre ==
    /\ Keys = {"bind", "net", "prefix", "kiss_host", "number", "rx_only", "rx_freq", "rf_log",
               "rf_log_path", "ldro"}
    /\ DOMAIN FileValues \ {"kiss_host"} \subseteq PlainKeys
    /\ "bind" \in PlainKeys
BY DEF Keys, Defaults, PlainKeys, FileValues

LEMMA Tables == Table(FileValues) /\ Table(CliValues)
<1>1. Table(FileValues)
  BY KeysAre DEF Table, PlainKeys, FileValues
<1>2. Table(CliValues)
  BY KeysAre DEF Table, PlainKeys, CliValues
<1> QED BY <1>1, <1>2

LEMMA DefaultsGood == Consistent(Defaults) /\ HostOfBind(Defaults)
BY BindTextAssumption DEF Consistent, HostOfBind, Defaults, Keys

(* One setting changes its own key, and a bind what belongs to it. *)
LEMMA AssignOne ==
    ASSUME NEW c, Consistent(c), NEW s, s.key \in PlainKeys \cup {"kiss_host"},
           s.key = "bind" => s.value \in GoodBinds
    PROVE  /\ Consistent(Assign(c, s))
           /\ s.key # "kiss_host" => (HostOfBind(c) => HostOfBind(Assign(c, s)))
           /\ \A key \in PlainKeys : Assign(c, s)[key] = IF s.key = key THEN s.value ELSE c[key]
           /\ Assign(c, s).kiss_host = IF s.key \in HostKeys THEN HostOf(s) ELSE c.kiss_host
<1> DEFINE r == Assign(c, s)
<1>1. DOMAIN c = Keys /\ c.bind \in GoodBinds
      /\ c.net = BindOf(c.bind).net /\ c.prefix = BindOf(c.bind).prefix
  BY DEF Consistent
<1>2. {"bind", "net", "prefix", "kiss_host"} \subseteq Keys
      /\ PlainKeys \subseteq Keys /\ "net" \notin PlainKeys /\ "prefix" \notin PlainKeys
      /\ "kiss_host" \notin PlainKeys
  BY KeysAre DEF PlainKeys
<1>3. CASE s.key # "bind"
  <2>1. r = [c EXCEPT ![s.key] = s.value]
    BY <1>3 DEF Assign
  <2>2. s.key \in Keys /\ s.key # "net" /\ s.key # "prefix"
    BY <1>2
  <2>3. DOMAIN r = Keys /\ \A k \in Keys : r[k] = IF k = s.key THEN s.value ELSE c[k]
    BY <1>1, <2>1, <2>2
  <2> HIDE DEF r
  <2>4. r.bind = c.bind /\ r.net = c.net /\ r.prefix = c.prefix
    BY <1>2, <1>3, <2>2, <2>3
  <2>5. Consistent(r)
    BY <1>1, <2>3, <2>4 DEF Consistent
  <2>6. s.key # "kiss_host" => r.kiss_host = c.kiss_host
    BY <1>2, <2>3
  <2>7. \A key \in PlainKeys : r[key] = IF s.key = key THEN s.value ELSE c[key]
    BY <1>2, <2>3
  <2>8. r.kiss_host = IF s.key \in HostKeys THEN HostOf(s) ELSE c.kiss_host
    BY <1>2, <1>3, <2>3 DEF HostKeys, HostOf
  <2> QED BY <2>4, <2>5, <2>6, <2>7, <2>8 DEF HostOfBind, r
<1>4. CASE s.key = "bind"
  <2> DEFINE b == BindOf(s.value)
  <2>1. r = [c EXCEPT !.bind = s.value, !.net = b.net, !.prefix = b.prefix, !.kiss_host = b.host]
    BY <1>4 DEF Assign
  <2> HIDE DEF b
  <2>2. /\ DOMAIN r = Keys /\ r.bind = s.value /\ r.net = b.net /\ r.prefix = b.prefix
        /\ r.kiss_host = b.host
    BY <1>1, <1>2, <2>1
  <2>3. \A k \in Keys \ {"bind", "net", "prefix", "kiss_host"} : r[k] = c[k]
    BY <1>1, <2>1
  <2> HIDE DEF r
  <2>4. Consistent(r) /\ HostOfBind(r)
    BY <1>4, <2>2 DEF Consistent, HostOfBind, b
  <2>5. \A key \in PlainKeys : r[key] = IF s.key = key THEN s.value ELSE c[key]
    BY <1>2, <1>4, <2>2, <2>3
  <2>6. r.kiss_host = IF s.key \in HostKeys THEN HostOf(s) ELSE c.kiss_host
    BY <1>4, <2>2 DEF HostKeys, HostOf, b
  <2> QED BY <2>4, <2>5, <2>6 DEF r
<1> QED BY <1>3, <1>4

(* A setting that does not end the program is one of the table. *)
LEMMA ApplyOne ==
    ASSUME NEW r, DOMAIN r = {"stage", "cfg"}, NEW s, NEW values, Table(values)
    PROVE  /\ DOMAIN Apply(r, s, values) = {"stage", "cfg"}
           /\ r.stage # "running" => Apply(r, s, values).stage # "running"
           /\ Apply(r, s, values).stage = "given" =>
                 /\ r.stage = "given"
                 /\ s.key \in PlainKeys \cup {"kiss_host"}
                 /\ s.key = "bind" => s.value \in GoodBinds
                 /\ Apply(r, s, values).cfg = Assign(r.cfg, s)
<1> DEFINE t == Apply(r, s, values)
           bad == s.key \notin DOMAIN values \/ s.value \notin values[s.key]
<1>1. \/ r.stage # "given" /\ t = r
      \/ t = [r EXCEPT !.stage = "refused"]
      \/ t = [r EXCEPT !.stage = "exited"]
      \/ /\ r.stage = "given" /\ ~bad /\ s.key # "help"
         /\ t = [r EXCEPT !.cfg = Assign(r.cfg, s)]
  <2>1. CASE r.stage # "given"
    BY <2>1 DEF Apply
  <2>2. CASE r.stage = "given" /\ bad
    BY <2>2 DEF Apply
  <2>3. CASE r.stage = "given" /\ ~bad /\ s.key = "help"
    BY <2>3 DEF Apply
  <2>4. CASE r.stage = "given" /\ ~bad /\ s.key # "help"
    BY <2>4 DEF Apply
  <2> QED BY <2>1, <2>2, <2>3, <2>4
<1> HIDE DEF t
<1>2. CASE r.stage # "given" /\ t = r
  BY <1>2 DEF t
<1>3. CASE t = [r EXCEPT !.stage = "refused"] \/ t = [r EXCEPT !.stage = "exited"]
  <2>1. DOMAIN t = {"stage", "cfg"} /\ t.stage # "given" /\ t.stage # "running"
    BY <1>3
  <2> QED BY <2>1 DEF t
<1>4. CASE r.stage = "given" /\ ~bad /\ s.key # "help" /\ t = [r EXCEPT !.cfg = Assign(r.cfg, s)]
  <2>1. DOMAIN t = {"stage", "cfg"} /\ t.cfg = Assign(r.cfg, s) /\ t.stage = r.stage
    BY <1>4
  <2>2. s.key \in PlainKeys \cup {"kiss_host"}
    BY <1>4 DEF Table
  <2>3. s.key = "bind" => s.value \in GoodBinds
    BY <1>4 DEF Table
  <2> QED BY <1>4, <2>1, <2>2, <2>3 DEF t
<1> QED BY <1>1, <1>2, <1>3, <1>4

(* What the first k settings made of r0. *)
Applied(r, r0, ss, k) ==
    /\ DOMAIN r = {"stage", "cfg"}
    /\ r0.stage # "running" => r.stage # "running"
    /\ r.stage = "given" =>
          /\ r0.stage = "given"
          /\ Consistent(r.cfg)
          /\ \A key \in PlainKeys : r.cfg[key] = ValueAfter(ss, key, k, r0.cfg[key])
          /\ r.cfg.kiss_host = HostAfter(ss, k, r0.cfg.kiss_host)
          /\ HostOfBind(r0.cfg) /\ (\A i \in 1..k : ss[i].key # "kiss_host") => HostOfBind(r.cfg)

AppliedTo(r0, ss, values) == FoldLeft(LAMBDA r, s : Apply(r, s, values), r0, ss)

LEMMA ApplyAll ==
    ASSUME NEW ss, Len(ss) \in Nat, DOMAIN ss = 1..Len(ss), NEW values, Table(values),
           NEW r0, DOMAIN r0 = {"stage", "cfg"}, r0.stage = "given" => Consistent(r0.cfg)
    PROVE  Applied(AppliedTo(r0, ss, values), r0, ss, Len(ss))
<1> DEFINE n == Len(ss)
           f == AppliedTo(r0, ss, values)
<1>1. Applying!Folded(r0, ss, values) = f
  BY DEF Applying!Folded, Applying!FoldLeft, Applying!MapThenFoldSet, Applying!Max,
         FoldLeft, MapThenFoldSet, Max, AppliedTo
<1> HIDE DEF f
<1>2. PICK g : Applying!Steps(g, r0, ss, values, n) /\ Applying!Folded(r0, ss, values) = g[n]
  BY Applying!FoldSteps
<1>3. g[0] = r0 /\ \A k \in 1..n : g[k] = Apply(g[k - 1], ss[k], values)
  BY <1>2 DEF Applying!Steps
<1> HIDE DEF n
<1>4. n \in Nat
  BY DEF n
<1> DEFINE P == {k \in 0..n : Applied(g[k], r0, ss, k)}
<1>5. 0 \in P
  <2>1. 0 \in 0..n
    BY <1>4
  <2>2. /\ \A key, old : ValueAfter(ss, key, 0, old) = old
        /\ \A old : HostAfter(ss, 0, old) = old
    BY ValueStep, HostStep
  <2>3. Applied(r0, r0, ss, 0)
    BY <2>2 DEF Applied
  <2> QED BY <1>3, <2>1, <2>3
<1>6. ASSUME NEW k \in 0..(n - 1), k \in P PROVE k + 1 \in P
  <2>1. k + 1 \in 1..n /\ k + 1 \in 0..n /\ (k + 1) - 1 = k /\ k \in Nat
        /\ (\A i \in 1..k : i \in 1..(k + 1)) /\ k + 1 \in 1..(k + 1)
    BY <1>4
  <2> DEFINE r == g[k]
             s == ss[k + 1]
             t == g[k + 1]
  <2>2. t = Apply(r, s, values)
    BY <1>3, <2>1
  <2>3. Applied(r, r0, ss, k)
    BY <1>6
  <2> HIDE DEF r, t
  <2>4. DOMAIN r = {"stage", "cfg"} /\ (r0.stage # "running" => r.stage # "running")
    BY <2>3 DEF Applied
  <2>5. /\ DOMAIN t = {"stage", "cfg"}
        /\ r.stage # "running" => t.stage # "running"
        /\ t.stage = "given" =>
              /\ r.stage = "given"
              /\ s.key \in PlainKeys \cup {"kiss_host"}
              /\ s.key = "bind" => s.value \in GoodBinds
              /\ t.cfg = Assign(r.cfg, s)
    <3> HIDE DEF s
    <3> QED BY <2>2, <2>4, ApplyOne
  <2>6. ASSUME t.stage = "given"
        PROVE  /\ r0.stage = "given"
               /\ Consistent(t.cfg)
               /\ \A key \in PlainKeys : t.cfg[key] = ValueAfter(ss, key, k + 1, r0.cfg[key])
               /\ t.cfg.kiss_host = HostAfter(ss, k + 1, r0.cfg.kiss_host)
               /\ HostOfBind(r0.cfg) /\ (\A i \in 1..(k + 1) : ss[i].key # "kiss_host")
                     => HostOfBind(t.cfg)
    <3>1. /\ r0.stage = "given" /\ Consistent(r.cfg)
          /\ \A key \in PlainKeys : r.cfg[key] = ValueAfter(ss, key, k, r0.cfg[key])
          /\ r.cfg.kiss_host = HostAfter(ss, k, r0.cfg.kiss_host)
          /\ HostOfBind(r0.cfg) /\ (\A i \in 1..k : ss[i].key # "kiss_host") => HostOfBind(r.cfg)
      BY <2>3, <2>5, <2>6 DEF Applied
    <3>2. /\ Consistent(t.cfg)
          /\ s.key # "kiss_host" => (HostOfBind(r.cfg) => HostOfBind(t.cfg))
          /\ \A key \in PlainKeys : t.cfg[key] = IF s.key = key THEN s.value ELSE r.cfg[key]
          /\ t.cfg.kiss_host = IF s.key \in HostKeys THEN HostOf(s) ELSE r.cfg.kiss_host
      <4> HIDE DEF s
      <4> DEFINE c == r.cfg
      <4>1. Consistent(c) /\ t.cfg = Assign(c, s)
        BY <2>5, <2>6, <3>1
      <4> HIDE DEF c
      <4>2. /\ Consistent(Assign(c, s))
            /\ s.key # "kiss_host" => (HostOfBind(c) => HostOfBind(Assign(c, s)))
            /\ \A key \in PlainKeys : Assign(c, s)[key] = IF s.key = key THEN s.value ELSE c[key]
            /\ Assign(c, s).kiss_host = IF s.key \in HostKeys THEN HostOf(s) ELSE c.kiss_host
        BY <2>5, <2>6, <4>1, AssignOne
      <4> QED BY <4>1, <4>2 DEF c
    <3>3. ASSUME NEW key \in PlainKeys
          PROVE  t.cfg[key] = ValueAfter(ss, key, k + 1, r0.cfg[key])
      <4> DEFINE old == r0.cfg[key]
      <4>1. ValueAfter(ss, key, k + 1, old) = IF s.key = key THEN s.value ELSE ValueAfter(ss, key, k, old)
        <5> HIDE DEF old
        <5> QED BY <2>1, ValueStep
      <4> HIDE DEF s
      <4> QED BY <3>1, <3>2, <4>1, Zenon
    <3>4. HostOfBind(r0.cfg) /\ (\A i \in 1..(k + 1) : ss[i].key # "kiss_host") => HostOfBind(t.cfg)
      BY <2>1, <3>1, <3>2
    <3>5. t.cfg.kiss_host = HostAfter(ss, k + 1, r0.cfg.kiss_host)
      <4> DEFINE old == r0.cfg.kiss_host
      <4>1. HostAfter(ss, k + 1, old) = IF s.key \in HostKeys THEN HostOf(s) ELSE HostAfter(ss, k, old)
        <5> HIDE DEF old
        <5> QED BY <2>1, HostStep
      <4> HIDE DEF s
      <4> QED BY <3>1, <3>2, <4>1, Zenon
    <3> QED BY <3>1, <3>2, <3>3, <3>4, <3>5
  <2>7. Applied(t, r0, ss, k + 1)
    BY <2>4, <2>5, <2>6 DEF Applied
  <2> QED BY <2>1, <2>7 DEF t
<1> HIDE DEF P
<1>7. \A k \in 0..n : k \in P
  BY <1>4, <1>5, <1>6, UpTo
<1>8. Applied(g[n], r0, ss, n)
  BY <1>4, <1>7 DEF P
<1> QED BY <1>1, <1>2, <1>8 DEF n, f

(* The whole of what was given. *)
LEMMA LastGivenIs ==
    ASSUME file \in Seq(Offered), args \in Seq(Offered), NEW key
    PROVE  LastGiven(key) =
               ValueAfter(args, key, Len(args), ValueAfter(file, key, Len(file), Defaults[key]))
<1>1. DOMAIN file = 1..Len(file) /\ DOMAIN args = 1..Len(args)
  OBVIOUS
<1>2. /\ {i \in DOMAIN args : args[i].key = key} = At(args, {key}, Len(args))
      /\ {i \in DOMAIN file : file[i].key = key} = At(file, {key}, Len(file))
  BY <1>1 DEF At
<1> DEFINE A == At(args, {key}, Len(args))
           F == At(file, {key}, Len(file))
<1>3. LastGiven(key) = CASE A # {} -> args[Max(A)].value
                         [] A = {} /\ F # {} -> file[Max(F)].value
                         [] OTHER -> Defaults[key]
  BY <1>2, Zenon DEF LastGiven
<1>4. ValueAfter(args, key, Len(args), ValueAfter(file, key, Len(file), Defaults[key])) =
          IF A # {} THEN args[Max(A)].value
          ELSE IF F # {} THEN file[Max(F)].value ELSE Defaults[key]
  BY DEF ValueAfter
<1> HIDE DEF A, F
<1> QED BY <1>3, <1>4

LEMMA LastHostIs ==
    ASSUME file \in Seq(Offered), args \in Seq(Offered)
    PROVE  LastHost =
               HostAfter(args, Len(args), HostAfter(file, Len(file), Defaults.kiss_host))
<1>1. DOMAIN file = 1..Len(file) /\ DOMAIN args = 1..Len(args)
  OBVIOUS
<1>2. /\ {i \in DOMAIN args : args[i].key \in HostKeys} = At(args, HostKeys, Len(args))
      /\ {i \in DOMAIN file : file[i].key \in HostKeys} = At(file, HostKeys, Len(file))
  BY <1>1 DEF At
<1> DEFINE A == At(args, HostKeys, Len(args))
           F == At(file, HostKeys, Len(file))
<1>3. LastHost = CASE A # {} -> HostOf(args[Max(A)])
                   [] A = {} /\ F # {} -> HostOf(file[Max(F)])
                   [] OTHER -> Defaults.kiss_host
  BY <1>2, Zenon DEF LastHost
<1>4. HostAfter(args, Len(args), HostAfter(file, Len(file), Defaults.kiss_host)) =
          IF A # {} THEN HostOf(args[Max(A)])
          ELSE IF F # {} THEN HostOf(file[Max(F)]) ELSE Defaults.kiss_host
  BY DEF HostAfter
<1> HIDE DEF A, F
<1> QED BY <1>3, <1>4

(* The configuration that comes out of lhkt_cli_apply. *)
LEMMA CliApplied ==
    ASSUME file \in Seq(Offered), args \in Seq(Offered)
    PROVE  /\ CliApply(file, args).stage # "running"
           /\ CliApply(file, args).stage = "given" =>
                 /\ Consistent(CliApply(file, args).cfg)
                 /\ \A key \in PlainKeys : CliApply(file, args).cfg[key] = LastGiven(key)
                 /\ CliApply(file, args).cfg.kiss_host = LastHost
                 /\ (\A s \in ToSet(file) \cup ToSet(args) : s.key # "kiss_host")
                       => HostOfBind(CliApply(file, args).cfg)
<1> DEFINE base == [stage |-> "given", cfg |-> Defaults]
           loaded == AppliedTo(base, file, FileValues)
           final == AppliedTo(loaded, args, CliValues)
<1>1. CliApply(file, args) = final
  BY DEF CliApply, AppliedTo
<1>2. /\ Len(file) \in Nat /\ DOMAIN file = 1..Len(file)
      /\ Len(args) \in Nat /\ DOMAIN args = 1..Len(args)
  OBVIOUS
<1>3. DOMAIN base = {"stage", "cfg"} /\ base.stage = "given" /\ base.cfg = Defaults
  OBVIOUS
<1> HIDE DEF base
<1>4. Applied(loaded, base, file, Len(file))
  BY <1>2, <1>3, Tables, DefaultsGood, ApplyAll
<1> HIDE DEF loaded
<1>5. DOMAIN loaded = {"stage", "cfg"} /\ (loaded.stage = "given" => Consistent(loaded.cfg))
  BY <1>4 DEF Applied
<1>6. Applied(final, loaded, args, Len(args))
  BY <1>2, <1>5, Tables, ApplyAll
<1> HIDE DEF final
<1>7. final.stage # "running"
  BY <1>3, <1>4, <1>6 DEF Applied
<1> SUFFICES ASSUME final.stage = "given"
             PROVE  /\ Consistent(final.cfg)
                    /\ \A key \in PlainKeys : final.cfg[key] = LastGiven(key)
                    /\ final.cfg.kiss_host = LastHost
                    /\ (\A s \in ToSet(file) \cup ToSet(args) : s.key # "kiss_host")
                          => HostOfBind(final.cfg)
  BY <1>1, <1>7
<1>8. /\ loaded.stage = "given" /\ Consistent(final.cfg)
      /\ \A key \in PlainKeys : final.cfg[key] = ValueAfter(args, key, Len(args), loaded.cfg[key])
      /\ final.cfg.kiss_host = HostAfter(args, Len(args), loaded.cfg.kiss_host)
      /\ HostOfBind(loaded.cfg) /\ (\A i \in 1..Len(args) : args[i].key # "kiss_host")
            => HostOfBind(final.cfg)
  BY <1>6 DEF Applied
<1>9. /\ \A key \in PlainKeys : loaded.cfg[key] = ValueAfter(file, key, Len(file), Defaults[key])
      /\ loaded.cfg.kiss_host = HostAfter(file, Len(file), Defaults.kiss_host)
      /\ HostOfBind(Defaults) /\ (\A i \in 1..Len(file) : file[i].key # "kiss_host")
            => HostOfBind(loaded.cfg)
  BY <1>3, <1>4, <1>8 DEF Applied
<1>10. \A key \in PlainKeys : final.cfg[key] = LastGiven(key)
  BY <1>8, <1>9, LastGivenIs
<1>11. ASSUME \A s \in ToSet(file) \cup ToSet(args) : s.key # "kiss_host"
       PROVE  HostOfBind(final.cfg)
  <2>1. /\ \A i \in 1..Len(args) : args[i] \in ToSet(args)
        /\ \A i \in 1..Len(file) : file[i] \in ToSet(file)
    BY <1>2 DEF ToSet
  <2>2. /\ \A i \in 1..Len(args) : args[i].key # "kiss_host"
        /\ \A i \in 1..Len(file) : file[i].key # "kiss_host"
    BY <1>11, <2>1
  <2> QED BY <1>8, <1>9, <2>2, DefaultsGood
<1>12. final.cfg.kiss_host = LastHost
  BY <1>8, <1>9, LastHostIs
<1> QED BY <1>8, <1>10, <1>11, <1>12

-----------------------------------------------------------------------------
(* The program runs with what was given, and keeps to it. *)
StartInv ==
    /\ file \in Seq(Offered) /\ args \in Seq(Offered)
    /\ stage = "running" => CliApply(file, args).stage = "given" /\ cfg = CliApply(file, args).cfg
    /\ peer # NoPeer => /\ stage = "running" /\ peer \in IpAddrs
                        /\ InCidr(peer, cfg.net, cfg.prefix)

LEMMA StartStep == StartInv /\ [StartNext]_startVars => StartInv'
<1> SUFFICES ASSUME StartInv, [StartNext]_startVars PROVE StartInv'
  OBVIOUS
<1>0. /\ file \in Seq(Offered) /\ args \in Seq(Offered)
      /\ stage = "running" => CliApply(file, args).stage = "given" /\ cfg = CliApply(file, args).cfg
      /\ peer # NoPeer => /\ stage = "running" /\ peer \in IpAddrs
                          /\ InCidr(peer, cfg.net, cfg.prefix)
  BY DEF StartInv
<1>1. ASSUME NEW s \in Offered, AddLine(s) \/ AddOption(s) PROVE StartInv'
  <2>1. /\ stage = "given" /\ stage' = "given" /\ peer' = peer
        /\ file' \in {file, Append(file, s)} /\ args' \in {args, Append(args, s)}
    BY <1>1 DEF AddLine, AddOption
  <2>2. file' \in Seq(Offered) /\ args' \in Seq(Offered)
    <3>1. Append(file, s) \in Seq(Offered) /\ Append(args, s) \in Seq(Offered)
      BY <1>0, AppendProperties
    <3> QED BY <1>0, <2>1, <3>1, Zenon
  <2>3. peer' = NoPeer /\ stage' # "running"
    BY <1>0, <2>1
  <2> QED BY <2>2, <2>3, Zenon DEF StartInv
<1>2. ASSUME NEW io \in BOOLEAN, Main(io) PROVE StartInv'
  <2>1. /\ stage = "given" /\ file' = file /\ args' = args /\ peer' = peer
        /\ cfg' = CliApply(file, args).cfg
        /\ CliApply(file, args).stage # "given" => stage' = CliApply(file, args).stage
    BY <1>2, Zenon DEF Main
  <2>2. peer' = NoPeer
    BY <1>0, <2>1
  <2>3. CliApply(file, args).stage # "running"
    BY <1>0, CliApplied
  <2> QED BY <1>0, <2>1, <2>2, <2>3, Zenon DEF StartInv
<1>3. ASSUME NEW a \in IpAddrs, Accept(a) PROVE StartInv'
  <2>1. /\ stage = "running" /\ InCidr(a, cfg.net, cfg.prefix) /\ peer' = a
        /\ file' = file /\ args' = args /\ stage' = stage /\ cfg' = cfg
    BY <1>3 DEF Accept
  <2> QED BY <1>0, <2>1, Zenon DEF StartInv
<1>4. CASE Hangup
  <2>1. peer' = NoPeer /\ file' = file /\ args' = args /\ stage' = stage /\ cfg' = cfg
    BY <1>4 DEF Hangup
  <2> QED BY <1>0, <2>1, Zenon DEF StartInv
<1>5. CASE UNCHANGED startVars
  <2>1. peer' = peer /\ file' = file /\ args' = args /\ stage' = stage /\ cfg' = cfg
    BY <1>5 DEF startVars
  <2> QED BY <1>0, <2>1, Zenon DEF StartInv
<1> QED BY <1>1, <1>2, <1>3, <1>4, <1>5 DEF StartNext

LEMMA StartInvariance == StartSpec => []StartInv
<1>1. StartInit => StartInv
  BY DEF StartInit, StartInv
<1> QED BY <1>1, StartStep, PTL DEF StartSpec

(* A running program has what the lemmas about its settings say. *)
LEMMA Running ==
    ASSUME StartInv, stage = "running"
    PROVE  /\ Consistent(cfg)
           /\ \A key \in PlainKeys : cfg[key] = LastGiven(key)
           /\ cfg.kiss_host = LastHost
           /\ (\A s \in ToSet(file) \cup ToSet(args) : s.key # "kiss_host") => HostOfBind(cfg)
<1>1. /\ file \in Seq(Offered) /\ args \in Seq(Offered)
      /\ CliApply(file, args).stage = "given" /\ cfg = CliApply(file, args).cfg
  BY DEF StartInv
<1> QED BY <1>1, CliApplied

(* For any number of lines and options, the program runs with the last     *)
(* value of every key, the command line before the file before the         *)
(* defaults (lhkt_cli_apply, lhkt_config_load_file).  Its listen address   *)
(* is that of the last bind or kiss_host, whichever comes later            *)
(* (lhkt_bind_apply writes kiss_host).                                     *)
THEOREM LastValueCounts == StartSpec => []LastWins
<1>1. StartInv => LastWins
  BY Running, KeysAre DEF LastWins
<1> QED BY <1>1, StartInvariance, PTL

(* Only a client whose first bits are those of the bind that counts is     *)
(* ever attached, for addresses of any width and every prefix length       *)
(* (lhkt_ipv4_in_cidr, lhkt_tcp_server_accept).                            *)
THEOREM PeerAllowed == StartSpec => []OnlyAllowed
<1>1. ASSUME StartInv, peer # NoPeer
      PROVE  LET b == BindText[LastGiven("bind")]
             IN  \A i \in 1..(IF b[2] < 0 THEN Width ELSE b[2]) : Bit(peer, i) = Bit(b[1], i)
  <2>1. stage = "running" /\ peer \in IpAddrs /\ InCidr(peer, cfg.net, cfg.prefix)
    BY <1>1 DEF StartInv
  <2> DEFINE t == LastGiven("bind")
  <2>2. t \in GoodBinds /\ cfg.net = BindOf(t).net /\ cfg.prefix = BindOf(t).prefix
    BY <1>1, <2>1, Running, KeysAre DEF Consistent
  <2> HIDE DEF t
  <2>3. InCidr(peer, BindOf(t).net, BindOf(t).prefix)
    BY <2>1, <2>2
  <2>4. \A i \in 1..(IF BindText[t][2] < 0 THEN Width ELSE BindText[t][2]) :
            Bit(peer, i) = Bit(BindText[t][1], i)
    BY <2>1, <2>2, <2>3, InBind
  <2> QED BY <2>4 DEF t
<1>2. StartInv => OnlyAllowed
  BY <1>1 DEF OnlyAllowed
<1> QED BY <1>2, StartInvariance, PTL

(* Unless an address is given explicitly, the port is open on loopback     *)
(* only exactly if the allowed network is within the loopback network      *)
(* (lhkt_bind_apply): not exposed without need, nobody allowed locked out. *)
THEOREM NotExposed == StartSpec => []ExposedIfNeeded
<1>1. ASSUME StartInv, stage = "running",
             \A s \in ToSet(file) \cup ToSet(args) : s.key # "kiss_host"
      PROVE  cfg.kiss_host = "loopback" <=>
                 \A a \in {a \in IpAddrs : InCidr(a, cfg.net, cfg.prefix)} : Loopback(a)
  <2> DEFINE t == cfg.bind
  <2>1. t \in GoodBinds /\ cfg.net = BindOf(t).net /\ cfg.prefix = BindOf(t).prefix
        /\ cfg.kiss_host = BindOf(t).host
    BY <1>1, Running DEF Consistent, HostOfBind
  <2> HIDE DEF t
  <2>2. BindOf(t).host = "loopback" <=>
            \A a \in {a \in IpAddrs : InCidr(a, BindOf(t).net, BindOf(t).prefix)} : Loopback(a)
    BY <2>1, ListenNeeded
  <2> QED BY <2>1, <2>2
<1>2. StartInv => ExposedIfNeeded
  BY <1>1 DEF ExposedIfNeeded
<1> QED BY <1>2, StartInvariance, PTL
=============================================================================
