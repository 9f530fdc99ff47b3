----------------------------- MODULE RfLogProofs -----------------------------
(* Machine-checked proofs about RfLog, for every limit, copy buffer, set   *)
(* of line lengths and number of faults.                                   *)
EXTENDS RfLog, SequenceTheorems, FiniteSetTheorems, TLAPS

-----------------------------------------------------------------------------
(* The inductive invariant. *)

(* During a rollover <path>.1 and the copy buffer together are what was    *)
(* read of the log; when the copy is complete, <path>.1 is the log.        *)
CopyOfLog ==
    /\ pc = "copy" => off <= Len(live) /\ prev \o chunk = SubSeq(live, 1, off)
    /\ pc = "truncate" => prev = live

(* Contiguous, and also while a rollover is about to start. *)
TailOfAll ==
    /\ IsSuffix(live, all)
    /\ pc \in {"closed", "idle", "open", "append"} /\ ~grown => IsSuffix(prev \o live, all)

(* The line being written is the youngest one; what is appended without a  *)
(* rollover fits, or the log holds nothing else; and a log above its limit *)
(* is one line.                                                            *)
Fits ==
    /\ \A i \in 1..Len(unwritten) : unwritten[i] = lines
    /\ pc = "append" /\ ~grown =>
          \/ Len(live) + Len(unwritten) <= MaxBytes
          \/ \A i \in 1..Len(live) : live[i] = lines
    /\ ~grown /\ Len(live) > MaxBytes =>
          \A i, j \in 1..Len(live) : live[i] = live[j]

IInv == LogTypeOK /\ CopyOfLog /\ TailOfAll /\ Fits

-----------------------------------------------------------------------------
(* Lemmas about suffixes and parts of sequences. *)

(* A suffix, element by element. *)
LEMMA SuffixElements ==
    ASSUME NEW S, NEW s \in Seq(S), NEW t \in Seq(S)
    PROVE  IsSuffix(s, t) <=>
              /\ Len(s) <= Len(t)
              /\ \A i \in 1..Len(s) : s[i] = t[Len(t) - Len(s) + i]
<1> DEFINE rs == Reverse(s)
           rt == Reverse(t)
<1>1. /\ Len(s) \in Nat /\ Len(t) \in Nat
      /\ \A i \in 1..Len(s) : s[i] \in S
      /\ \A i \in 1..Len(t) : t[i] \in S
  BY ElementOfSeq, LenProperties
<1>2. /\ rs \in Seq(S) /\ Len(rs) = Len(s)
      /\ \A i \in 1..Len(s) : rs[i] = s[(Len(s) - i) + 1]
  <2>1. rs \in [1..Len(s) -> S]
    BY <1>1 DEF Reverse
  <2> QED BY <2>1, <1>1 DEF Reverse
<1>3. /\ rt \in Seq(S) /\ Len(rt) = Len(t)
      /\ \A i \in 1..Len(t) : rt[i] = t[(Len(t) - i) + 1]
  <2>1. rt \in [1..Len(t) -> S]
    BY <1>1 DEF Reverse
  <2> QED BY <2>1, <1>1 DEF Reverse
<1> HIDE DEF rs, rt
<1>4. IsSuffix(s, t) <=>
         /\ Len(s) <= Len(t)
         /\ SubSeq(rs, 1, Len(s)) = SubSeq(rt, 1, Len(s))
  BY <1>2, <1>3 DEF IsSuffix, IsPrefix, rs, rt
<1>5. ASSUME Len(s) <= Len(t)
      PROVE  SubSeq(rs, 1, Len(s)) = SubSeq(rt, 1, Len(s))
                <=> \A k \in 1..Len(s) : rs[k] = rt[k]
  BY <1>1, <1>2, <1>3, <1>5
<1>6. ASSUME Len(s) <= Len(t), \A k \in 1..Len(s) : rs[k] = rt[k], NEW i \in 1..Len(s)
      PROVE  s[i] = t[Len(t) - Len(s) + i]
  <2>1. /\ Len(s) - i + 1 \in 1..Len(s) /\ Len(s) - i + 1 \in 1..Len(t)
        /\ (Len(s) - (Len(s) - i + 1)) + 1 = i
        /\ (Len(t) - (Len(s) - i + 1)) + 1 = Len(t) - Len(s) + i
    BY <1>1, <1>6
  <2>2. rs[Len(s) - i + 1] = s[i]
    BY <2>1, <1>2
  <2>3. rt[Len(s) - i + 1] = t[Len(t) - Len(s) + i]
    BY <2>1, <1>3
  <2> QED BY <2>1, <2>2, <2>3, <1>6
<1>7. ASSUME Len(s) <= Len(t), \A i \in 1..Len(s) : s[i] = t[Len(t) - Len(s) + i],
             NEW k \in 1..Len(s)
      PROVE  rs[k] = rt[k]
  <2>1. /\ (Len(s) - k) + 1 \in 1..Len(s) /\ k \in 1..Len(t)
        /\ Len(t) - Len(s) + ((Len(s) - k) + 1) = (Len(t) - k) + 1
    BY <1>1, <1>7
  <2> QED BY <2>1, <1>2, <1>3, <1>7
<1> QED BY <1>4, <1>5, <1>6, <1>7

(* A sequence is a suffix of itself, and so is the empty one. *)
LEMMA SuffixTrivial ==
    ASSUME NEW S, NEW t \in Seq(S)
    PROVE  IsSuffix(t, t) /\ IsSuffix(<<>>, t)
<1>1. /\ <<>> \in Seq(S) /\ Len(<<>>) = 0 /\ Len(t) \in Nat
  OBVIOUS
<1>2. IsSuffix(t, t)
  BY <1>1, SuffixElements
<1>3. ASSUME NEW e \in Seq(S), Len(e) = 0
      PROVE  IsSuffix(e, t)
  <2>1. /\ Len(e) <= Len(t)
        /\ \A i \in 1..Len(e) : e[i] = t[Len(t) - Len(e) + i]
    BY <1>1, <1>3
  <2> QED BY <1>3, <2>1, SuffixElements, Zenon
<1> QED BY <1>1, <1>2, <1>3

(* Appending the same bytes to both keeps a suffix. *)
LEMMA SuffixAppend ==
    ASSUME NEW S, NEW s \in Seq(S), NEW t \in Seq(S), NEW u \in Seq(S), IsSuffix(s, t)
    PROVE  IsSuffix(s \o u, t \o u)
<1>1. /\ Len(s) \in Nat /\ Len(t) \in Nat /\ Len(u) \in Nat
      /\ Len(s) <= Len(t)
      /\ \A i \in 1..Len(s) : s[i] = t[Len(t) - Len(s) + i]
  BY SuffixElements, LenProperties
<1>2. /\ s \o u \in Seq(S) /\ Len(s \o u) = Len(s) + Len(u)
      /\ \A i \in 1..(Len(s) + Len(u)) : (s \o u)[i] =
                     IF i <= Len(s) THEN s[i] ELSE u[i - Len(s)]
  BY ConcatProperties
<1>3. /\ t \o u \in Seq(S) /\ Len(t \o u) = Len(t) + Len(u)
      /\ \A i \in 1..(Len(t) + Len(u)) : (t \o u)[i] =
                     IF i <= Len(t) THEN t[i] ELSE u[i - Len(t)]
  BY ConcatProperties
<1>4. ASSUME NEW i \in 1..(Len(s) + Len(u))
      PROVE  (s \o u)[i] = (t \o u)[(Len(t) + Len(u)) - (Len(s) + Len(u)) + i]
  <2>1. /\ (Len(t) + Len(u)) - (Len(s) + Len(u)) + i = Len(t) - Len(s) + i
        /\ Len(t) - Len(s) + i \in 1..(Len(t) + Len(u))
        /\ Len(t) - Len(s) + i <= Len(t) <=> i <= Len(s)
        /\ (Len(t) - Len(s) + i) - Len(t) = i - Len(s)
    BY <1>1
  <2>2. CASE i <= Len(s)
    BY <2>1, <2>2, <1>1, <1>2, <1>3
  <2>3. CASE ~(i <= Len(s))
    BY <2>1, <2>3, <1>1, <1>2, <1>3
  <2> QED BY <2>2, <2>3
<1>5. /\ Len(s \o u) <= Len(t \o u)
      /\ \A i \in 1..Len(s \o u) : (s \o u)[i] = (t \o u)[Len(t \o u) - Len(s \o u) + i]
  BY <1>1, <1>2, <1>3, <1>4
<1> QED BY <1>2, <1>3, <1>5, SuffixElements, Zenon

(* A write of the first n bytes leaves the rest, and loses none. *)
LEMMA SplitAt ==
    ASSUME NEW S, NEW s \in Seq(S), NEW n \in 1..Len(s)
    PROVE  /\ SubSeq(s, 1, n) \in Seq(S) /\ Len(SubSeq(s, 1, n)) = n
           /\ \A i \in 1..n : SubSeq(s, 1, n)[i] = s[i]
           /\ SubSeq(s, n + 1, Len(s)) \in Seq(S)
           /\ Len(SubSeq(s, n + 1, Len(s))) = Len(s) - n
           /\ \A i \in 1..(Len(s) - n) : SubSeq(s, n + 1, Len(s))[i] = s[n + i]
           /\ SubSeq(s, 1, n) \o SubSeq(s, n + 1, Len(s)) = s
<1>1. Len(s) \in Nat /\ \A i \in 1..Len(s) : s[i] \in S
  BY LenProperties, ElementOfSeq
<1>2. SubSeq(s, 1, n) \o SubSeq(s, n + 1, Len(s)) = SubSeq(s, 1, Len(s))
  BY <1>1, ConcatAdjacentSubSeq
<1>3. SubSeq(s, 1, Len(s)) = s
  BY SubSeqFull
<1>4. /\ SubSeq(s, 1, n) \in Seq(S) /\ Len(SubSeq(s, 1, n)) = n
      /\ \A i \in 1..n : SubSeq(s, 1, n)[i] = s[i]
  BY <1>1
<1>5. /\ SubSeq(s, n + 1, Len(s)) \in Seq(S)
      /\ Len(SubSeq(s, n + 1, Len(s))) = Len(s) - n
  BY <1>1
<1>6. \A i \in 1..(Len(s) - n) : SubSeq(s, n + 1, Len(s))[i] = s[n + i]
  BY <1>1
<1> QED BY <1>2, <1>3, <1>4, <1>5, <1>6

-----------------------------------------------------------------------------
(* Every step preserves the inductive invariant. *)

(* The empty file, an empty buffer and an empty line. *)
LEMMA EmptyBytes == <<>> \in Seq(Bytes) /\ Len(<<>>) = 0 /\ Len(<<>>) <= ChunkSize
BY SizesAssumption

(* A fault is counted. *)
LEMMA FaultType ==
    ASSUME LogTypeOK, Fault \/ UNCHANGED faults
    PROVE  faults' \in 0..MaxFaults
BY SizesAssumption DEF LogTypeOK, Fault

(* The log and its history start empty. *)
LEMMA InitInv == LogInit => IInv
<1> SUFFICES ASSUME LogInit PROVE IInv
  OBVIOUS
<1> USE SizesAssumption DEF LogInit
<1>1. LogTypeOK
  <2>1. 0 \in Nat /\ 0 \in 0..MaxLines /\ 0 \in 0..MaxFaults
    OBVIOUS
  <2> QED BY <2>1, EmptyBytes, Zenon DEF LogTypeOK
<1>2. CopyOfLog /\ Fits
  BY DEF CopyOfLog, Fits
<1>3. IsSuffix(live, all)
  <2>1. live \in Seq(Bytes) /\ all = live
    OBVIOUS
  <2> QED BY <2>1, SuffixTrivial
<1>4. IsSuffix(prev \o live, all)
  <2>1. prev \o live = live
    OBVIOUS
  <2> QED BY <2>1, <1>3
<1> QED BY <1>1, <1>2, <1>3, <1>4 DEF IInv, TailOfAll

(* Starting, stopping and giving up a line change no file. *)
LEMMA QuietInv ==
    ASSUME IInv, Open \/ AppendEnd \/ Crash
    PROVE  IInv'
<1> USE SizesAssumption DEF Open, AppendEnd, Crash, Fault, files
<1>1. LogTypeOK'
  <2>1. faults' \in 0..MaxFaults
    BY FaultType, Zenon DEF IInv
  <2>2. 0 \in Nat /\ LogTypeOK
    BY DEF IInv
  <2> QED BY <2>1, <2>2, EmptyBytes, Zenon DEF LogTypeOK
<1>2. CopyOfLog'
  BY DEF IInv, LogTypeOK, CopyOfLog
<1>3. TailOfAll'
  BY DEF IInv, LogTypeOK, TailOfAll
<1>4. Fits'
  BY SMTT(30) DEF IInv, LogTypeOK, Fits
<1> QED BY <1>1, <1>2, <1>3, <1>4 DEF IInv

(* A new line: without a rollover it fits. *)
LEMMA LogInv ==
    ASSUME IInv, NEW n \in LineLengths, Log(n)
    PROVE  IInv'
<1> USE SizesAssumption DEF Log, Fault
<1>0. /\ n \in Nat /\ lines' = lines + 1 /\ lines' \in Bytes
      /\ unwritten' \in Seq(Bytes) /\ Len(unwritten') = n
      /\ \A i \in 1..n : unwritten'[i] = lines'
  <2>1. n \in Nat /\ lines + 1 \in Bytes
    BY DEF IInv, LogTypeOK, Bytes
  <2>2. unwritten' = [i \in 1..n |-> lines + 1]
    OBVIOUS
  <2>3. unwritten' \in [1..n -> Bytes]
    BY <2>1, <2>2
  <2> QED BY <2>1, <2>2, <2>3
<1>1. LogTypeOK'
  <2>1. faults' \in 0..MaxFaults
    BY FaultType, Zenon DEF IInv
  <2>2. lines' \in 0..MaxLines /\ LogTypeOK
    BY <1>0 DEF IInv, Bytes
  <2>3. pc' \in {"open", "append"}
    BY Zenon
  <2> QED BY <1>0, <2>1, <2>2, <2>3, Zenon DEF LogTypeOK
<1>2. CopyOfLog'
  BY DEF IInv, LogTypeOK, CopyOfLog
<1>3. TailOfAll'
  BY DEF IInv, LogTypeOK, TailOfAll
<1>4. Fits'
  BY <1>0 DEF IInv, LogTypeOK, Fits, OverLimit
<1> QED BY <1>1, <1>2, <1>3, <1>4 DEF IInv

(* <path>.1 is emptied: nothing of the log has been read yet. *)
LEMMA OpenPreviousInv ==
    ASSUME IInv, OpenPrevious
    PROVE  IInv'
<1> USE SizesAssumption DEF OpenPrevious, Fault
<1>1. LogTypeOK'
  <2>1. faults' \in 0..MaxFaults
    BY FaultType, Zenon DEF IInv
  <2>2. 0 \in Nat /\ LogTypeOK
    BY DEF IInv
  <2> QED BY <2>1, <2>2, EmptyBytes, Zenon DEF LogTypeOK
<1>2. CopyOfLog'
  <2>1. live \in Seq(Bytes) /\ live' = live /\ 0 <= Len(live)
    BY DEF IInv, LogTypeOK
  <2>2. SubSeq(live, 1, 0) = <<>>
    BY SubSeqEmpty
  <2>3. <<>> \o <<>> = <<>>
    BY EmptyBytes, ConcatEmptySeq
  <2>4. pc' # "truncate" /\ (pc' = "copy" => prev' = <<>> /\ chunk' = <<>> /\ off' = 0)
    OBVIOUS
  <2> QED BY <2>1, <2>2, <2>3, <2>4, Zenon DEF CopyOfLog
<1>3. TailOfAll'
  BY DEF IInv, LogTypeOK, TailOfAll
<1>4. Fits'
  BY DEF IInv, LogTypeOK, Fits
<1> QED BY <1>1, <1>2, <1>3, <1>4 DEF IInv

(* The chunk that is read continues what was copied; an empty one means    *)
(* that all of the log was.                                                *)
LEMMA CopyReadInv ==
    ASSUME IInv, CopyRead
    PROVE  IInv'
<1> DEFINE rest == SubSeq(live, off + 1, Len(live))
           n == IF Len(rest) < ChunkSize THEN Len(rest) ELSE ChunkSize
<1>0. /\ live \in Seq(Bytes) /\ Len(live) \in Nat /\ off \in 0..Len(live)
      /\ prev \in Seq(Bytes) /\ prev = SubSeq(live, 1, off)
  <2>1. live \in Seq(Bytes) /\ prev \in Seq(Bytes) /\ off \in 0..Len(live)
    BY DEF IInv, LogTypeOK, CopyOfLog, CopyRead
  <2>2. prev \o chunk = SubSeq(live, 1, off) /\ chunk = <<>>
    BY DEF IInv, CopyOfLog, CopyRead
  <2> QED BY <2>1, <2>2, ConcatEmptySeq
<1>1. /\ rest \in Seq(Bytes) /\ Len(rest) = Len(live) - off
      /\ n \in Nat /\ n <= ChunkSize /\ off + n <= Len(live)
      /\ n = 0 <=> off = Len(live)
  BY <1>0, SizesAssumption
<1>2. SubSeq(rest, 1, n) = SubSeq(live, off + 1, off + n)
  BY <1>0, <1>1
<1>3. /\ chunk' = SubSeq(live, off + 1, off + n) /\ off' = off + n
      /\ pc' = IF n = 0 THEN "truncate" ELSE "copy"
      /\ segment' = IF n = 0 THEN prev ELSE segment
      /\ UNCHANGED <<live, prev, grown, all, unwritten, lines, faults>>
  BY <1>2 DEF CopyRead
<1> HIDE DEF rest, n
<1>4. chunk' \in Seq(Bytes) /\ Len(chunk') <= ChunkSize
  <2>1. \A i \in (off + 1)..(off + n) : live[i] \in Bytes
    BY <1>0, <1>1, ElementOfSeq
  <2>2. off + 1 \in Int /\ off + n \in Int
    BY <1>0, <1>1
  <2>3. /\ SubSeq(live, off + 1, off + n) \in Seq(Bytes)
        /\ Len(SubSeq(live, off + 1, off + n)) =
              IF off + 1 <= off + n THEN (off + n) - (off + 1) + 1 ELSE 0
    BY <2>1, <2>2, SubSeqProperties
  <2>4. (IF off + 1 <= off + n THEN (off + n) - (off + 1) + 1 ELSE 0) = n
    BY <1>0, <1>1
  <2> QED BY <1>1, <1>3, <2>3, <2>4, Zenon
<1>5. LogTypeOK'
  <2>1. off' \in Nat /\ pc' \in {"truncate", "copy"}
    BY <1>0, <1>1, <1>3
  <2> QED BY <1>0, <1>3, <1>4, <2>1, Zenon DEF IInv, LogTypeOK
<1>6. SubSeq(live, 1, off) \o SubSeq(live, off + 1, off + n) = SubSeq(live, 1, off + n)
  <2>1. /\ 1 \in 1..(Len(live) + 1) /\ off \in (1 - 1)..Len(live)
        /\ off + n \in off..Len(live)
    BY <1>0, <1>1
  <2> QED BY <1>0, <2>1, ConcatAdjacentSubSeq
<1>7. n = 0 => prev = live
  BY <1>0, <1>1, SubSeqFull
<1>8. CopyOfLog'
  BY <1>0, <1>1, <1>3, <1>6, <1>7 DEF CopyOfLog
<1>9. TailOfAll'
  BY <1>3 DEF IInv, LogTypeOK, TailOfAll
<1>10. Fits'
  BY <1>3 DEF IInv, LogTypeOK, Fits
<1> QED BY <1>5, <1>8, <1>9, <1>10 DEF IInv

(* A short write moves bytes from the buffer to <path>.1 and loses none. *)
LEMMA CopyWriteInv ==
    ASSUME IInv, CopyWrite
    PROVE  IInv'
<1>0. PICK n \in 1..Len(chunk) :
         /\ prev' = prev \o SubSeq(chunk, 1, n)
         /\ chunk' = SubSeq(chunk, n + 1, Len(chunk))
  BY DEF CopyWrite
<1> DEFINE a == SubSeq(chunk, 1, n)
           b == SubSeq(chunk, n + 1, Len(chunk))
<1>1. chunk \in Seq(Bytes) /\ prev \in Seq(Bytes) /\ Len(chunk) <= ChunkSize
  BY DEF IInv, LogTypeOK
<1>2. /\ a \in Seq(Bytes) /\ b \in Seq(Bytes)
      /\ Len(b) = Len(chunk) - n /\ a \o b = chunk
  BY <1>1, SplitAt
<1>3. /\ prev' = prev \o a /\ chunk' = b
      /\ UNCHANGED <<pc, live, segment, grown, all, off, unwritten, lines, faults>>
  BY <1>0 DEF CopyWrite
<1> HIDE DEF a, b
<1>4. LogTypeOK'
  <2>1. prev' \in Seq(Bytes) /\ chunk' \in Seq(Bytes) /\ Len(chunk') <= ChunkSize
    BY <1>1, <1>2, <1>3, SizesAssumption
  <2> QED BY <1>3, <2>1, Zenon DEF IInv, LogTypeOK
<1>5. prev' \o chunk' = prev \o chunk
  <2>0. prev \in Seq(Bytes) /\ a \in Seq(Bytes) /\ b \in Seq(Bytes)
    BY <1>1, <1>2
  <2>1. (prev \o a) \o b = prev \o (a \o b)
    BY <2>0, ConcatAssociative, SMTT(30)
  <2> QED BY <1>2, <1>3, <2>1
<1>6. CopyOfLog'
  BY <1>3, <1>5 DEF IInv, CopyOfLog, CopyWrite
<1>7. TailOfAll'
  BY <1>3 DEF IInv, TailOfAll, CopyWrite
<1>8. Fits'
  BY <1>3 DEF IInv, Fits, CopyWrite
<1> QED BY <1>4, <1>6, <1>7, <1>8 DEF IInv

(* A failed copy keeps the log. *)
LEMMA CopyFailInv ==
    ASSUME IInv, CopyFail
    PROVE  IInv'
<1> USE SizesAssumption DEF CopyFail, Fault
<1>1. LogTypeOK'
  BY DEF IInv, LogTypeOK
<1>2. CopyOfLog'
  BY DEF CopyOfLog
<1>3. TailOfAll'
  BY DEF IInv, LogTypeOK, TailOfAll
<1>4. Fits'
  BY DEF IInv, LogTypeOK, Fits
<1> QED BY <1>1, <1>2, <1>3, <1>4 DEF IInv

(* The log is emptied into its complete copy. *)
LEMMA TruncateInv ==
    ASSUME IInv, Truncate
    PROVE  IInv'
<1> USE SizesAssumption DEF Truncate, Fault
<1>1. LogTypeOK'
  <2>1. faults' \in 0..MaxFaults
    BY FaultType, Zenon DEF IInv
  <2> QED BY <2>1, EmptyBytes, Zenon DEF IInv, LogTypeOK
<1>2. CopyOfLog'
  BY DEF CopyOfLog
<1>3. TailOfAll'
  <2>1. CASE live' = <<>> /\ grown' = FALSE
    <3>1. /\ live \in Seq(Bytes) /\ all \in Seq(Bytes)
          /\ prev' = live /\ IsSuffix(live, all) /\ all' = all
      BY DEF IInv, LogTypeOK, CopyOfLog, TailOfAll
    <3>2. prev' \o live' = live
      BY <2>1, <3>1, ConcatEmptySeq
    <3>3. IsSuffix(live', all')
      BY <2>1, <3>1, SuffixTrivial
    <3> QED BY <3>1, <3>2, <3>3 DEF TailOfAll
  <2>2. CASE grown' = TRUE /\ live' = live
    BY <2>2 DEF IInv, TailOfAll
  <2> QED BY <2>1, <2>2
<1>4. Fits'
  <2>1. CASE live' = <<>> /\ grown' = FALSE
    <3>1. Len(live') = 0 /\ 1..Len(live') = {}
      BY <2>1
    <3> QED BY <3>1 DEF IInv, LogTypeOK, Fits
  <2>2. CASE grown' = TRUE /\ live' = live
    BY <2>2 DEF IInv, Fits
  <2> QED BY <2>1, <2>2
<1> QED BY <1>1, <1>2, <1>3, <1>4 DEF IInv

(* A short write of the line extends the log and its history alike. *)
LEMMA AppendSomeInv ==
    ASSUME IInv, AppendSome
    PROVE  IInv'
<1>0. PICK n \in 1..Len(unwritten) :
         /\ live' = live \o SubSeq(unwritten, 1, n)
         /\ all' = all \o SubSeq(unwritten, 1, n)
         /\ unwritten' = SubSeq(unwritten, n + 1, Len(unwritten))
  BY DEF AppendSome
<1> DEFINE a == SubSeq(unwritten, 1, n)
<1>1. /\ live \in Seq(Bytes) /\ prev \in Seq(Bytes) /\ all \in Seq(Bytes)
      /\ unwritten \in Seq(Bytes) /\ Len(live) \in Nat /\ Len(unwritten) \in Nat
  BY DEF IInv, LogTypeOK
<1>2. /\ a \in Seq(Bytes) /\ Len(a) = n
      /\ \A i \in 1..n : a[i] = unwritten[i]
      /\ unwritten' \in Seq(Bytes) /\ Len(unwritten') = Len(unwritten) - n
      /\ \A i \in 1..(Len(unwritten) - n) : unwritten'[i] = unwritten[n + i]
  BY <1>0, <1>1, SplitAt
<1>3. /\ live' = live \o a /\ all' = all \o a
      /\ pc = "append" /\ pc' = pc
      /\ UNCHANGED <<prev, segment, grown, chunk, off, lines, faults>>
  BY <1>0 DEF AppendSome
<1> HIDE DEF a
<1>4. LogTypeOK'
  <2>1. live' \in Seq(Bytes) /\ all' \in Seq(Bytes)
    BY <1>1, <1>2, <1>3
  <2> QED BY <1>2, <1>3, <2>1, Zenon DEF IInv, LogTypeOK
<1>5. CopyOfLog'
  BY <1>3 DEF CopyOfLog
<1>6. TailOfAll'
  <2>1. IsSuffix(live', all')
    BY <1>1, <1>2, <1>3, SuffixAppend DEF IInv, TailOfAll
  <2>2. ASSUME ~grown
        PROVE  IsSuffix(prev \o live', all')
    <3>1. prev \o live \in Seq(Bytes) /\ IsSuffix(prev \o live, all)
      BY <1>1, <1>3, <2>2 DEF IInv, TailOfAll
    <3>2. IsSuffix((prev \o live) \o a, all \o a)
      BY <1>1, <1>2, <3>1, SuffixAppend
    <3>0. prev \in Seq(Bytes) /\ live \in Seq(Bytes) /\ a \in Seq(Bytes)
      BY <1>1, <1>2
    <3>3. (prev \o live) \o a = prev \o (live \o a)
      BY <3>0, ConcatAssociative
    <3> QED BY <1>3, <3>2, <3>3, Zenon
  <2> QED BY <1>3, <2>1, <2>2, Zenon DEF TailOfAll
<1>7. Fits'
  <2>1. /\ Len(live') = Len(live) + n
        /\ \A i \in 1..(Len(live) + n) : live'[i] =
              IF i <= Len(live) THEN live[i] ELSE a[i - Len(live)]
    <3>1. live \in Seq(Bytes) /\ a \in Seq(Bytes)
      BY <1>1, <1>2
    <3>2. /\ Len(live \o a) = Len(live) + Len(a)
          /\ \A i \in 1..(Len(live) + Len(a)) : (live \o a)[i] =
                IF i <= Len(live) THEN live[i] ELSE a[i - Len(live)]
      BY ONLY <3>1, ConcatProperties
    <3>3. live' = live \o a /\ Len(a) = n
      BY <1>2, <1>3
    <3> QED BY ONLY <3>2, <3>3
  <2>2. /\ \A i \in 1..Len(unwritten) : unwritten[i] = lines
        /\ ~grown => \/ Len(live) + Len(unwritten) <= MaxBytes
                     \/ \A i \in 1..Len(live) : live[i] = lines
    BY <1>3, Zenon DEF IInv, Fits
  <2>3. \A i \in 1..Len(unwritten') : unwritten'[i] = lines
    BY <1>1, <1>2, <2>2
  <2>4. \A i \in 1..n : a[i] = lines
    BY <1>1, <1>2, <2>2
  <2>5. (\A i \in 1..Len(live) : live[i] = lines) => \A i \in 1..Len(live') : live'[i] = lines
    <3>1. SUFFICES ASSUME \A i \in 1..Len(live) : live[i] = lines, NEW i \in 1..Len(live')
                   PROVE  live'[i] = lines
      OBVIOUS
    <3>2. Len(live) \in Nat /\ n \in Nat /\ i \in 1..(Len(live) + n)
      BY <1>1, <1>2, <2>1
    <3>3. CASE i <= Len(live)
      BY <2>1, <3>1, <3>2, <3>3
    <3>4. CASE ~(i <= Len(live))
      <4>1. i - Len(live) \in 1..n
        BY <3>2, <3>4
      <4> QED BY <2>1, <2>4, <3>2, <3>4, <4>1
    <3> QED BY <3>3, <3>4
  <2>6. Len(live) + Len(unwritten) <= MaxBytes => Len(live') + Len(unwritten') <= MaxBytes /\ Len(live') <= MaxBytes
    BY <1>1, <1>2, <2>1, SizesAssumption
  <2>7. ~grown' => \/ Len(live') + Len(unwritten') <= MaxBytes /\ ~(Len(live') > MaxBytes)
                   \/ \A i \in 1..Len(live') : live'[i] = lines
    <3>1. Len(live') \in Nat /\ MaxBytes \in Nat
      BY <1>1, <1>2, <2>1, SizesAssumption
    <3>2. Len(live') <= MaxBytes => ~(Len(live') > MaxBytes)
      BY <3>1
    <3> QED BY <1>3, <2>2, <2>5, <2>6, <3>2, Zenon
  <2>8. \/ \A i \in 1..Len(live') : live'[i] = lines
        \/ ~grown' /\ Len(live') > MaxBytes
              => \A i, j \in 1..Len(live') : live'[i] = live'[j]
    BY <2>7, Zenon
  <2>9. ~grown' /\ Len(live') > MaxBytes
              => \A i, j \in 1..Len(live') : live'[i] = live'[j]
    BY <2>8, Zenon
  <2> QED BY <1>3, <2>3, <2>7, <2>9, Zenon DEF Fits
<1> QED BY <1>4, <1>5, <1>6, <1>7 DEF IInv

(* The invariant is inductive. *)
LEMMA StepInv == IInv /\ [LogNext]_logVars => IInv'
<1> SUFFICES ASSUME IInv, [LogNext]_logVars PROVE IInv'
  OBVIOUS
<1>1. CASE Open \/ AppendEnd \/ Crash
  BY <1>1, QuietInv
<1>2. CASE \E n \in LineLengths : Log(n)
  BY <1>2, LogInv
<1>3. CASE OpenPrevious
  BY <1>3, OpenPreviousInv
<1>4. CASE CopyRead
  BY <1>4, CopyReadInv
<1>5. CASE CopyWrite
  BY <1>5, CopyWriteInv
<1>6. CASE CopyFail
  BY <1>6, CopyFailInv
<1>7. CASE Truncate
  BY <1>7, TruncateInv
<1>8. CASE AppendSome
  BY <1>8, AppendSomeInv
<1>9. CASE UNCHANGED logVars
  BY <1>9 DEF logVars, IInv, LogTypeOK, CopyOfLog, TailOfAll, Fits
<1> QED BY <1>1, <1>2, <1>3, <1>4, <1>5, <1>6, <1>7, <1>8, <1>9 DEF LogNext

(* The inductive invariant holds in every reachable state of the log. *)
LEMMA Invariance == LogSpec => []IInv
BY InitInv, StepInv, PTL DEF LogSpec

-----------------------------------------------------------------------------
(* The theorems. *)

(* Every variable of the RF log keeps its type; the copy buffer is never   *)
(* overrun (rflog_copy_to_previous).                                       *)
THEOREM TypeCorrect == LogSpec => []LogTypeOK
<1>1. IInv => LogTypeOK
  BY DEF IInv
<1> QED BY <1>1, Invariance, PTL

(* The two files are always the end of everything logged, in order and     *)
(* without a gap, through every failed call, short write and crash of the  *)
(* rollover (rflog_write_line, rflog_copy_to_previous).                    *)
THEOREM LogContiguous == LogSpec => []Contiguous
<1>1. IInv => Contiguous
  BY DEF IInv, TailOfAll, Contiguous
<1> QED BY <1>1, Invariance, PTL

(* The log exceeds g_max_bytes only after a failed rollover or with one    *)
(* line longer than the limit (rflog_write_line).                          *)
THEOREM LogBounded == LogSpec => []Bounded
<1>1. ASSUME IInv PROVE Bounded
  <2> SUFFICES ASSUME Len(live) > MaxBytes, ~grown
               PROVE  Cardinality(ToSet(live)) = 1
    BY DEF Bounded
  <2>1. live \in Seq(Bytes) /\ Len(live) \in Nat /\ DOMAIN live = 1..Len(live)
    BY <1>1 DEF IInv, LogTypeOK
  <2>2. 1 \in 1..Len(live) /\ \A i \in 1..Len(live) : live[i] = live[1]
    BY <1>1, <2>1, SizesAssumption DEF IInv, Fits
  <2>3. ToSet(live) = {live[1]}
    BY <2>1, <2>2 DEF ToSet
  <2> QED BY <2>3, FS_Singleton
<1> QED BY <1>1, Invariance, PTL

(* Whatever fails in a rollover, the log is emptied only when <path>.1     *)
(* holds all of it (rflog_write_line: truncate only after a good copy).    *)
THEOREM EmptiedOnlyIntoCopy == LogSpec => EmptiedIntoCopy
<1>1. ASSUME IInv, [LogNext]_logVars
      PROVE  [Len(live') < Len(live) => prev = live]_logVars
  <2> SUFFICES ASSUME LogNext, Len(live') < Len(live)
               PROVE  prev = live
    BY <1>1
  <2>1. live \in Seq(Bytes) /\ unwritten \in Seq(Bytes) /\ Len(live) \in Nat
    BY <1>1 DEF IInv, LogTypeOK
  <2>2. CASE Truncate
    BY <1>1, <2>2 DEF Truncate, IInv, CopyOfLog
  <2>3. CASE AppendSome
    <3>1. PICK n \in 1..Len(unwritten) : live' = live \o SubSeq(unwritten, 1, n)
      BY <2>3 DEF AppendSome
    <3>2. SubSeq(unwritten, 1, n) \in Seq(Bytes) /\ Len(SubSeq(unwritten, 1, n)) = n
      BY <2>1, <3>1, SplitAt
    <3>3. Len(live') = Len(live) + n
      BY <2>1, <3>1, <3>2, ConcatProperties
    <3> QED BY <2>1, <3>3
  <2>4. CASE Open \/ OpenPrevious \/ CopyRead \/ CopyWrite \/ CopyFail \/ AppendEnd \/ Crash
    <3>1. live' = live
      BY <2>4 DEF Open, OpenPrevious, CopyRead, CopyWrite, CopyFail, AppendEnd, Crash, files
    <3> QED BY <2>1, <3>1
  <2>5. CASE \E n \in LineLengths : Log(n)
    <3>1. live' = live
      BY <2>5 DEF Log
    <3> QED BY <2>1, <3>1
  <2> QED BY <2>2, <2>3, <2>4, <2>5 DEF LogNext
<1> QED BY <1>1, Invariance, PTL DEF LogSpec, EmptiedIntoCopy
=============================================================================
