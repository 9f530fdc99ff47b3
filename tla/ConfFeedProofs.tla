--------------------------- MODULE ConfFeedProofs ---------------------------
(* Machine-checked proofs about ConfFeed, for every size of the line       *)
(* buffer, every text the daemon may send and any number of connections.   *)
EXTENDS ConfFeed, SequenceLemmas

(* bridge_conf_state_t *)
State == [have_status : BOOLEAN, tx_busy : BOOLEAN, cad_busy : BOOLEAN,
          txresult : {"absent", "on", "off"}, tx_busy_seq : Nat,
          tx_idle_seq : Nat, cad_busy_seq : Nat, cad_idle_seq : Nat]

-----------------------------------------------------------------------------
(* The inductive invariant. *)

(* Without a connection the state is zero; what was collected last is at   *)
(* most what the connection counted, and forgotten before the next one.    *)
CollectedOfThisConnection ==
    /\ ~up => st = Zero
    /\ up => last.busy <= st.cad_busy_seq /\ last.idle <= st.cad_idle_seq
    /\ ~up /\ phase = "select" => last = None

IInv == ConfTypeOK /\ CollectedOfThisConnection /\ CountedOnce

-----------------------------------------------------------------------------
(* Lemmas about the operators. *)

(* Zero and None are what they should be. *)
LEMMA ZeroType ==
    /\ Zero \in State /\ Zero.cad_busy_seq = 0 /\ Zero.cad_idle_seq = 0
    /\ None \in Counts /\ None.busy = 0 /\ None.idle = 0
BY DEF Zero, State, None, Counts

(* A flag token gives a flag. *)
LEMMA FlagType ==
    ASSUME NEW l, NEW key, NEW old \in BOOLEAN
    PROVE  Flag(l, key, old) \in BOOLEAN
<1>1. CASE FirstOf(l, key) = "none"
  BY <1>1 DEF Flag
<1>2. CASE FirstOf(l, key) # "none"
  BY <1>2 DEF Flag
<1> QED BY <1>1, <1>2

(* What the assignments of bridge_conf_handle_line leave. *)
LEMMA StateUpdates ==
    ASSUME NEW s \in State
    PROVE  /\ \A b \in BOOLEAN, n \in Nat :
                 /\ [s EXCEPT !.tx_busy = b, !.tx_busy_seq = n] \in State
                 /\ [s EXCEPT !.tx_busy = b, !.tx_idle_seq = n] \in State
                 /\ [s EXCEPT !.cad_busy = b, !.cad_busy_seq = n] \in State
                 /\ [s EXCEPT !.cad_busy = b, !.cad_idle_seq = n] \in State
           /\ \A b, c, d \in BOOLEAN, r \in {"absent", "on", "off"} :
                 [s EXCEPT !.have_status = d, !.tx_busy = b, !.cad_busy = c,
                           !.txresult = r] \in State
<1>1. ASSUME NEW b \in BOOLEAN, NEW n \in Nat
      PROVE  /\ [s EXCEPT !.tx_busy = b, !.tx_busy_seq = n] \in State
             /\ [s EXCEPT !.tx_busy = b, !.tx_idle_seq = n] \in State
  BY DEF State
<1>2. ASSUME NEW b \in BOOLEAN, NEW n \in Nat
      PROVE  /\ [s EXCEPT !.cad_busy = b, !.cad_busy_seq = n] \in State
             /\ [s EXCEPT !.cad_busy = b, !.cad_idle_seq = n] \in State
  BY DEF State
<1>3. ASSUME NEW b \in BOOLEAN, NEW c \in BOOLEAN, NEW d \in BOOLEAN,
             NEW r \in {"absent", "on", "off"}
      PROVE  [s EXCEPT !.have_status = d, !.tx_busy = b, !.cad_busy = c,
                       !.txresult = r] \in State
  BY DEF State
<1> QED BY <1>1, <1>2, <1>3, Zenon

(* A line keeps the type of the state and never lowers a counter. *)
LEMMA HandleLineType ==
    ASSUME NEW s \in State, NEW l
    PROVE  /\ HandleLine(s, l) \in State
           /\ HandleLine(s, l).cad_busy_seq >= s.cad_busy_seq
           /\ HandleLine(s, l).cad_idle_seq >= s.cad_idle_seq
<1> DEFINE tx == Flag(l, {"t0", "t1"}, s.tx_busy)
           cad == Flag(l, {"c0", "c1"}, s.cad_busy)
           res == CASE FirstOf(l, {"r0", "r1"}) = "r1" -> "on"
                    [] FirstOf(l, {"r0", "r1"}) = "r0" -> "off"
                    [] OTHER -> s.txresult
           new == HandleLine(s, l)
<1>1. tx \in BOOLEAN /\ cad \in BOOLEAN
  BY FlagType DEF State
<1>2. res \in {"absent", "on", "off"}
  BY DEF State
<1>3. \/ new = [s EXCEPT !.tx_busy = TRUE, !.tx_busy_seq = s.tx_busy_seq + 1]
      \/ new = [s EXCEPT !.tx_busy = FALSE, !.tx_idle_seq = s.tx_idle_seq + 1]
      \/ new = [s EXCEPT !.cad_busy = TRUE, !.cad_busy_seq = s.cad_busy_seq + 1]
      \/ new = [s EXCEPT !.cad_busy = FALSE, !.cad_idle_seq = s.cad_idle_seq + 1]
      \/ new = [s EXCEPT !.have_status = TRUE, !.tx_busy = tx, !.cad_busy = cad,
                         !.txresult = res]
      \/ new = s
  BY DEF HandleLine
<1> HIDE DEF tx, cad, res, new
<1>4. /\ s.tx_busy_seq + 1 \in Nat /\ s.tx_idle_seq + 1 \in Nat
      /\ s.cad_busy_seq + 1 \in Nat /\ s.cad_idle_seq + 1 \in Nat
      /\ s.cad_busy_seq \in Nat /\ s.cad_idle_seq \in Nat
  BY DEF State
<1>5. TRUE \in BOOLEAN /\ FALSE \in BOOLEAN
  OBVIOUS
<1>6. new \in State
  <2>1. CASE new = [s EXCEPT !.tx_busy = TRUE, !.tx_busy_seq = s.tx_busy_seq + 1]
    BY <2>1, <1>4, <1>5, StateUpdates, Zenon
  <2>2. CASE new = [s EXCEPT !.tx_busy = FALSE, !.tx_idle_seq = s.tx_idle_seq + 1]
    BY <2>2, <1>4, <1>5, StateUpdates, Zenon
  <2>3. CASE new = [s EXCEPT !.cad_busy = TRUE, !.cad_busy_seq = s.cad_busy_seq + 1]
    BY <2>3, <1>4, <1>5, StateUpdates, Zenon
  <2>4. CASE new = [s EXCEPT !.cad_busy = FALSE, !.cad_idle_seq = s.cad_idle_seq + 1]
    BY <2>4, <1>4, <1>5, StateUpdates, Zenon
  <2>5. CASE new = [s EXCEPT !.have_status = TRUE, !.tx_busy = tx, !.cad_busy = cad,
                             !.txresult = res]
    BY <1>1, <1>2, <1>5, <2>5, StateUpdates, Zenon
  <2> QED BY <1>3, <2>1, <2>2, <2>3, <2>4, <2>5, Zenon
<1>7. /\ new.cad_busy_seq \in {s.cad_busy_seq, s.cad_busy_seq + 1}
      /\ new.cad_idle_seq \in {s.cad_idle_seq, s.cad_idle_seq + 1}
  BY <1>3 DEF State
<1>8. new.cad_busy_seq >= s.cad_busy_seq /\ new.cad_idle_seq >= s.cad_idle_seq
  BY <1>4, <1>7
<1> QED BY <1>6, <1>8 DEF new

(* What one byte does: the line stays within the buffer, and the counters  *)
(* do not fall.                                                            *)
LEMMA FeedType ==
    ASSUME ConfTypeOK, NEW a \in Atoms, Feed(a)
    PROVE  /\ line' \in Seq(Atoms \ {"nl", "cr"}) /\ Len(line') < LineMax
           /\ discard' \in BOOLEAN
           /\ st' \in State
           /\ st'.cad_busy_seq >= st.cad_busy_seq /\ st'.cad_idle_seq >= st.cad_idle_seq
<1>1. /\ line \in Seq(Atoms \ {"nl", "cr"}) /\ Len(line) < LineMax /\ Len(line) \in Nat
      /\ discard \in BOOLEAN /\ st \in State
  BY DEF ConfTypeOK, State
<1>2. <<>> \in Seq(Atoms \ {"nl", "cr"}) /\ Len(<<>>) < LineMax
  BY LineMaxAssumption
<1>3. st.cad_busy_seq >= st.cad_busy_seq /\ st.cad_idle_seq >= st.cad_idle_seq
  BY <1>1 DEF State
<1>4. \/ UNCHANGED <<line, discard, st>>
      \/ line' = <<>> /\ discard' = FALSE /\ st' = (IF discard THEN st ELSE HandleLine(st, line))
      \/ line' = <<>> /\ discard' = TRUE /\ st' = st
      \/ /\ a \notin {"cr", "nl"} /\ ~(Len(line) + 1 >= LineMax)
         /\ line' = Append(line, a) /\ UNCHANGED <<discard, st>>
  BY Zenon DEF Feed
<1>5. CASE UNCHANGED <<line, discard, st>>
  BY <1>1, <1>3, <1>5, Zenon
<1>6. CASE line' = <<>> /\ discard' = FALSE /\ st' = (IF discard THEN st ELSE HandleLine(st, line))
  BY <1>1, <1>2, <1>3, <1>6, HandleLineType, Zenon
<1>7. CASE line' = <<>> /\ discard' = TRUE /\ st' = st
  BY <1>1, <1>2, <1>3, <1>7, Zenon
<1>8. CASE /\ a \notin {"cr", "nl"} /\ ~(Len(line) + 1 >= LineMax)
           /\ line' = Append(line, a) /\ UNCHANGED <<discard, st>>
  <2>1. a \in Atoms \ {"nl", "cr"} /\ Len(line) + 1 < LineMax
    BY <1>1, <1>8, LineMaxAssumption
  <2>2. line' \in Seq(Atoms \ {"nl", "cr"}) /\ Len(line') = Len(line) + 1
    BY <1>1, <1>8, <2>1, AppendProperties
  <2> QED BY <1>1, <1>3, <1>8, <2>1, <2>2, Zenon
<1> QED BY <1>4, <1>5, <1>6, <1>7, <1>8

(* A collect adds what is pending to the statistics. *)
LEMMA CollectOneCounts ==
    ASSUME NEW seq \in Nat, NEW seen \in Nat, NEW events \in Nat
    PROVE  /\ CollectOne(seq, seen, events).last = seq
           /\ CollectOne(seq, seen, events).events =
                 events + IF seq < seen THEN 0 ELSE seq - seen
           /\ CollectOne(seq, seen, events).events \in Nat
BY DEF CollectOne

-----------------------------------------------------------------------------
(* Every step preserves the inductive invariant. *)

(* The counters of a typed state are numbers. *)
LEMMA CounterTypes ==
    ASSUME ConfTypeOK
    PROVE  /\ st \in State /\ st.cad_busy_seq \in Nat /\ st.cad_idle_seq \in Nat
           /\ last.busy \in Nat /\ last.idle \in Nat
           /\ stats.busy \in Nat /\ stats.idle \in Nat
           /\ lost.busy \in Nat /\ lost.idle \in Nat
           /\ handled.busy \in Nat /\ handled.idle \in Nat
<1>1. st \in State
  BY DEF ConfTypeOK, State
<1>2. last \in Counts /\ stats \in Counts /\ handled \in Counts /\ lost \in Counts
  BY DEF ConfTypeOK
<1>3. st.cad_busy_seq \in Nat /\ st.cad_idle_seq \in Nat
  BY <1>1 DEF State
<1> QED BY <1>1, <1>2, <1>3 DEF Counts

(* Nothing is connected and nothing counted. *)
LEMMA InitInv == ConfInit => IInv
<1> SUFFICES ASSUME ConfInit PROVE IInv
  OBVIOUS
<1>1. ConfTypeOK
  <2>1. <<>> \in Seq(Atoms \ {"nl", "cr"}) /\ Len(<<>>) < LineMax /\ <<>> \in Seq(Atoms)
    BY LineMaxAssumption
  <2>2. 0 \in 0..MaxConns
    BY ConfBoundsAssumption
  <2> QED BY <2>1, <2>2, ZeroType, Zenon DEF ConfInit, ConfTypeOK, State
<1>2. CollectedOfThisConnection
  BY Zenon DEF ConfInit, CollectedOfThisConnection
<1>3. CountedOnce
  <2>1. st = Zero /\ last = None /\ stats = None /\ handled = None /\ lost = None
    BY DEF ConfInit
  <2> QED BY <2>1, ZeroType DEF CountedOnce
<1> QED BY <1>1, <1>2, <1>3 DEF IInv

(* A byte is read: what it adds is handled and pending. *)
LEMMA ReadInv ==
    ASSUME IInv, NEW a \in Atoms, Read(a)
    PROVE  IInv'
<1>1. ConfTypeOK /\ Feed(a) /\ up
  BY DEF IInv, Read
<1>2. /\ line' \in Seq(Atoms \ {"nl", "cr"}) /\ Len(line') < LineMax
      /\ discard' \in BOOLEAN
      /\ st' \in State
      /\ st'.cad_busy_seq >= st.cad_busy_seq /\ st'.cad_idle_seq >= st.cad_idle_seq
  BY <1>1, FeedType
<1>3. st'.cad_busy_seq \in Nat /\ st'.cad_idle_seq \in Nat
  BY <1>2 DEF State
<1>4. /\ handled' = [busy |-> handled.busy + st'.cad_busy_seq - st.cad_busy_seq,
                     idle |-> handled.idle + st'.cad_idle_seq - st.cad_idle_seq]
      /\ UNCHANGED <<up, last, stats, phase, lost, conns>>
      /\ stream' = Append(stream, a)
  BY DEF Read
<1>5. /\ st.cad_busy_seq \in Nat /\ st.cad_idle_seq \in Nat
      /\ last.busy \in Nat /\ last.idle \in Nat
      /\ stats.busy \in Nat /\ stats.idle \in Nat
      /\ lost.busy \in Nat /\ lost.idle \in Nat
      /\ handled.busy \in Nat /\ handled.idle \in Nat
  BY <1>1, CounterTypes
<1>6. st'.cad_busy_seq >= st.cad_busy_seq /\ st'.cad_idle_seq >= st.cad_idle_seq
  BY <1>2
<1>7. ConfTypeOK'
  <2>1. stream' \in Seq(Atoms)
    <3>1. stream \in Seq(Atoms)
      BY <1>1 DEF ConfTypeOK
    <3> QED BY <1>4, <3>1, AppendProperties
  <2>2. handled' \in Counts
    <3>1. /\ handled.busy + st'.cad_busy_seq - st.cad_busy_seq \in Nat
          /\ handled.idle + st'.cad_idle_seq - st.cad_idle_seq \in Nat
      BY <1>3, <1>5, <1>6
    <3> QED BY <1>4, <3>1 DEF Counts
  <2> QED BY <1>1, <1>2, <1>4, <2>1, <2>2, Zenon DEF ConfTypeOK, State
<1>8. CollectedOfThisConnection'
  <2>1. last.busy <= st.cad_busy_seq /\ last.idle <= st.cad_idle_seq
    BY <1>1 DEF IInv, CollectedOfThisConnection
  <2>2. last.busy <= st'.cad_busy_seq /\ last.idle <= st'.cad_idle_seq
    BY <1>1, <1>2, <1>3, <2>1, CounterTypes
  <2> QED BY <1>1, <1>4, <2>2, Zenon DEF CollectedOfThisConnection
<1>9. CountedOnce'
  <2>1. last.busy <= st.cad_busy_seq /\ last.idle <= st.cad_idle_seq
    BY <1>1 DEF IInv, CollectedOfThisConnection
  <2>2. /\ handled'.busy = handled.busy + st'.cad_busy_seq - st.cad_busy_seq
        /\ handled'.idle = handled.idle + st'.cad_idle_seq - st.cad_idle_seq
        /\ stats' = stats /\ lost' = lost /\ last' = last
    BY <1>4
  <2>3. /\ stats.busy + lost.busy + (st.cad_busy_seq - last.busy) = handled.busy
        /\ stats.idle + lost.idle + (st.cad_idle_seq - last.idle) = handled.idle
    BY <1>5, <2>1 DEF IInv, CountedOnce
  <2>4. /\ stats.busy + lost.busy + (st'.cad_busy_seq - last.busy) = handled'.busy
        /\ ~(st'.cad_busy_seq < last.busy)
    BY <1>3, <1>5, <1>6, <2>1, <2>2, <2>3
  <2>5. /\ stats.idle + lost.idle + (st'.cad_idle_seq - last.idle) = handled'.idle
        /\ ~(st'.cad_idle_seq < last.idle)
    BY <1>3, <1>5, <1>6, <2>1, <2>2, <2>3
  <2> QED BY <2>2, <2>4, <2>5 DEF CountedOnce
<1> QED BY <1>7, <1>8, <1>9 DEF IInv

(* A collect moves what is pending into the statistics. *)
LEMMA CollectCounts ==
    ASSUME IInv, Collect
    PROVE  /\ last' = [busy |-> st.cad_busy_seq, idle |-> st.cad_idle_seq]
           /\ last' \in Counts /\ stats' \in Counts
           /\ stats'.busy + lost.busy = handled.busy
           /\ stats'.idle + lost.idle = handled.idle
<1>1. ConfTypeOK /\ CountedOnce
  BY DEF IInv
<1> DEFINE b == CollectOne(st.cad_busy_seq, last.busy, stats.busy)
           i == CollectOne(st.cad_idle_seq, last.idle, stats.idle)
<1>2. /\ b.last = st.cad_busy_seq
      /\ b.events = stats.busy +
            IF st.cad_busy_seq < last.busy THEN 0 ELSE st.cad_busy_seq - last.busy
      /\ b.events \in Nat
  BY <1>1, CounterTypes, CollectOneCounts
<1>3. /\ i.last = st.cad_idle_seq
      /\ i.events = stats.idle +
            IF st.cad_idle_seq < last.idle THEN 0 ELSE st.cad_idle_seq - last.idle
      /\ i.events \in Nat
  BY <1>1, CounterTypes, CollectOneCounts
<1>4. /\ last' = [busy |-> b.last, idle |-> i.last]
      /\ stats' = [busy |-> b.events, idle |-> i.events]
  BY DEF Collect
<1> HIDE DEF b, i
<1>5. /\ stats.busy + lost.busy +
            (IF st.cad_busy_seq < last.busy THEN 0 ELSE st.cad_busy_seq - last.busy) = handled.busy
      /\ stats.idle + lost.idle +
            (IF st.cad_idle_seq < last.idle THEN 0 ELSE st.cad_idle_seq - last.idle) = handled.idle
  BY <1>1 DEF CountedOnce
<1>6. last' = [busy |-> st.cad_busy_seq, idle |-> st.cad_idle_seq]
  BY <1>2, <1>3, <1>4
<1>7. last' \in Counts /\ stats' \in Counts
  BY <1>1, <1>2, <1>3, <1>4, <1>6, CounterTypes DEF Counts
<1>8. /\ stats'.busy = b.events
      /\ stats'.idle = i.events
  BY <1>4
<1>9. b.events + lost.busy = handled.busy /\ i.events + lost.idle = handled.idle
  BY <1>1, <1>2, <1>3, <1>5, CounterTypes
<1> QED BY <1>6, <1>7, <1>8, <1>9

(* A collect that leaves the connection alone preserves the invariant. *)
LEMMA CollectInv ==
    ASSUME IInv, Collect, phase' \in {"drain", "select"},
           UNCHANGED <<up, line, discard, st, stream, handled, lost, conns>>
    PROVE  IInv'
<1>1. /\ last' = [busy |-> st.cad_busy_seq, idle |-> st.cad_idle_seq]
      /\ last' \in Counts /\ stats' \in Counts
      /\ stats'.busy + lost.busy = handled.busy
      /\ stats'.idle + lost.idle = handled.idle
  BY CollectCounts
<1>2. ConfTypeOK'
  BY <1>1, Zenon DEF IInv, ConfTypeOK
<1>3. /\ last'.busy = st.cad_busy_seq /\ last'.idle = st.cad_idle_seq
      /\ st.cad_busy_seq \in Nat /\ st.cad_idle_seq \in Nat
      /\ stats'.busy \in Nat /\ stats'.idle \in Nat /\ lost.busy \in Nat /\ lost.idle \in Nat
      /\ st' = st /\ handled' = handled /\ lost' = lost
  BY <1>1, CounterTypes DEF IInv, Counts
<1>4. CollectedOfThisConnection'
  <2>1. last'.busy <= st'.cad_busy_seq /\ last'.idle <= st'.cad_idle_seq
    BY <1>3
  <2>2. st = Zero => last' = None
    BY <1>1, ZeroType DEF None
  <2>3. ~up => st = Zero
    BY DEF IInv, CollectedOfThisConnection
  <2> QED BY <1>3, <2>1, <2>2, <2>3, Zenon DEF CollectedOfThisConnection
<1>5. CountedOnce'
  BY <1>1, <1>3 DEF CountedOnce
<1> QED BY <1>2, <1>4, <1>5 DEF IInv

(* The end of a select without a connection collects nothing. *)
LEMMA SelectDownInv ==
    ASSUME IInv, SelectEnds, ~up
    PROVE  IInv'
<1>1. UNCHANGED <<last, stats, up, line, discard, st, stream, handled, lost, conns>> /\ phase' = "drain"
  BY DEF SelectEnds
<1>2. ConfTypeOK'
  BY <1>1, Zenon DEF IInv, ConfTypeOK
<1>3. CollectedOfThisConnection'
  BY <1>1, Zenon DEF IInv, CollectedOfThisConnection
<1>4. CountedOnce'
  BY <1>1 DEF IInv, CountedOnce
<1> QED BY <1>2, <1>3, <1>4 DEF IInv

(* A new connection starts from zero, and so does what was collected. *)
LEMMA ConnectInv ==
    ASSUME IInv, Connect
    PROVE  IInv'
<1>1. ConfTypeOK /\ last = None /\ st = Zero
  BY DEF IInv, Connect, CollectedOfThisConnection
<1>2. /\ st' = Zero /\ phase' = "drain" /\ up' = TRUE /\ line' = <<>> /\ discard' = FALSE
      /\ stream' = <<>> /\ UNCHANGED <<last, stats, handled, lost>>
  BY DEF Connect
<1>3. ConfTypeOK'
  <2>1. <<>> \in Seq(Atoms \ {"nl", "cr"}) /\ Len(<<>>) < LineMax /\ <<>> \in Seq(Atoms)
    BY LineMaxAssumption
  <2>2. conns' \in 0..MaxConns
    BY <1>1, ConfBoundsAssumption DEF ConfTypeOK, Connect
  <2> QED BY <1>1, <1>2, <2>1, <2>2, ZeroType, Zenon DEF ConfTypeOK, State
<1>4. CollectedOfThisConnection'
  <2>1. last.busy <= Zero.cad_busy_seq /\ last.idle <= Zero.cad_idle_seq
    BY <1>1, ZeroType
  <2> QED BY <1>2, <2>1, Zenon DEF CollectedOfThisConnection
<1>5. CountedOnce'
  BY <1>1, <1>2 DEF IInv, CountedOnce
<1> QED BY <1>3, <1>4, <1>5 DEF IInv

(* What was not collected when the connection ends is lost, and nothing    *)
(* else.                                                                   *)
LEMMA DisconnectInv ==
    ASSUME IInv, Disconnect
    PROVE  IInv'
<1>1. ConfTypeOK /\ up /\ CountedOnce
      /\ last.busy <= st.cad_busy_seq /\ last.idle <= st.cad_idle_seq
  BY DEF IInv, Disconnect, CollectedOfThisConnection
<1>2. /\ up' = FALSE /\ line' = <<>> /\ discard' = FALSE /\ st' = Zero /\ phase' = "drain"
      /\ lost' = [busy |-> lost.busy + (st.cad_busy_seq - last.busy),
                  idle |-> lost.idle + (st.cad_idle_seq - last.idle)]
      /\ UNCHANGED <<last, stats, stream, handled, conns>>
  BY DEF Disconnect
<1>3. /\ lost'.busy = lost.busy + (st.cad_busy_seq - last.busy)
      /\ lost'.idle = lost.idle + (st.cad_idle_seq - last.idle)
      /\ lost'.busy \in Nat /\ lost'.idle \in Nat
      /\ lost' \in Counts
  <2>1. /\ lost.busy + (st.cad_busy_seq - last.busy) \in Nat
        /\ lost.idle + (st.cad_idle_seq - last.idle) \in Nat
    BY <1>1, CounterTypes
  <2> QED BY <1>2, <2>1 DEF Counts
<1>4. ConfTypeOK'
  <2>1. <<>> \in Seq(Atoms \ {"nl", "cr"}) /\ Len(<<>>) < LineMax
    BY LineMaxAssumption
  <2> QED BY <1>1, <1>2, <1>3, <2>1, ZeroType, Zenon DEF ConfTypeOK, State
<1>5. CollectedOfThisConnection'
  BY <1>2, Zenon DEF CollectedOfThisConnection
<1>6. CountedOnce'
  <2>1. st'.cad_busy_seq = 0 /\ st'.cad_idle_seq = 0
    BY <1>2, ZeroType
  <2>2. last' = last /\ stats' = stats /\ handled' = handled
    BY <1>2
  <2> QED BY <1>1, <1>3, <2>1, <2>2, CounterTypes DEF CountedOnce
<1> QED BY <1>4, <1>5, <1>6 DEF IInv

(* The invariant is inductive. *)
LEMMA StepInv == IInv /\ [ConfNext]_confVars => IInv'
<1> SUFFICES ASSUME IInv, [ConfNext]_confVars PROVE IInv'
  OBVIOUS
<1>1. CASE \E a \in Atoms : Read(a)
  BY <1>1, ReadInv
<1>2. CASE DrainEnds
  BY <1>2, CollectInv DEF DrainEnds
<1>3. CASE SelectEnds
  <2>1. CASE up
    BY <1>3, <2>1, CollectInv DEF SelectEnds
  <2>2. CASE ~up
    BY <1>3, <2>2, SelectDownInv
  <2> QED BY <2>1, <2>2
<1>4. CASE Connect
  BY <1>4, ConnectInv
<1>5. CASE Disconnect
  BY <1>5, DisconnectInv
<1>6. CASE UNCHANGED confVars
  <2>1. UNCHANGED <<up, line, discard, st, last, stats, phase, stream, handled, lost, conns>>
    BY <1>6 DEF confVars
  <2>2. ConfTypeOK'
    BY <2>1, Zenon DEF IInv, ConfTypeOK
  <2>3. CollectedOfThisConnection'
    BY <2>1, Zenon DEF IInv, CollectedOfThisConnection
  <2>4. CountedOnce'
    BY <2>1 DEF IInv, CountedOnce
  <2> QED BY <2>2, <2>3, <2>4 DEF IInv
<1> QED BY <1>1, <1>2, <1>3, <1>4, <1>5, <1>6 DEF ConfNext

(* The inductive invariant holds in every reachable state. *)
LEMMA Invariance == ConfSpec => []IInv
BY InitInv, StepInv, PTL DEF ConfSpec

-----------------------------------------------------------------------------
(* The theorems. *)

(* Every variable keeps its type; above all, the line under assembly stays *)
(* below LHKT_CONF_LINE_MAX whatever the daemon sends (bridge_conf_feed).  *)
THEOREM TypeCorrect == ConfSpec => []ConfTypeOK
<1>1. IInv => ConfTypeOK
  BY DEF IInv
<1> QED BY <1>1, Invariance, PTL

(* Every CAD event of any number of connections is counted once, lost with *)
(* its connection, or pending (bridge_conf_collect_cad_stats).             *)
THEOREM CadCountedOnce == ConfSpec => []CountedOnce
<1>1. IInv => CountedOnce
  BY DEF IInv
<1> QED BY <1>1, Invariance, PTL

-----------------------------------------------------------------------------
(* The lines of the stream *)

(* The fold over the lines, for the lemmas about folds. *)
HandleEach(s, l, c) == HandleLine(s, l)

Handling == INSTANCE FoldLemmas WITH Op <- HandleEach

(* One line more is handled after the others. *)
LEMMA HandledOneMore ==
    /\ FoldLeft(HandleLine, Zero, <<>>) = Zero
    /\ \A ls \in Seq(Seq(Atoms)) : \A l \in Seq(Atoms) :
          FoldLeft(HandleLine, Zero, Append(ls, l)) = HandleLine(FoldLeft(HandleLine, Zero, ls), l)
<1>1. \A ls : Handling!Folded(Zero, ls, 0) = FoldLeft(HandleLine, Zero, ls)
  BY DEF Handling!Folded, Handling!FoldLeft, Handling!MapThenFoldSet, Handling!Max,
         FoldLeft, MapThenFoldSet, Max, HandleEach
<1>2. Handling!Folded(Zero, <<>>, 0) = Zero
  BY Handling!FoldEmpty
<1>3. ASSUME NEW ls \in Seq(Seq(Atoms)), NEW l \in Seq(Atoms)
      PROVE  Handling!Folded(Zero, Append(ls, l), 0) = HandleEach(Handling!Folded(Zero, ls, 0), l, 0)
  BY Handling!FoldAppend
<1> QED BY <1>1, <1>2, <1>3 DEF HandleEach

(* One atom more of a text. *)
LEMMA TextAppend ==
    /\ Text(<<>>) = <<>>
    /\ \A s \in Seq(Atoms) : Text(s) \in Seq(Atoms)
    /\ \A s \in Seq(Atoms) : \A a \in Atoms :
          Text(Append(s, a)) = IF a = "cr" THEN Text(s) ELSE Append(Text(s), a)
<1> DEFINE piece(a) == IF a = "cr" THEN <<>> ELSE <<a>>
           pieces(s) == [i \in DOMAIN s |-> piece(s[i])]
<1>1. \A a \in Atoms : piece(a) \in Seq(Atoms)
  OBVIOUS
<1>2. ASSUME NEW s \in Seq(Atoms)
      PROVE  /\ pieces(s) \in Seq(Seq(Atoms)) /\ Len(pieces(s)) = Len(s)
             /\ \A i \in 1..Len(s) : pieces(s)[i] = piece(s[i])
  <2>1. Len(s) \in Nat /\ DOMAIN s = 1..Len(s) /\ \A i \in 1..Len(s) : s[i] \in Atoms
    OBVIOUS
  <2> HIDE DEF piece
  <2>2. pieces(s) \in [1..Len(s) -> Seq(Atoms)]
    BY <1>1, <2>1
  <2> QED BY <2>1, <2>2
<1>3. Text(<<>>) = <<>>
  <2>1. pieces(<<>>) = <<>>
    OBVIOUS
  <2> QED BY <2>1, FlattenEmpty DEF Text
<1>4. \A s \in Seq(Atoms) : Text(s) \in Seq(Atoms)
  <2> HIDE DEF piece
  <2> QED BY <1>2, FlattenType DEF Text, piece
<1>5. ASSUME NEW s \in Seq(Atoms), NEW a \in Atoms
      PROVE  Text(Append(s, a)) = IF a = "cr" THEN Text(s) ELSE Append(Text(s), a)
  <2> DEFINE t == Append(s, a)
             p == pieces(s)
             q == pieces(t)
  <2>1. t \in Seq(Atoms) /\ Len(t) = Len(s) + 1 /\ Len(s) \in Nat
        /\ \A i \in 1..Len(s) : t[i] = s[i] /\ i \in 1..Len(t)
        /\ t[Len(s) + 1] = a /\ Len(s) + 1 \in 1..Len(t)
    OBVIOUS
  <2>2. Text(s) = FlattenSeq(p) /\ Text(t) = FlattenSeq(q)
    BY DEF Text
  <2> HIDE DEF piece, t
  <2>3. /\ p \in Seq(Seq(Atoms)) /\ Len(p) = Len(s) /\ \A i \in 1..Len(s) : p[i] = piece(s[i])
        /\ q \in Seq(Seq(Atoms)) /\ Len(q) = Len(t) /\ \A i \in 1..Len(t) : q[i] = piece(t[i])
    BY <1>2, <2>1
  <2> HIDE DEF p, q, pieces
  <2>4. q = Append(p, piece(a))
    <3>1. Len(q) = Len(p) + 1 /\ \A i \in 1..Len(p) : q[i] = p[i]
      BY <2>1, <2>3
    <3>2. q[Len(p) + 1] = piece(a)
      <4>1. q[Len(s) + 1] = piece(t[Len(s) + 1])
        BY <2>1, <2>3
      <4>2. Len(p) = Len(s)
        BY <2>3
      <4>3. t[Len(s) + 1] = a
        BY DEF t
      <4> QED BY <4>1, <4>2, <4>3, Zenon
    <3> QED BY <2>3, <3>1, <3>2, AppendOf
  <2>5. FlattenSeq(q) = FlattenSeq(p) \o piece(a)
    BY <1>1, <2>3, <2>4, FlattenAppend
  <2>6. Text(s) \in Seq(Atoms)
    BY <1>4
  <2>7. CASE a = "cr"
    <3>1. Text(s) \o <<>> = Text(s)
      BY <2>6, ConcatEmptySeq
    <3> QED BY <2>2, <2>5, <2>7, <3>1 DEF t, piece
  <2>8. CASE a # "cr"
    <3>1. Text(s) \o <<a>> = Append(Text(s), a)
      BY <2>6, AppendIsConcat
    <3> QED BY <2>2, <2>5, <2>8, <3>1 DEF t, piece
  <2> QED BY <2>7, <2>8
<1> QED BY <1>3, <1>4, <1>5

(* The line that is being read. *)
Current(s) == LineTo(s, Len(s) + 1)

LEMMA LineToAfter == \A s, k : LineTo(s, k) = Text(SubSeq(s, After(s, "nl", k), k - 1))
BY DEF LineTo, After

(* Lines that have ended stay. *)
LEMMA LineStays ==
    ASSUME NEW s \in Seq(Atoms), NEW a \in Atoms, NEW k \in 1..(Len(s) + 1)
    PROVE  LineTo(Append(s, a), k) = LineTo(s, k) /\ LineTo(s, k) \in Seq(Atoms)
<1> DEFINE b == After(s, "nl", k)
<1>1. k \in Nat \ {0} /\ k - 1 \in 0..Len(s) /\ Len(s) \in Nat
  OBVIOUS
<1>2. b \in Nat \ {0}
  BY <1>1, AfterProperties
<1>3. After(Append(s, a), "nl", k) = b
  BY AfterStays
<1> HIDE DEF b
<1>4. SubSeq(Append(s, a), b, k - 1) = SubSeq(s, b, k - 1)
  BY <1>1, <1>2, SubSeqSame
<1>5. SubSeq(s, b, k - 1) \in Seq(Atoms)
  <2>1. \A i \in b..(k - 1) : s[i] \in Atoms
    BY <1>1, <1>2
  <2> QED BY <1>1, <1>2, <2>1, SubSeqProperties
<1> QED BY <1>3, <1>4, <1>5, LineToAfter, TextAppend DEF b

(* The line being read grows, or the next one begins. *)
LEMMA CurrentGrows ==
    ASSUME NEW s \in Seq(Atoms), NEW a \in Atoms
    PROVE  Current(Append(s, a)) = CASE a = "nl" -> <<>>
                                     [] a = "cr" -> Current(s)
                                     [] OTHER -> Append(Current(s), a)
<1> DEFINE t == Append(s, a)
           n == Len(s)
           b == After(s, "nl", n + 1)
<1>1. n \in Nat /\ t \in Seq(Atoms) /\ Len(t) = n + 1 /\ (n + 2) - 1 = n + 1 /\ (n + 1) + 1 = n + 2
  OBVIOUS
<1>2. Current(t) = Text(SubSeq(t, After(t, "nl", n + 2), n + 1))
  <2> HIDE DEF t, n
  <2> QED BY <1>1, LineToAfter DEF Current
<1>3. After(t, "nl", n + 2) = IF a = "nl" THEN n + 2 ELSE b
  BY AfterAppend
<1>4. CASE a = "nl"
  <2>1. SubSeq(t, n + 2, n + 1) = <<>>
    <3> HIDE DEF n, t
    <3> QED BY <1>1, SubSeqEmpty
  <2> QED BY <1>2, <1>3, <1>4, <2>1, TextAppend
<1>5. CASE a # "nl"
  <2>1. b \in 1..(n + 1)
    BY <1>1, AfterProperties
  <2>2. Current(s) = Text(SubSeq(s, b, n))
    <3>1. (n + 1) - 1 = n
      BY <1>1
    <3> QED BY <3>1, LineToAfter DEF Current
  <2> HIDE DEF b
  <2>3. SubSeq(s, b, n) \in Seq(Atoms) /\ SubSeq(t, b, n + 1) = Append(SubSeq(s, b, n), a)
    BY <2>1, SubSeqAppend
  <2>4. Current(t) = Text(Append(SubSeq(s, b, n), a))
    BY <1>2, <1>3, <1>5, <2>3
  <2> HIDE DEF t, n
  <2>5. Current(t) = IF a = "cr" THEN Current(s) ELSE Append(Current(s), a)
    BY <2>2, <2>3, <2>4, TextAppend
  <2> QED BY <1>5, <2>5 DEF t
<1> QED BY <1>4, <1>5

(* A line is complete. *)
LEMMA WholeLinesAppend ==
    ASSUME NEW s \in Seq(Atoms), NEW a \in Atoms
    PROVE  /\ WholeLines(s) \in Seq(Seq(Atoms))
           /\ WholeLines(Append(s, a)) =
                IF a = "nl" /\ Len(Current(s)) < LineMax
                THEN Append(WholeLines(s), Current(s)) ELSE WholeLines(s)
<1> DEFINE piece(u, k) == IF u[k] = "nl" /\ Len(LineTo(u, k)) < LineMax THEN <<LineTo(u, k)>> ELSE <<>>
           pieces(u) == [k \in DOMAIN u |-> piece(u, k)]
           t == Append(s, a)
           n == Len(s)
           p == pieces(s)
           q == pieces(t)
<1>1. /\ n \in Nat /\ t \in Seq(Atoms) /\ Len(t) = n + 1 /\ t[n + 1] = a
      /\ DOMAIN s = 1..n /\ DOMAIN t = 1..(n + 1)
      /\ \A i \in 1..n : t[i] = s[i] /\ i \in 1..(n + 1)
      /\ n + 1 \in 1..(n + 1)
  OBVIOUS
<1>2. \A k \in 1..(n + 1) : LineTo(t, k) = LineTo(s, k) /\ LineTo(s, k) \in Seq(Atoms)
  BY LineStays
<1>3. WholeLines(s) = FlattenSeq(p) /\ WholeLines(t) = FlattenSeq(q)
  BY DEF WholeLines
<1> HIDE DEF t, n
<1>4. \A k \in 1..n : piece(s, k) \in Seq(Seq(Atoms)) /\ piece(t, k) = piece(s, k)
  BY <1>1, <1>2
<1>5. /\ piece(t, n + 1) = IF a = "nl" /\ Len(Current(s)) < LineMax THEN <<Current(s)>> ELSE <<>>
      /\ piece(t, n + 1) \in Seq(Seq(Atoms)) /\ Current(s) \in Seq(Atoms)
  BY <1>1, <1>2 DEF Current, n
<1> HIDE DEF piece
<1>6. /\ p \in Seq(Seq(Seq(Atoms))) /\ Len(p) = n /\ \A k \in 1..n : p[k] = piece(s, k)
  <2>1. p \in [1..n -> Seq(Seq(Atoms))]
    BY <1>1, <1>4
  <2> QED BY <1>1, <2>1
<1>7. /\ q \in Seq(Seq(Seq(Atoms))) /\ Len(q) = n + 1 /\ \A k \in 1..(n + 1) : q[k] = piece(t, k)
  <2>1. \A k \in 1..(n + 1) : piece(t, k) \in Seq(Seq(Atoms))
    <3>1. \A k \in 1..(n + 1) : k \in 1..n \/ k = n + 1
      BY <1>1
    <3> QED BY <1>4, <1>5, <3>1, Zenon
  <2>2. q \in [1..(n + 1) -> Seq(Seq(Atoms))]
    BY <1>1, <2>1
  <2> QED BY <1>1, <2>2
<1> HIDE DEF p, q, pieces
<1>8. q = Append(p, piece(t, n + 1))
  <2>1. Len(q) = Len(p) + 1 /\ \A i \in 1..Len(p) : q[i] = p[i]
    BY <1>1, <1>4, <1>6, <1>7
  <2>2. q[Len(p) + 1] = piece(t, n + 1)
    BY <1>1, <1>6, <1>7
  <2> QED BY <1>6, <1>7, <2>1, <2>2, AppendOf
<1>9. FlattenSeq(q) = FlattenSeq(p) \o piece(t, n + 1)
  BY <1>5, <1>6, <1>8, FlattenAppend
<1>10. WholeLines(s) \in Seq(Seq(Atoms))
  BY <1>3, <1>6, FlattenType
<1>11. CASE a = "nl" /\ Len(Current(s)) < LineMax
  <2>1. WholeLines(s) \o <<Current(s)>> = Append(WholeLines(s), Current(s))
    BY <1>5, <1>10, AppendIsConcat
  <2> QED BY <1>3, <1>5, <1>9, <1>10, <1>11, <2>1 DEF t
<1>12. CASE ~(a = "nl" /\ Len(Current(s)) < LineMax)
  <2>1. WholeLines(s) \o <<>> = WholeLines(s)
    BY <1>10, ConcatEmptySeq
  <2>2. piece(t, n + 1) = <<>>
    BY <1>5, <1>12
  <2> QED BY <1>3, <1>9, <1>10, <1>12, <2>1, <2>2 DEF t
<1> QED BY <1>11, <1>12

(* The line buffer holds the line that is being read, or discards it       *)
(* because it is too long already.                                         *)
LineInv ==
    up => /\ st = FoldLeft(HandleLine, Zero, WholeLines(stream))
          /\ IF Len(Current(stream)) < LineMax THEN line = Current(stream) /\ ~discard
             ELSE line = <<>> /\ discard

LEMMA LinesEmpty == WholeLines(<<>>) = <<>> /\ Current(<<>>) = <<>>
<1>1. [k \in DOMAIN <<>> |-> IF <<>>[k] = "nl" /\ Len(LineTo(<<>>, k)) < LineMax
                             THEN <<LineTo(<<>>, k)>> ELSE <<>>] = <<>>
  OBVIOUS
<1>2. WholeLines(<<>>) = <<>>
  BY <1>1, FlattenEmpty DEF WholeLines
<1>3. Len(<<>>) + 1 = 1 /\ 1 - 1 = 0
  OBVIOUS
<1>4. After(<<>>, "nl", 1) = 1
  BY AfterProperties
<1>5. SubSeq(<<>>, 1, 0) = <<>>
  BY SubSeqEmpty
<1>6. Current(<<>>) = <<>>
  BY <1>3, <1>4, <1>5, LineToAfter, TextAppend DEF Current
<1> QED BY <1>2, <1>6

(* One atom of the stream keeps the buffer in step with the line. *)
LEMMA ReadLine ==
    ASSUME IInv, LineInv, NEW a \in Atoms, Read(a)
    PROVE  LineInv'
<1> DEFINE c == Current(stream)
           d == Current(stream')
           w == WholeLines(stream)
<1>1. /\ stream \in Seq(Atoms) /\ stream' = Append(stream, a) /\ up
      /\ Feed(a) /\ LineMax \in Nat \ {0}
  BY LineMaxAssumption DEF IInv, ConfTypeOK, Read
<1>2. /\ w \in Seq(Seq(Atoms)) /\ c \in Seq(Atoms)
      /\ WholeLines(stream') = IF a = "nl" /\ Len(c) < LineMax THEN Append(w, c) ELSE w
  <2>1. c \in Seq(Atoms)
    <3>1. Len(stream) + 1 \in 1..(Len(stream) + 1)
      BY <1>1
    <3> QED BY <1>1, <3>1, LineStays DEF Current
  <2> QED BY <1>1, <2>1, WholeLinesAppend
<1>3. d = CASE a = "nl" -> <<>> [] a = "cr" -> c [] OTHER -> Append(c, a)
  BY <1>1, CurrentGrows
<1>4. /\ st = FoldLeft(HandleLine, Zero, w)
      /\ Len(c) < LineMax => line = c /\ discard = FALSE
      /\ ~(Len(c) < LineMax) => line = <<>> /\ discard = TRUE
  <2>1. discard \in BOOLEAN
    BY DEF IInv, ConfTypeOK
  <2> HIDE DEF c
  <2>2. /\ st = FoldLeft(HandleLine, Zero, w)
        /\ Len(c) < LineMax => line = c /\ ~discard
        /\ ~(Len(c) < LineMax) => line = <<>> /\ discard
    BY <1>1, Zenon DEF LineInv, c
  <2> QED BY <2>1, <2>2, Zenon
<1> HIDE DEF c, d, w
<1> SUFFICES /\ st' = FoldLeft(HandleLine, Zero, WholeLines(stream'))
             /\ Len(d) < LineMax => line' = d /\ ~discard'
             /\ ~(Len(d) < LineMax) => line' = <<>> /\ discard'
  BY Zenon DEF LineInv, d
<1>5. Len(c) \in Nat
  BY <1>2
<1>6. CASE a = "cr"
  <2>1. st' = st /\ line' = line /\ discard' = discard
    BY <1>1, <1>6 DEF Feed
  <2>2. d = c /\ WholeLines(stream') = w
    BY <1>2, <1>3, <1>6
  <2> QED BY <1>4, <2>1, <2>2, Zenon
<1>7. CASE a = "nl"
  <2>1. discard' = FALSE /\ line' = <<>> /\ st' = IF discard THEN st ELSE HandleLine(st, line)
    BY <1>1, <1>7 DEF Feed
  <2>2. d = <<>>
    BY <1>3, <1>7
  <2>3. Len(d) < LineMax
    BY <1>1, <2>2
  <2>4. CASE Len(c) < LineMax
    <3>1. WholeLines(stream') = Append(w, c)
      BY <1>2, <1>7, <2>4
    <3>2. st' = HandleLine(st, c)
      BY <1>4, <2>1, <2>4, Zenon
    <3>3. FoldLeft(HandleLine, Zero, Append(w, c)) = HandleLine(FoldLeft(HandleLine, Zero, w), c)
      BY <1>2, HandledOneMore, Zenon
    <3>4. st' = FoldLeft(HandleLine, Zero, WholeLines(stream'))
      BY <1>4, <3>1, <3>2, <3>3, Zenon
    <3> QED BY <2>1, <2>2, <2>3, <3>4, Zenon
  <2>5. CASE ~(Len(c) < LineMax)
    <3>1. WholeLines(stream') = w
      BY <1>2, <2>5
    <3>2. st' = st
      BY <1>4, <2>1, <2>5, Zenon
    <3> QED BY <1>4, <2>1, <2>2, <2>3, <3>1, <3>2, Zenon
  <2> QED BY <2>4, <2>5
<1>8. CASE a \notin {"cr", "nl"}
  <2>1. d = Append(c, a) /\ WholeLines(stream') = w /\ Len(d) = Len(c) + 1
    BY <1>2, <1>3, <1>8
  <2>2. CASE ~(Len(c) < LineMax)
    <3>1. discard /\ line = <<>>
      BY <1>4, <2>2, Zenon
    <3>2. st' = st /\ line' = line /\ discard' = discard
      BY <1>1, <1>8, <3>1 DEF Feed
    <3>3. ~(Len(d) < LineMax)
      BY <1>1, <1>5, <2>1, <2>2
    <3> QED BY <1>4, <2>1, <3>1, <3>2, <3>3, Zenon
  <2>3. CASE Len(c) < LineMax /\ Len(c) + 1 >= LineMax
    <3>1. ~discard /\ line = c
      BY <1>4, <2>3, Zenon
    <3>2. st' = st /\ line' = <<>> /\ discard' = TRUE
      BY <1>1, <1>8, <2>3, <3>1 DEF Feed
    <3>3. ~(Len(d) < LineMax)
      BY <1>1, <1>5, <2>1, <2>3
    <3> QED BY <1>4, <2>1, <3>2, <3>3, Zenon
  <2>4. CASE Len(c) < LineMax /\ ~(Len(c) + 1 >= LineMax)
    <3>1. ~discard /\ line = c
      BY <1>4, <2>4, Zenon
    <3>2. st' = st /\ line' = Append(c, a) /\ discard' = discard
      BY <1>1, <1>8, <2>4, <3>1 DEF Feed
    <3>3. Len(d) < LineMax
      BY <1>1, <1>5, <2>1, <2>4
    <3> QED BY <1>4, <2>1, <3>1, <3>2, <3>3, Zenon
  <2> QED BY <2>2, <2>3, <2>4
<1> QED BY <1>6, <1>7, <1>8

(* The buffer follows the stream on every connection. *)
LEMMA StepLine == IInv /\ LineInv /\ [ConfNext]_confVars => LineInv'
<1> SUFFICES ASSUME IInv, LineInv, [ConfNext]_confVars PROVE LineInv'
  OBVIOUS
<1>1. CASE \E a \in Atoms : Read(a)
  BY <1>1, ReadLine
<1>2. CASE UNCHANGED <<up, line, discard, st, stream>>
  BY <1>2, Zenon DEF LineInv
<1>3. CASE Connect
  <2>1. line' = <<>> /\ discard' = FALSE /\ st' = Zero /\ stream' = <<>>
    BY <1>3 DEF Connect
  <2>2. Len(<<>>) < LineMax
    BY LineMaxAssumption
  <2> QED BY <2>1, <2>2, LinesEmpty, HandledOneMore, Zenon DEF LineInv
<1>4. CASE Disconnect
  <2>1. up' = FALSE
    BY <1>4 DEF Disconnect
  <2> QED BY <2>1, Zenon DEF LineInv
<1>5. DrainEnds \/ SelectEnds \/ UNCHANGED confVars => UNCHANGED <<up, line, discard, st, stream>>
  BY DEF DrainEnds, SelectEnds, confVars
<1> QED BY <1>1, <1>2, <1>3, <1>4, <1>5 DEF ConfNext

(* On every connection the state is what its whole lines say, in their     *)
(* order: bridge_conf_feed never acts on a part of a line, on two lines    *)
(* run together, or on the tail of one that did not fit.                   *)
THEOREM LinesAreWhole == ConfSpec => []StateOfWholeLines
<1>1. ConfInit => LineInv
  BY DEF ConfInit, LineInv
<1>2. LineInv => StateOfWholeLines
  BY Zenon DEF LineInv, StateOfWholeLines
<1> QED BY <1>1, <1>2, StepLine, Invariance, PTL DEF ConfSpec
=============================================================================
