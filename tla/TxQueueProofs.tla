---------------------------- MODULE TxQueueProofs ---------------------------
(* Machine-checked proofs about TxQueue, for every ring size, limit,       *)
(* lifetime and timeout.                                                   *)
EXTENDS TxQueue, SequenceTheorems, TLAPS

(* What (head + i) % QueueMax is for an i within the ring. *)
LEMMA RingIndex ==
    ASSUME NEW M \in Nat \ {0}, NEW h \in 0..(M - 1), NEW i \in 0..M
    PROVE  (h + i) % M = IF h + i < M THEN h + i ELSE h + i - M
<1>1. CASE h + i < M
  BY <1>1, SMT
<1>2. CASE ~(h + i < M)
  BY <1>2, SMT
<1> QED BY <1>1, <1>2

(* The limit is within the ring: 1 <= Limit <= QueueMax. *)
LEMMA LimitRange == Limit \in 1..QueueMax
BY QueueMaxAssumption, ConfigAssumption DEF Limit

-----------------------------------------------------------------------------
(* The inductive invariant. *)

(* Packets and queueing times increase from the head to the tail, and      *)
(* everything waiting is newer than what was sent.                         *)
Ordered ==
    /\ \A i, j \in 0..(count - 1) : i < j =>
            /\ At(i).pkt < At(j).pkt
            /\ At(i).queued_ms <= At(j).queued_ms
    /\ \A i \in 0..(count - 1) :
            /\ At(i).pkt > lastSent
            /\ At(i).pkt <= submitted
            /\ At(i).queued_ms <= now
    /\ lastSent <= submitted

(* The clock does not run backwards. *)
TimesPassed == decided <= now /\ released <= now

IInv ==
    /\ TypeOK
    /\ Ordered
    /\ TimesPassed
    /\ FreshAtLastDecision
    /\ WaitBelongsToHead

(* Every waiting item lies in a slot of the ring and is an item. *)
LEMMA AtType ==
    ASSUME TypeOK, NEW i \in 0..QueueMax
    PROVE  /\ Index(i) \in Slots
           /\ Index(i) = IF head + i < QueueMax THEN head + i ELSE head + i - QueueMax
           /\ At(i) \in Item
<1>1. Index(i) = IF head + i < QueueMax THEN head + i ELSE head + i - QueueMax
  BY RingIndex, QueueMaxAssumption DEF Index, TypeOK, Slots
<1>2. Index(i) \in Slots
  BY <1>1, QueueMaxAssumption DEF TypeOK, Slots
<1> QED BY <1>1, <1>2 DEF At, TypeOK

(* Two different positions of the ring are two different slots. *)
LEMMA IndexInjective ==
    ASSUME TypeOK, NEW i \in 0..(QueueMax - 1), NEW j \in 0..(QueueMax - 1), i # j
    PROVE  Index(i) # Index(j)
<1>1. Index(i) = IF head + i < QueueMax THEN head + i ELSE head + i - QueueMax
  BY AtType, QueueMaxAssumption
<1>2. Index(j) = IF head + j < QueueMax THEN head + j ELSE head + j - QueueMax
  BY AtType, QueueMaxAssumption
<1>3. head \in 0..(QueueMax - 1)
  BY DEF TypeOK, Slots
<1> QED BY <1>1, <1>2, <1>3, QueueMaxAssumption

(* The item bridge_tx_queue_push stores. *)
NewItem(len) == [pkt |-> submitted + 1, packet_len |-> len,
                 queued_ms |-> now, tx_wait_start_ms |-> 0]

(* bridge_tx_queue_push puts the new item behind the others and moves none. *)
LEMMA PushAt ==
    ASSUME TypeOK, NEW len \in Lengths, Push(len), PushFits(len)
    PROVE  /\ count' = count + 1
           /\ count \in 0..(QueueMax - 1)
           /\ \A i \in 0..count : At(i)' = IF i = count THEN NewItem(len) ELSE At(i)
<1>1. count' = count + 1 /\ count \in 0..(QueueMax - 1)
  BY LimitRange, QueueMaxAssumption DEF Push, PushFits, TypeOK
<1>2. ASSUME NEW i \in 0..count
      PROVE  At(i)' = IF i = count THEN NewItem(len) ELSE At(i)
  <2>1. Index(i)' = Index(i)
    BY DEF Push, Index
  <2>2. i # count => Index(i) # Index(count)
    <3>1. i \in 0..(QueueMax - 1) /\ count \in 0..(QueueMax - 1)
      BY <1>1, QueueMaxAssumption
    <3> QED BY <3>1, IndexInjective
  <2>3. Index(i) \in Slots /\ Index(count) \in Slots
    BY <1>1, AtType, QueueMaxAssumption
  <2>4. items' = [items EXCEPT ![Index(count)] = NewItem(len)]
    BY DEF Push, NewItem
  <2>5. items \in [Slots -> Item]
    BY DEF TypeOK
  <2> QED BY <2>1, <2>2, <2>3, <2>4, <2>5 DEF At
<1> QED BY <1>1, <1>2

(* bridge_tx_queue_pop makes every item but the head move up one place. *)
LEMMA PopAt ==
    ASSUME TypeOK, ~Empty, Pop
    PROVE  /\ count' = count - 1
           /\ count' \in 0..(QueueMax - 1)
           /\ head' \in Slots
           /\ items' \in [Slots -> Item]
           /\ \A i \in 0..(count - 2) : At(i)' = At(i + 1)
<1>1. count' = count - 1 /\ count' \in 0..(QueueMax - 1) /\ count \in 1..QueueMax
  BY LimitRange, QueueMaxAssumption DEF Pop, Empty, TypeOK
<1>2. head \in 0..(QueueMax - 1)
  BY DEF TypeOK, Slots
<1>3. head' = IF head + 1 < QueueMax THEN head + 1 ELSE head + 1 - QueueMax
  <2>1. 1 \in 0..QueueMax
    BY QueueMaxAssumption
  <2>2. (head + 1) % QueueMax = IF head + 1 < QueueMax THEN head + 1
                                ELSE head + 1 - QueueMax
    BY <1>2, <2>1, RingIndex, QueueMaxAssumption
  <2> QED BY <2>2 DEF Pop
<1>4. head' \in Slots
  BY <1>2, <1>3, QueueMaxAssumption DEF Slots
<1>5. NoItem \in Item /\ items \in [Slots -> Item]
  BY DEF NoItem, Item, TypeOK
<1>6. items' = [items EXCEPT ![head] = NoItem] /\ items' \in [Slots -> Item]
  BY <1>5 DEF Pop
<1>7. ASSUME NEW i \in 0..(count - 2)
      PROVE  At(i)' = At(i + 1)
  <2>1. i \in 0..QueueMax /\ i + 1 \in 1..(QueueMax - 1) /\ i + 1 \in 0..QueueMax
    BY <1>1, QueueMaxAssumption
  <2>2. Index(i)' = IF head' + i < QueueMax THEN head' + i ELSE head' + i - QueueMax
    BY <1>4, <2>1, RingIndex, QueueMaxAssumption DEF Index, Slots
  <2>3. Index(i + 1) = IF head + (i + 1) < QueueMax THEN head + (i + 1)
                       ELSE head + (i + 1) - QueueMax
    BY <2>1, AtType
  <2>4. Index(i)' = Index(i + 1)
    BY <1>2, <1>3, <2>1, <2>2, <2>3, QueueMaxAssumption
  <2>5. Index(i + 1) # head /\ Index(i + 1) \in Slots
    BY <1>2, <2>1, <2>3, QueueMaxAssumption DEF Slots
  <2> QED BY <1>5, <1>6, <2>4, <2>5 DEF At
<1> QED BY <1>1, <1>4, <1>6, <1>7

(* The waiting items are items, with natural numbers in them. *)
LEMMA WaitingType ==
    ASSUME TypeOK, NEW i \in 0..(count - 1)
    PROVE  /\ i \in 0..QueueMax
           /\ At(i).pkt \in Nat
           /\ At(i).queued_ms \in Nat
           /\ At(i).tx_wait_start_ms \in Nat
<1>1. i \in 0..QueueMax
  BY LimitRange, QueueMaxAssumption DEF TypeOK
<1>2. At(i) \in Item
  BY <1>1, AtType
<1> QED BY <1>1, <1>2 DEF Item

-----------------------------------------------------------------------------
(* An empty queue satisfies the invariant. *)
LEMMA InitIInv == Init => IInv
<1> SUFFICES ASSUME Init PROVE IInv
  OBVIOUS
<1>1. TypeOK
  BY LimitRange, QueueMaxAssumption, BoundsAssumption
  DEF Init, TypeOK, Slots, NoItem, Item
<1>2. count = 0 /\ now \in Nat /\ lastSent = 0 /\ submitted = 0
      /\ decided = 0 /\ released = 0
  BY BoundsAssumption DEF Init
<1>3. Ordered /\ TimesPassed /\ FreshAtLastDecision /\ WaitBelongsToHead
  BY <1>2 DEF Ordered, TimesPassed, FreshAtLastDecision, WaitBelongsToHead
<1> QED BY <1>1, <1>3 DEF IInv

(* bridge_tx_queue_push keeps the invariant. *)
LEMMA PushIInv ==
    ASSUME IInv, NEW len \in Lengths, Push(len)
    PROVE  IInv'
<1> USE DEF IInv
<1>t. /\ now \in Nat /\ now' = now /\ len \in Nat /\ submitted \in Nat
      /\ submitted' = submitted + 1 /\ lastSent' = lastSent /\ lastSent \in Nat
      /\ decided' = decided /\ released' = released
      /\ decided \in Nat /\ released \in Nat /\ count \in Nat
  BY BoundsAssumption, LimitRange DEF TypeOK, Push
<1>1. CASE PushFits(len)
  <2>1. /\ count' = count + 1
        /\ \A i \in 0..count : At(i)' = IF i = count THEN NewItem(len) ELSE At(i)
    BY <1>1, PushAt
  <2>2. NewItem(len) \in Item
    BY <1>t DEF NewItem, Item
  <2>3. TypeOK'
    <3>1. Index(count) \in Slots
      BY <1>1, AtType, PushAt, QueueMaxAssumption
    <3>2. items' \in [Slots -> Item]
      BY <2>2, <3>1 DEF TypeOK, Push, NewItem
    <3>3. count' \in 0..Limit
      BY <1>1, <2>1, LimitRange DEF PushFits, TypeOK
    <3> QED BY <1>t, <3>2, <3>3 DEF TypeOK, Push, Limit
  <2>4. ASSUME NEW i \in 0..(count' - 1)
        PROVE  /\ i < count => i \in 0..(count - 1) /\ At(i)' = At(i)
               /\ ~(i < count) => i = count /\ At(i)' = NewItem(len)
    BY <1>t, <2>1
  <2>5. /\ NewItem(len).pkt = submitted + 1
        /\ NewItem(len).queued_ms = now
        /\ NewItem(len).tx_wait_start_ms = 0
    BY DEF NewItem
  <2>6. Ordered'
    <3>1. ASSUME NEW i \in 0..(count' - 1), NEW j \in 0..(count' - 1), i < j
          PROVE  /\ At(i)'.pkt < At(j)'.pkt
                 /\ At(i)'.queued_ms <= At(j)'.queued_ms
      <4>1. i \in 0..(count - 1) /\ At(i)' = At(i)
        BY <1>t, <2>1, <2>4, <3>1
      <4>2. At(i).pkt \in Nat /\ At(i).queued_ms \in Nat
        BY <4>1, WaitingType
      <4>3. CASE j < count
        BY <2>4, <3>1, <4>1, <4>3 DEF Ordered
      <4>4. CASE ~(j < count)
        BY <1>t, <2>4, <2>5, <4>1, <4>2, <4>4 DEF Ordered
      <4> QED BY <4>3, <4>4
    <3>2. ASSUME NEW i \in 0..(count' - 1)
          PROVE  /\ At(i)'.pkt > lastSent'
                 /\ At(i)'.pkt <= submitted'
                 /\ At(i)'.queued_ms <= now'
      <4>1. CASE i < count
        BY <1>t, <2>4, <4>1, WaitingType DEF Ordered
      <4>2. CASE ~(i < count)
        BY <1>t, <2>4, <2>5, <4>2 DEF Ordered
      <4> QED BY <4>1, <4>2
    <3>3. lastSent' <= submitted'
      BY <1>t DEF Ordered
    <3> QED BY <3>1, <3>2, <3>3 DEF Ordered
  <2>7. TimesPassed'
    BY <1>t DEF TimesPassed
  <2>8. FreshAtLastDecision'
    BY <1>t, <2>4, <2>5, ConfigAssumption DEF FreshAtLastDecision, TimesPassed
  <2>9. WaitBelongsToHead'
    <3>1. ASSUME NEW i \in 0..(count' - 1)
          PROVE  \/ At(i)'.tx_wait_start_ms = 0
                 \/ i = 0 /\ At(i)'.tx_wait_start_ms \in released'..now'
      <4>1. CASE i < count
        BY <1>t, <2>4, <4>1 DEF WaitBelongsToHead
      <4>2. CASE ~(i < count)
        BY <2>4, <2>5, <4>2
      <4> QED BY <4>1, <4>2
    <3> QED BY <3>1 DEF WaitBelongsToHead
  <2> QED BY <2>3, <2>6, <2>7, <2>8, <2>9
<1>2. CASE ~PushFits(len)
  <2>1. items' = items /\ head' = head /\ count' = count /\ tx_busy' = tx_busy
    BY <1>2 DEF Push
  <2>2. \A i : At(i)' = At(i)
    BY <2>1 DEF At, Index
  <2>3. TypeOK'
    BY <1>t, <2>1 DEF TypeOK, Limit, Push
  <2>4. Ordered'
    <3>1. \A i \in 0..(count - 1) : At(i).pkt \in Nat
      BY WaitingType
    <3> QED BY <1>t, <2>1, <2>2, <3>1 DEF Ordered
  <2>5. TimesPassed' /\ FreshAtLastDecision' /\ WaitBelongsToHead'
    BY <1>t, <2>1, <2>2 DEF TimesPassed, FreshAtLastDecision, WaitBelongsToHead
  <2> QED BY <2>3, <2>4, <2>5
<1> QED BY <1>1, <1>2

(* If the head has not expired, nothing in the queue has. *)
LEMMA HeadExpiresFirst ==
    ASSUME IInv, ~Empty, ~Expired(At(0)), tx_packet_ttl_ms > 0,
           NEW i \in 0..(count - 1)
    PROVE  now - At(i).queued_ms < tx_packet_ttl_ms
<1>1. count \in Nat /\ now \in Nat
  BY LimitRange, BoundsAssumption DEF IInv, TypeOK
<1>2. 0 \in 0..(count - 1)
  BY <1>1 DEF Empty
<1>3. At(0).queued_ms \in Nat /\ At(i).queued_ms \in Nat
  BY <1>2, WaitingType DEF IInv
<1>4. At(0).queued_ms <= At(i).queued_ms
  BY <1>1, <1>2, <1>3 DEF IInv, Ordered
<1>5. now - At(0).queued_ms < tx_packet_ttl_ms
  BY <1>1, <1>3, ConfigAssumption DEF Expired
<1> QED BY <1>1, <1>3, <1>4, <1>5, ConfigAssumption

(* Taking the head off keeps the invariant, whether the packet was sent or *)
(* dropped, and whether the decision was a drop or one to send.            *)
LEMMA PopIInv ==
    ASSUME IInv, ~Empty, Pop, released' = now,
           UNCHANGED <<now, tx_busy, submitted>>,
           lastSent' = lastSent \/ lastSent' = At(0).pkt,
           decided' = decided \/ (decided' = now /\ ~Expired(At(0)))
    PROVE  IInv'
<1> USE DEF IInv
<1>t. /\ now \in Nat /\ now' = now /\ submitted \in Nat /\ submitted' = submitted
      /\ lastSent \in Nat /\ decided \in Nat /\ released \in Nat /\ count \in Nat
      /\ decided <= now /\ released' = now
  BY BoundsAssumption, LimitRange DEF TypeOK, TimesPassed
<1>1. /\ count' = count - 1
      /\ head' \in Slots
      /\ items' \in [Slots -> Item]
      /\ \A i \in 0..(count - 2) : At(i)' = At(i + 1)
  BY PopAt
<1>2. 0 \in 0..(count - 1) /\ count > 0
  BY <1>t DEF Empty
<1>3. At(0).pkt \in Nat /\ At(0).pkt > lastSent /\ At(0).pkt <= submitted
  BY <1>2, WaitingType DEF Ordered
<1>4. /\ lastSent' \in Nat /\ lastSent' <= submitted' /\ lastSent' <= At(0).pkt
      /\ decided' \in Nat /\ decided' <= now
  BY <1>t, <1>3 DEF Ordered
<1>5. ASSUME NEW i \in 0..(count' - 1)
      PROVE  /\ At(i)' = At(i + 1)
             /\ i \in Nat /\ i + 1 \in 0..(count - 1) /\ i + 1 > 0
             /\ At(i + 1).pkt \in Nat /\ At(i + 1).queued_ms \in Nat
             /\ At(i + 1).pkt > At(0).pkt
  <2>1. i \in 0..(count - 2) /\ i + 1 \in 0..(count - 1) /\ i + 1 > 0
    BY <1>t, <1>1, <1>2
  <2>2. At(i + 1).pkt \in Nat /\ At(i + 1).queued_ms \in Nat
    BY <2>1, WaitingType
  <2>3. At(i + 1).pkt > At(0).pkt
    BY <1>2, <1>3, <2>1, <2>2 DEF Ordered
  <2> QED BY <1>1, <2>1, <2>2, <2>3
<1>6. TypeOK'
  <2>1. count' \in 0..Limit
    BY <1>t, <1>1, <1>2, LimitRange DEF TypeOK
  <2> QED BY <1>t, <1>1, <1>4, <2>1 DEF TypeOK, Limit
<1>7. Ordered'
  <2>1. ASSUME NEW i \in 0..(count' - 1), NEW j \in 0..(count' - 1), i < j
        PROVE  /\ At(i)'.pkt < At(j)'.pkt
               /\ At(i)'.queued_ms <= At(j)'.queued_ms
    <3>1. At(i)' = At(i + 1) /\ i + 1 \in 0..(count - 1)
      BY <1>5
    <3>2. At(j)' = At(j + 1) /\ j + 1 \in 0..(count - 1) /\ i + 1 < j + 1
      BY <1>5, <2>1
    <3> QED BY <3>1, <3>2 DEF Ordered
  <2>2. ASSUME NEW i \in 0..(count' - 1)
        PROVE  /\ At(i)'.pkt > lastSent'
               /\ At(i)'.pkt <= submitted'
               /\ At(i)'.queued_ms <= now'
    <3>1. /\ At(i)' = At(i + 1) /\ i + 1 \in 0..(count - 1)
          /\ At(i + 1).pkt \in Nat /\ At(i + 1).pkt > At(0).pkt
      BY <1>5
    <3>2. At(i + 1).pkt <= submitted /\ At(i + 1).queued_ms <= now
      BY <3>1 DEF Ordered
    <3> QED BY <1>t, <1>3, <1>4, <3>1, <3>2
  <2> QED BY <1>4, <2>1, <2>2 DEF Ordered
<1>8. TimesPassed'
  BY <1>t, <1>4 DEF TimesPassed
<1>9. FreshAtLastDecision'
  <2>1. ASSUME NEW i \in 0..(count' - 1), tx_packet_ttl_ms > 0
        PROVE  decided' - At(i)'.queued_ms < tx_packet_ttl_ms
    <3>1. At(i)' = At(i + 1) /\ i + 1 \in 0..(count - 1)
      BY <1>5
    <3>2. CASE decided' = decided
      BY <2>1, <3>1, <3>2 DEF FreshAtLastDecision
    <3>3. CASE decided' = now /\ ~Expired(At(0))
      BY <2>1, <3>1, <3>3, HeadExpiresFirst
    <3> QED BY <3>2, <3>3
  <2> QED BY <2>1 DEF FreshAtLastDecision
<1>10. WaitBelongsToHead'
  <2>1. ASSUME NEW i \in 0..(count' - 1)
        PROVE  At(i)'.tx_wait_start_ms = 0
    BY <1>5 DEF WaitBelongsToHead
  <2> QED BY <2>1 DEF WaitBelongsToHead
<1> QED BY <1>6, <1>7, <1>8, <1>9, <1>10

(* Changing only the start of the head's wait keeps the invariant, if the  *)
(* new value is 0 or a time since the last release.                        *)
LEMMA MarkIInv ==
    ASSUME IInv, ~Empty, ~Expired(At(0)), decided' = now,
           UNCHANGED <<head, count, now, tx_busy, submitted, lastSent>>,
           released' \in Nat, released' <= now,
           NEW w \in Nat, w = 0 \/ w \in released'..now,
           items' = [items EXCEPT ![head].tx_wait_start_ms = w]
    PROVE  IInv'
<1> USE DEF IInv
<1>t. now \in Nat /\ count \in Nat /\ 0 \in 0..(count - 1)
  BY BoundsAssumption, LimitRange DEF TypeOK, Empty
<1>1. Index(0) = head /\ head \in Slots
  BY AtType, QueueMaxAssumption, SMTT(30) DEF TypeOK, Slots
<1>2. items \in [Slots -> Item] /\ items[head] \in Item
  BY <1>1 DEF TypeOK
<1>3. items' \in [Slots -> Item]
  BY <1>1, <1>2 DEF Item
<1>4. ASSUME NEW i \in 0..(count - 1)
      PROVE  /\ At(i)'.pkt = At(i).pkt
             /\ At(i)'.queued_ms = At(i).queued_ms
             /\ At(i)'.tx_wait_start_ms = IF i = 0 THEN w ELSE At(i).tx_wait_start_ms
  <2>1. i \in 0..(QueueMax - 1) /\ 0 \in 0..(QueueMax - 1)
    BY <1>t, LimitRange, QueueMaxAssumption DEF TypeOK
  <2>2. Index(i) \in Slots /\ (i # 0 => Index(i) # head)
    BY <1>1, <2>1, AtType, IndexInjective, QueueMaxAssumption
  <2>3. At(i)' = items'[Index(i)]
    BY DEF At, Index
  <2>4. CASE i = 0
    <3>1. At(i) = items[head] /\ At(i)' = items'[head]
      BY <1>1, <2>3, <2>4 DEF At
    <3>2. items'[head] = [items[head] EXCEPT !.tx_wait_start_ms = w]
      BY <1>1, <1>2
    <3> QED BY <1>2, <2>4, <3>1, <3>2 DEF Item
  <2>5. CASE i # 0
    <3>1. items'[Index(i)] = items[Index(i)]
      BY <1>1, <1>2, <2>2, <2>5
    <3>2. At(i)' = At(i)
      BY <2>3, <3>1 DEF At
    <3> QED BY <2>5, <3>2
  <2> QED BY <2>4, <2>5
<1>5. TypeOK'
  BY <1>t, <1>3 DEF TypeOK, Limit
<1>6. Ordered'
  BY <1>4 DEF Ordered
<1>7. TimesPassed'
  BY <1>t DEF TimesPassed
<1>8. FreshAtLastDecision'
  BY <1>4, HeadExpiresFirst DEF FreshAtLastDecision
<1>9. WaitBelongsToHead'
  BY <1>4 DEF WaitBelongsToHead
<1> QED BY <1>5, <1>6, <1>7, <1>8, <1>9

(* Steps that leave the queue alone keep the invariant: time only passes. *)
LEMMA FrameIInv ==
    ASSUME IInv,
           UNCHANGED <<items, head, count, submitted, lastSent, decided, released>>,
           now' \in Clock, now' >= now, tx_busy' \in BOOLEAN
    PROVE  IInv'
<1> USE DEF IInv
<1>t. now \in Nat /\ now' \in Nat /\ decided \in Nat /\ released \in Nat
  BY BoundsAssumption DEF TypeOK
<1>1. \A i : At(i)' = At(i)
  BY DEF At, Index
<1>2. \A i \in 0..(count - 1) : At(i).queued_ms \in Nat /\ At(i).tx_wait_start_ms \in Nat
  BY WaitingType
<1>3. TypeOK'
  BY DEF TypeOK, Limit
<1>4. Ordered'
  BY <1>t, <1>1, <1>2 DEF Ordered
<1>5. TimesPassed'
  BY <1>t DEF TimesPassed
<1>6. FreshAtLastDecision'
  BY <1>1 DEF FreshAtLastDecision
<1>7. WaitBelongsToHead'
  BY <1>t, <1>1, <1>2 DEF WaitBelongsToHead
<1> QED BY <1>3, <1>4, <1>5, <1>6, <1>7

(* Every step of the queue keeps the invariant. *)
LEMMA StepIInv ==
    ASSUME IInv, [Next]_vars
    PROVE  IInv'
<1>t. now \in Nat /\ released \in Nat /\ released <= now
  BY BoundsAssumption DEF IInv, TypeOK, TimesPassed
<1>1. ASSUME NEW len \in Lengths, Push(len) PROVE IInv'
  BY <1>1, PushIInv
<1>2. CASE DrainDrop
  <2>1. ~Empty /\ Pop /\ released' = now
    BY <1>2 DEF DrainDrop
  <2>2. UNCHANGED <<now, tx_busy, submitted>>
    BY <1>2 DEF DrainDrop
  <2>3. /\ lastSent' = lastSent \/ lastSent' = At(0).pkt
        /\ decided' = decided \/ (decided' = now /\ ~Expired(At(0)))
    BY <1>2 DEF DrainDrop
  <2> QED BY <2>1, <2>2, <2>3, PopIInv
<1>3. CASE DrainSent
  <2>1. ~Expired(At(0))
    BY <1>3 DEF DrainSent, Decision
  <2> QED BY <1>3, <2>1, PopIInv DEF DrainSent
<1>4. CASE DrainWait
  <2>1. ~Expired(At(0)) /\ ~Empty
    BY <1>4 DEF DrainWait, Decision
  <2>2. 0 \in 0..(count - 1)
    BY <2>1, LimitRange DEF IInv, TypeOK, Empty
  <2>3. At(0).tx_wait_start_ms \in Nat
        /\ (At(0).tx_wait_start_ms = 0 \/ At(0).tx_wait_start_ms \in released..now)
    BY <2>2, WaitingType DEF IInv, WaitBelongsToHead
  <2>4. WaitStart(At(0)) \in Nat /\ WaitStart(At(0)) \in released..now
    BY <1>t, <2>3 DEF WaitStart
  <2> QED BY <1>t, <1>4, <2>1, <2>4, MarkIInv DEF DrainWait
<1>5. CASE DrainKept
  <2>1. ~Expired(At(0)) /\ ~Empty
    BY <1>5 DEF DrainKept, Decision
  <2>2. /\ decided' = now /\ released' = now
        /\ UNCHANGED <<head, count, now, tx_busy, submitted, lastSent>>
        /\ items' = [items EXCEPT ![head].tx_wait_start_ms = 0]
    BY <1>5 DEF DrainKept
  <2>3. released' \in Nat /\ released' <= now
    BY <1>t, <2>2
  <2> QED BY <2>1, <2>2, <2>3, MarkIInv
<1>6. ASSUME NEW t \in Clock, Tick(t) PROVE IInv'
  <2>1. t \in Nat
    BY BoundsAssumption
  <2> QED BY <1>t, <1>6, <2>1, FrameIInv DEF Tick, IInv, TypeOK
<1>7. CASE Report
  <2>1. now' \in Clock /\ now' >= now /\ tx_busy' \in BOOLEAN
    BY <1>t, <1>7 DEF Report, IInv, TypeOK
  <2> QED BY <1>7, <2>1, FrameIInv DEF Report
<1>8. CASE UNCHANGED vars
  <2>1. now' \in Clock /\ now' >= now /\ tx_busy' \in BOOLEAN
    BY <1>t, <1>8 DEF vars, IInv, TypeOK
  <2> QED BY <1>8, <2>1, FrameIInv DEF vars
<1> QED BY <1>1, <1>2, <1>3, <1>4, <1>5, <1>6, <1>7, <1>8 DEF Next

(* The inductive invariant holds in every state of the queue. *)
LEMMA Invariant == Spec => []IInv
<1>1. Init => IInv
  BY InitIInv
<1>2. IInv /\ [Next]_vars => IInv'
  BY StepIInv
<1> QED BY <1>1, <1>2, PTL DEF Spec

(* The ring and its indices stay in range and no more than the configured  *)
(* limit of packets wait (bridge_tx_queue_push and _pop).                  *)
THEOREM TypeCorrect == Spec => []TypeOK
<1>1. IInv => TypeOK
  BY DEF IInv
<1> QED BY <1>1, Invariant, PTL

(* No expired packet hides behind a younger head: one look at the head is  *)
(* enough for bridge_tx_head_decision to enforce the lifetime of all.      *)
THEOREM LifetimeEnforced == Spec => []FreshAtLastDecision
<1>1. IInv => FreshAtLastDecision
  BY DEF IInv
<1> QED BY <1>1, Invariant, PTL

(* A busy timeout is measured from a decision about the packet it drops.   *)
THEOREM BusyTimeoutIsOwn == Spec => []WaitBelongsToHead
<1>1. IInv => WaitBelongsToHead
  BY DEF IInv
<1> QED BY <1>1, Invariant, PTL

-----------------------------------------------------------------------------
(* The ring implements the bounded FIFO of TxFifo. *)

(* The waiting packets form a sequence. *)
LEMMA ContentsSeq ==
    ASSUME IInv
    PROVE  /\ Contents \in Seq(Nat)
           /\ Len(Contents) = count
           /\ count \in Nat
           /\ \A i \in 1..count : Contents[i] = At(i - 1).pkt
<1>1. count \in Nat
  BY LimitRange DEF IInv, TypeOK
<1>2. \A i \in 1..count : At(i - 1).pkt \in Nat
  <2> TAKE i \in 1..count
  <2>1. i - 1 \in 0..(count - 1)
    BY <1>1
  <2> QED BY <2>1, WaitingType DEF IInv
<1> QED BY <1>1, <1>2 DEF Contents

(* Taking the head off the ring is Tail. *)
LEMMA PopContents ==
    ASSUME IInv, IInv', ~Empty, Pop
    PROVE  /\ Contents # <<>>
           /\ Head(Contents) = At(0).pkt
           /\ Contents' = Tail(Contents)
<1>1. /\ Contents \in Seq(Nat) /\ Len(Contents) = count /\ count \in Nat
      /\ \A i \in 1..count : Contents[i] = At(i - 1).pkt
  BY ContentsSeq
<1>2. count > 0
  BY <1>1 DEF Empty
<1>3. Contents # <<>> /\ Head(Contents) = At(0).pkt
  BY <1>1, <1>2
<1>4. count' = count - 1 /\ \A i \in 0..(count - 2) : At(i)' = At(i + 1)
  BY PopAt DEF IInv
<1>5. /\ Tail(Contents) \in Seq(Nat) /\ Len(Tail(Contents)) = count - 1
      /\ \A i \in 1..(count - 1) : Tail(Contents)[i] = Contents[i + 1]
  BY <1>1, <1>2
<1>6. /\ Contents' \in Seq(Nat) /\ Len(Contents') = count'
      /\ \A i \in 1..count' : Contents'[i] = At(i - 1)'.pkt
  <2>1. Contents' = [i \in 1..count' |-> At(i - 1)'.pkt]
    BY DEF Contents
  <2>2. \A i \in 1..count' : At(i - 1)'.pkt \in Nat
    <3> TAKE i \in 1..count'
    <3>1. i - 1 \in 0..(count - 2) /\ i \in 0..(count - 1)
      BY <1>1, <1>2, <1>4
    <3>2. At(i - 1)' = At((i - 1) + 1)
      BY <1>4, <3>1
    <3>3. At(i - 1)' = At(i)
      BY <3>1, <3>2
    <3>4. At(i).pkt \in Nat
      BY <3>1, WaitingType DEF IInv
    <3> QED BY <3>3, <3>4
  <2> QED BY <1>1, <1>2, <1>4, <2>1, <2>2
<1>7. ASSUME NEW i \in 1..(count - 1)
      PROVE  Contents'[i] = Tail(Contents)[i]
  <2>1. i - 1 \in 0..(count - 2) /\ i + 1 \in 1..count /\ (i - 1) + 1 = i
        /\ (i + 1) - 1 = i /\ i \in 1..count'
    BY <1>1, <1>4
  <2>2. At(i - 1)' = At((i - 1) + 1)
    BY <1>4, <2>1
  <2>3. At(i - 1)' = At(i)
    BY <2>1, <2>2
  <2>4. Contents[i + 1] = At((i + 1) - 1).pkt
    BY <1>1, <2>1
  <2>5. Contents[i + 1] = At(i).pkt
    BY <2>1, <2>4
  <2>6. Contents'[i] = At(i - 1)'.pkt
    BY <1>6, <2>1
  <2> QED BY <1>5, <2>3, <2>5, <2>6
<1>8. Contents' = Tail(Contents)
  <2>1. Len(Contents') = Len(Tail(Contents)) /\ Len(Contents') = count - 1
    BY <1>4, <1>5, <1>6
  <2>2. \A i \in 1..Len(Contents') : Contents'[i] = Tail(Contents)[i]
    BY <1>7, <2>1
  <2> QED BY <1>5, <1>6, <2>1, <2>2, SeqEqual
<1> QED BY <1>3, <1>8

(* Storing an item behind the last one is Append. *)
LEMMA PushContents ==
    ASSUME IInv, IInv', NEW len \in Lengths, Push(len), PushFits(len)
    PROVE  Contents' = Append(Contents, submitted + 1)
<1>1. /\ Contents \in Seq(Nat) /\ Len(Contents) = count /\ count \in Nat
      /\ \A i \in 1..count : Contents[i] = At(i - 1).pkt
  BY ContentsSeq
<1>2. /\ count' = count + 1
      /\ \A i \in 0..count : At(i)' = IF i = count THEN NewItem(len) ELSE At(i)
  BY PushAt DEF IInv
<1>3. submitted + 1 \in Nat /\ NewItem(len).pkt = submitted + 1
  BY DEF IInv, TypeOK, NewItem
<1>4. Contents' = [i \in 1..(count + 1) |-> At(i - 1)'.pkt]
  BY <1>2 DEF Contents
<1>5. ASSUME NEW i \in 1..(count + 1)
      PROVE  At(i - 1)'.pkt = Append(Contents, submitted + 1)[i]
  <2>1. i - 1 \in 0..count
    BY <1>1
  <2>2. CASE i = count + 1
    <3>1. At(i - 1)' = NewItem(len)
      BY <1>1, <1>2, <2>1, <2>2
    <3>2. Append(Contents, submitted + 1)[i] = submitted + 1
      BY <1>1, <1>3, <2>2
    <3> QED BY <1>3, <3>1, <3>2
  <2>3. CASE i # count + 1
    <3>1. At(i - 1)' = At(i - 1)
      BY <1>1, <1>2, <2>1, <2>3
    <3>2. i \in 1..count
      BY <1>1, <2>3
    <3>3. Append(Contents, submitted + 1)[i] = Contents[i]
      BY <1>1, <1>3, <3>2
    <3> QED BY <1>1, <3>1, <3>2, <3>3
  <2> QED BY <2>2, <2>3
<1>6. Append(Contents, submitted + 1) = [i \in 1..(count + 1) |->
                                            Append(Contents, submitted + 1)[i]]
  <2>1. Append(Contents, submitted + 1) \in Seq(Nat)
        /\ Len(Append(Contents, submitted + 1)) = count + 1
    BY <1>1, <1>3
  <2> QED BY <2>1, LenProperties
<1> QED BY <1>4, <1>5, <1>6

(* Every step of the ring is a step of the FIFO or leaves it alone. *)
LEMMA StepRefines ==
    ASSUME IInv, IInv', [Next]_vars
    PROVE  [Fifo!Next]_<<Contents, lastSent>>
<1>c. /\ Contents \in Seq(Nat) /\ Len(Contents) = count /\ count \in Nat
      /\ \A i \in 1..count : Contents[i] = At(i - 1).pkt
  BY ContentsSeq
<1>1. ASSUME NEW len \in Lengths, Push(len)
      PROVE  [Fifo!Next]_<<Contents, lastSent>>
  <2>1. CASE PushFits(len)
    <3>1. Contents' = Append(Contents, submitted + 1) /\ lastSent' = lastSent
      BY <1>1, <2>1, PushContents DEF Push
    <3>2. Len(Contents) < Limit
      BY <1>c, <2>1 DEF PushFits
    <3>3. submitted + 1 \in 1..Submissions /\ submitted + 1 > lastSent
      BY <1>1, BoundsAssumption DEF Push, IInv, TypeOK, Ordered
    <3>4. \A i \in 1..Len(Contents) : submitted + 1 > Contents[i]
      <4> TAKE i \in 1..Len(Contents)
      <4>1. i - 1 \in 0..(count - 1) /\ i \in 1..count
        BY <1>c
      <4>2. At(i - 1).pkt \in Nat /\ At(i - 1).pkt <= submitted
        BY <4>1, WaitingType DEF IInv, Ordered
      <4> QED BY <1>c, <4>1, <4>2 DEF IInv, TypeOK
    <3>5. Fifo!Accept(submitted + 1)
      BY <3>1, <3>2, <3>3, <3>4 DEF Fifo!Accept
    <3> QED BY <3>3, <3>5 DEF Fifo!Next
  <2>2. CASE ~PushFits(len)
    BY <1>1, <2>2 DEF Push, Contents, At, Index
  <2> QED BY <2>1, <2>2
<1>2. CASE DrainDrop
  <2>1. ~Empty /\ Pop /\ lastSent' = lastSent
    BY <1>2 DEF DrainDrop
  <2>2. Contents # <<>> /\ Contents' = Tail(Contents)
    BY <2>1, PopContents
  <2> QED BY <2>1, <2>2 DEF Fifo!Next, Fifo!Drop
<1>3. CASE DrainSent
  <2>1. ~Empty /\ Pop /\ lastSent' = At(0).pkt
    BY <1>3 DEF DrainSent
  <2>2. Contents # <<>> /\ Contents' = Tail(Contents) /\ Head(Contents) = At(0).pkt
    BY <2>1, PopContents
  <2>3. At(0).pkt > lastSent
    <3>1. 0 \in 0..(count - 1)
      BY <1>c, <2>1 DEF Empty
    <3> QED BY <3>1 DEF IInv, Ordered
  <2> QED BY <2>1, <2>2, <2>3 DEF Fifo!Next, Fifo!Send
<1>4. CASE DrainWait \/ DrainKept
  <2>1. \E w : items' = [items EXCEPT ![head].tx_wait_start_ms = w]
    BY <1>4 DEF DrainWait, DrainKept
  <2>2. head' = head /\ count' = count /\ lastSent' = lastSent
    BY <1>4 DEF DrainWait, DrainKept
  <2>3. items \in [Slots -> Item] /\ head \in Slots
    BY DEF IInv, TypeOK
  <2>4. \A s \in Slots : items'[s].pkt = items[s].pkt
    BY <2>1, <2>3 DEF Item
  <2>5. ASSUME NEW i \in 1..count PROVE At(i - 1)'.pkt = At(i - 1).pkt
    <3>1. i - 1 \in 0..QueueMax
      BY <1>c, LimitRange, QueueMaxAssumption DEF IInv, TypeOK
    <3>2. Index(i - 1) \in Slots /\ Index(i - 1)' = Index(i - 1)
      BY <2>2, <3>1, AtType DEF IInv, Index
    <3> QED BY <2>4, <3>2 DEF At
  <2>6. Contents' = Contents
    BY <2>2, <2>5 DEF Contents
  <2> QED BY <2>2, <2>6
<1>5. ASSUME NEW t \in Clock, Tick(t)
      PROVE  [Fifo!Next]_<<Contents, lastSent>>
  BY <1>5 DEF Tick, Contents, At, Index
<1>6. CASE Report \/ UNCHANGED vars
  BY <1>6 DEF Report, vars, Contents, At, Index
<1> QED BY <1>1, <1>2, <1>3, <1>4, <1>5, <1>6 DEF Next

(* The ring buffer with its drain loop implements the bounded FIFO: the    *)
(* daemon receives packets in the order of submission, each at most once.  *)
THEOREM RingImplementsFifo == Spec => FifoSpec
<1>1. Init => Fifo!Init
  <2> SUFFICES ASSUME Init PROVE Fifo!Init
    OBVIOUS
  <2>1. Contents \in Seq(Nat) /\ Len(Contents) = count /\ count = 0
    BY InitIInv, ContentsSeq DEF Init
  <2>2. Contents = <<>>
    BY <2>1
  <2> QED BY <2>2 DEF Init, Fifo!Init
<1>2. IInv /\ IInv' /\ [Next]_vars => [Fifo!Next]_<<Contents, lastSent>>
  BY StepRefines
<1> QED BY <1>1, <1>2, Invariant, PTL DEF Spec, FifoSpec, Fifo!Spec, Fifo!fifoVars
=============================================================================
