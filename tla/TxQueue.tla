------------------------------- MODULE TxQueue ------------------------------
(***************************************************************************)
(* The outgoing queue of the bridge (bridge_tx_queue.c): a ring of         *)
(* QueueMax slots, of which at most tx_queue_len are used, and the policy  *)
(* bridge_tx_head_decision that drops, delays or releases its head.  The   *)
(* actions named Drain... are one turn of the loop in                      *)
(* bridge_loraham_tx_queue_drain_with_client once its STATUS gates are     *)
(* open; those gates and the transmission are modelled in Bridge.          *)
(*                                                                         *)
(* A packet is the number of its submission; its bytes are not modelled.   *)
(* The clock is bridge_runtime_now_ms: monotonic and never 0.              *)
(***************************************************************************)
EXTENDS Integers, Sequences

CONSTANTS
    QueueMax,             \* LHKT_TX_QUEUE_MAX
    tx_queue_len,         \* configured limit, any integer
    tx_packet_ttl_ms,     \* 0 disables the lifetime check
    tx_busy_timeout_ms,
    PacketMax,            \* LHKT_LORAHAM_TX_MAX
    Lengths,              \* lengths a caller may ask to queue
    Clock,                \* instants the clock may show
    Submissions           \* bound: calls of bridge_tx_queue_push

ASSUME QueueMaxAssumption == QueueMax \in Nat \ {0}
ASSUME ConfigAssumption ==
    /\ tx_queue_len \in Int
    /\ tx_packet_ttl_ms \in Nat
    /\ tx_busy_timeout_ms \in Nat
    /\ PacketMax \in Nat \ {0}
ASSUME BoundsAssumption ==
    /\ Lengths \subseteq Nat
    /\ Clock \subseteq Nat \ {0}
    /\ Submissions \in Nat

VARIABLES
    items,        \* queue->items, the ring
    head,         \* queue->head
    count,        \* queue->count
    now,          \* the monotonic clock
    tx_busy,      \* conf_state->tx_busy as the last CONF read left it
    submitted,    \* packets offered to bridge_tx_queue_push so far
    lastSent,     \* last packet written completely to the daemon, 0 if none
    decided,      \* time of the last WAIT or SEND decision, 0 if none
    released      \* time of the last pop or SEND decision, 0 if none

vars == <<items, head, count, now, tx_busy, submitted, lastSent, decided,
          released>>

Slots == 0..(QueueMax - 1)

(* A zeroed bridge_tx_item_t. *)
NoItem == [pkt |-> 0, packet_len |-> 0, queued_ms |-> 0, tx_wait_start_ms |-> 0]

Item == [pkt : Nat, packet_len : Nat, queued_ms : Nat, tx_wait_start_ms : Nat]

(* bridge_tx_queue_limit: the configured length clamped to 1..QueueMax. *)
Limit ==
    IF tx_queue_len < 1 THEN 1
    ELSE IF tx_queue_len > QueueMax THEN QueueMax
    ELSE tx_queue_len

Index(i) == (head + i) % QueueMax

(* The i-th waiting item, the head being number 0. *)
At(i) == items[Index(i)]

Empty == count = 0

TypeOK ==
    /\ items \in [Slots -> Item]
    /\ head \in Slots
    /\ count \in 0..Limit
    /\ now \in Clock
    /\ tx_busy \in BOOLEAN
    /\ submitted \in Nat
    /\ lastSent \in Nat
    /\ decided \in Nat
    /\ released \in Nat

(* bridge_tx_queue_init *)
Init ==
    /\ items = [s \in Slots |-> NoItem]
    /\ head = 0
    /\ count = 0
    /\ now \in Clock
    /\ tx_busy \in BOOLEAN
    /\ submitted = 0
    /\ lastSent = 0
    /\ decided = 0
    /\ released = 0

-----------------------------------------------------------------------------
(* bridge_tx_queue_push: refused when the length is out of range or the    *)
(* limit is reached, else stored behind the last item with its time.       *)
(* Slip: PushFitsOffByOne lets one item too many in.                       *)
PushFitsOffByOne(len) == len # 0 /\ len <= PacketMax /\ count <= Limit

PushFits(len) == len # 0 /\ len <= PacketMax /\ count < Limit

Push(len) ==
    /\ submitted < Submissions
    /\ submitted' = submitted + 1
    /\ IF PushFits(len)
       THEN /\ items' = [items EXCEPT ![Index(count)] =
                           [pkt |-> submitted + 1, packet_len |-> len,
                            queued_ms |-> now, tx_wait_start_ms |-> 0]]
            /\ count' = count + 1
       ELSE UNCHANGED <<items, count>>
    /\ UNCHANGED <<head, now, tx_busy, lastSent, decided, released>>

(* Slip: the head wraps at the configured length, the tail at QueueMax. *)
PopWrapsAtLimit ==
    /\ items' = [items EXCEPT ![head] = NoItem]
    /\ head' = (head + 1) % Limit
    /\ count' = count - 1

(* bridge_tx_queue_pop: the slot is zeroed, the head moves on. *)
Pop ==
    /\ items' = [items EXCEPT ![head] = NoItem]
    /\ head' = (head + 1) % QueueMax
    /\ count' = count - 1

-----------------------------------------------------------------------------
(* bridge_tx_head_decision, for the head item at the current time. *)
Expired(item) ==
    /\ tx_packet_ttl_ms > 0
    /\ now - item.queued_ms >= tx_packet_ttl_ms

(* The start of the wait for an idle transmitter; 0 means "not waiting". *)
WaitStart(item) ==
    IF item.tx_wait_start_ms = 0 THEN now ELSE item.tx_wait_start_ms

BusyTooLong(item) == now - WaitStart(item) >= tx_busy_timeout_ms

(* Slip: a busy transmitter is looked at before the lifetime. *)
DecisionBusyFirst(item) ==
    IF tx_busy THEN IF BusyTooLong(item) THEN "DROP" ELSE "WAIT"
    ELSE IF Expired(item) THEN "DROP"
    ELSE "SEND"

(* bridge_tx_head_decision *)
Decision(item) ==
    IF Expired(item) THEN "DROP"
    ELSE IF ~tx_busy THEN "SEND"
    ELSE IF BusyTooLong(item) THEN "DROP"
    ELSE "WAIT"

(* DROP: the drain loop pops the item and looks at the next one. *)
DrainDrop ==
    /\ ~Empty
    /\ Decision(At(0)) = "DROP"
    /\ Pop
    /\ released' = now
    /\ UNCHANGED <<now, tx_busy, submitted, lastSent, decided>>

(* WAIT: the start of the wait is remembered in the item. *)
DrainWait ==
    /\ ~Empty
    /\ Decision(At(0)) = "WAIT"
    /\ items' = [items EXCEPT ![head].tx_wait_start_ms = WaitStart(At(0))]
    /\ decided' = now
    /\ UNCHANGED <<head, count, now, tx_busy, submitted, lastSent, released>>

(* SEND and the packet was written completely: it leaves the queue, also   *)
(* when what followed the write failed.                                    *)
DrainSent ==
    /\ ~Empty
    /\ Decision(At(0)) = "SEND"
    /\ Pop
    /\ released' = now
    /\ lastSent' = At(0).pkt
    /\ decided' = now
    /\ UNCHANGED <<now, tx_busy, submitted>>

(* Slip: an idle transmitter does not end the wait. *)
DrainKeptStaleWait ==
    /\ ~Empty
    /\ Decision(At(0)) = "SEND"
    /\ decided' = now
    /\ released' = now
    /\ UNCHANGED <<items, head, count, now, tx_busy, submitted, lastSent>>

(* SEND and nothing was written: the item stays at the head. *)
DrainKept ==
    /\ ~Empty
    /\ Decision(At(0)) = "SEND"
    /\ items' = [items EXCEPT ![head].tx_wait_start_ms = 0]
    /\ decided' = now
    /\ released' = now
    /\ UNCHANGED <<head, count, now, tx_busy, submitted, lastSent>>

-----------------------------------------------------------------------------
(* The environment: time passes, the daemon reports TX=1 or TX=0. *)
Tick(t) ==
    /\ t > now
    /\ now' = t
    /\ UNCHANGED <<items, head, count, tx_busy, submitted, lastSent, decided,
                   released>>

Report ==
    /\ tx_busy' = ~tx_busy
    /\ UNCHANGED <<items, head, count, now, submitted, lastSent, decided,
                   released>>

Next ==
    \/ \E len \in Lengths : Push(len)
    \/ DrainDrop
    \/ DrainWait
    \/ DrainSent
    \/ DrainKept
    \/ \E t \in Clock : Tick(t)
    \/ Report

Spec == Init /\ [][Next]_vars

-----------------------------------------------------------------------------
(* The waiting packets, oldest first. *)
Contents == [i \in 1..count |-> At(i - 1).pkt]

Fifo == INSTANCE TxFifo
            WITH Packet <- 1..Submissions, Capacity <- Limit, fifo <- Contents

(* The ring, its wrap-around and the drain loop implement a bounded FIFO:  *)
(* packets reach the daemon in the order of submission, each at most once, *)
(* and never more than the configured limit wait.                          *)
FifoSpec == Fifo!Spec

(* bridge_tx_head_decision looks at the head only, yet no packet anywhere  *)
(* in the queue can have been past its lifetime when a drain last stopped  *)
(* dropping: an expired packet never hides behind a younger head.          *)
FreshAtLastDecision ==
    tx_packet_ttl_ms > 0 =>
        \A i \in 0..(count - 1) : decided - At(i).queued_ms < tx_packet_ttl_ms

(* A packet is dropped for a busy transmitter only after it has itself     *)
(* waited at the head for the whole timeout: no wait is inherited from the *)
(* packet before it, nor kept across a decision that saw an idle           *)
(* transmitter.                                                            *)
WaitBelongsToHead ==
    \A i \in 0..(count - 1) :
        \/ At(i).tx_wait_start_ms = 0
        \/ i = 0 /\ At(i).tx_wait_start_ms \in released..now
=============================================================================
