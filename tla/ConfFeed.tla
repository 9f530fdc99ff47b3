------------------------------ MODULE ConfFeed ------------------------------
(***************************************************************************)
(* The lines of the CONF socket (bridge_conf.c): their assembly from the   *)
(* byte stream, the state they set, and the CAD counters of the statistics *)
(* that the main loop derives from that state across reconnects.           *)
(*                                                                         *)
(* Text is a sequence of atoms: "t1" is TX=1, "c0" is CAD=0, "r1" is       *)
(* TXRESULT=1, "s" is STATUS followed by a space, "nl" and "cr" are the    *)
(* control characters, any other atom is any other text.  LineMax is the   *)
(* size of the line buffer in atoms, the terminating 0 included.           *)
(***************************************************************************)
EXTENDS Integers, FiniteSets, Sequences, SequencesExt

CONSTANTS
    LineMax,      \* LHKT_CONF_LINE_MAX
    Atoms,        \* what the daemon may send
    MaxStream,    \* bound: atoms per connection
    MaxConns      \* bound: connections

ASSUME LineMaxAssumption == LineMax \in Nat \ {0}
ASSUME AtomsAssumption == "nl" \in Atoms
ASSUME ConfBoundsAssumption == MaxStream \in Nat /\ MaxConns \in Nat

VARIABLES
    up,           \* the CONF connection
    line,         \* state->line up to line_len
    discard,      \* state->discard
    st,           \* the flags and counters of bridge_conf_state_t
    last,         \* cad_stats_busy_seq, cad_stats_idle_seq of lhkt_bridge_run
    stats,        \* stats->cad_busy_events, stats->cad_idle_events
    phase,        \* "drain" or "select": where lhkt_bridge_run is
    stream,       \* history: everything read from this connection
    handled,      \* history: CAD=1 and CAD=0 lines taken in on all connections
    lost,         \* history: those whose connection ended before a collect
    conns         \* connections so far

confVars == <<up, line, discard, st, last, stats, phase, stream, handled, lost, conns>>

(* A zeroed bridge_conf_state_t. *)
Zero == [have_status |-> FALSE, tx_busy |-> FALSE, cad_busy |-> FALSE,
         txresult |-> "absent", tx_busy_seq |-> 0, tx_idle_seq |-> 0,
         cad_busy_seq |-> 0, cad_idle_seq |-> 0]

None == [busy |-> 0, idle |-> 0]

Counts == [busy : Nat, idle : Nat]

ConfTypeOK ==
    /\ up \in BOOLEAN
    /\ line \in Seq(Atoms \ {"nl", "cr"}) /\ Len(line) < LineMax
    /\ discard \in BOOLEAN
    /\ st \in [have_status : BOOLEAN, tx_busy : BOOLEAN, cad_busy : BOOLEAN,
               txresult : {"absent", "on", "off"}, tx_busy_seq : Nat,
               tx_idle_seq : Nat, cad_busy_seq : Nat, cad_idle_seq : Nat]
    /\ last \in Counts /\ stats \in Counts /\ handled \in Counts /\ lost \in Counts
    /\ phase \in {"drain", "select"}
    /\ stream \in Seq(Atoms)
    /\ conns \in 0..MaxConns

ConfInit ==
    /\ up = FALSE
    /\ line = <<>>
    /\ discard = FALSE
    /\ st = Zero
    /\ last = None
    /\ stats = None
    /\ phase = "drain"
    /\ stream = <<>>
    /\ handled = None
    /\ lost = None
    /\ conns = 0

-----------------------------------------------------------------------------
(* bridge_status_flag_token: the first occurrence of the key in a line. *)
FirstOf(l, key) ==
    IF \E i \in DOMAIN l : l[i] \in key
    THEN l[CHOOSE i \in DOMAIN l : l[i] \in key /\ \A j \in 1..(i - 1) : l[j] \notin key]
    ELSE "none"

Flag(l, key, old) == IF FirstOf(l, key) = "none" THEN old
                     ELSE FirstOf(l, key) \in {"t1", "c1"}

(* bridge_conf_handle_line *)
HandleLine(s, l) ==
    CASE l = <<"t1">> ->
           [s EXCEPT !.tx_busy = TRUE, !.tx_busy_seq = s.tx_busy_seq + 1]
      [] l = <<"t0">> ->
           [s EXCEPT !.tx_busy = FALSE, !.tx_idle_seq = s.tx_idle_seq + 1]
      [] l = <<"c1">> ->
           [s EXCEPT !.cad_busy = TRUE, !.cad_busy_seq = s.cad_busy_seq + 1]
      [] l = <<"c0">> ->
           [s EXCEPT !.cad_busy = FALSE, !.cad_idle_seq = s.cad_idle_seq + 1]
      [] l # <<>> /\ l[1] = "s" ->
           [s EXCEPT !.have_status = TRUE,
                     !.tx_busy = Flag(l, {"t0", "t1"}, s.tx_busy),
                     !.cad_busy = Flag(l, {"c0", "c1"}, s.cad_busy),
                     !.txresult = CASE FirstOf(l, {"r0", "r1"}) = "r1" -> "on"
                                    [] FirstOf(l, {"r0", "r1"}) = "r0" -> "off"
                                    [] OTHER -> s.txresult]
      [] OTHER -> s

(* Slip: an over-long line is cut into several. *)
FeedCuts(a) ==
    CASE a = "cr" -> UNCHANGED <<line, discard, st>>
      [] a = "nl" -> /\ st' = HandleLine(st, line)
                     /\ line' = <<>>
                     /\ UNCHANGED discard
      [] OTHER -> /\ line' = IF Len(line) + 1 >= LineMax THEN <<>> ELSE Append(line, a)
                  /\ UNCHANGED <<discard, st>>

(* Slip: the buffer is filled to its last place. *)
FeedFull(a) ==
    CASE a = "cr" -> UNCHANGED <<line, discard, st>>
      [] a = "nl" -> /\ st' = HandleLine(st, line)
                     /\ line' = <<>>
                     /\ UNCHANGED discard
      [] OTHER -> /\ line' = IF Len(line) >= LineMax THEN <<>> ELSE Append(line, a)
                  /\ UNCHANGED <<discard, st>>

(* One turn of the loop of bridge_conf_feed. *)
Feed(a) ==
    CASE a = "cr" -> UNCHANGED <<line, discard, st>>
      [] a = "nl" -> /\ st' = IF discard THEN st ELSE HandleLine(st, line)
                     /\ discard' = FALSE
                     /\ line' = <<>>
      [] a \notin {"cr", "nl"} /\ discard -> UNCHANGED <<line, discard, st>>
      [] a \notin {"cr", "nl"} /\ ~discard /\ Len(line) + 1 >= LineMax ->
            /\ discard' = TRUE
            /\ line' = <<>>
            /\ UNCHANGED st
      [] OTHER -> /\ line' = Append(line, a)
                  /\ UNCHANGED <<discard, st>>

Read(a) ==
    /\ up /\ Len(stream) < MaxStream
    /\ stream' = Append(stream, a)
    /\ Feed(a)
    /\ handled' = [busy |-> handled.busy + st.cad_busy_seq' - st.cad_busy_seq,
                   idle |-> handled.idle + st.cad_idle_seq' - st.cad_idle_seq]
    /\ UNCHANGED <<up, last, stats, phase, lost, conns>>

-----------------------------------------------------------------------------
(* Slip: the counters of a new connection are not told from the old ones. *)
CollectOneWithoutReset(seq, seen, events) ==
    [last |-> IF seq > seen THEN seq ELSE seen,
     events |-> events + IF seq > seen THEN seq - seen ELSE 0]

(* One of the two counters in bridge_conf_collect_cad_stats. *)
CollectOne(seq, seen, events) ==
    LET from == IF seq < seen THEN seq ELSE seen
    IN  [last |-> seq, events |-> events + (seq - from)]

Collect ==
    LET b == CollectOne(st.cad_busy_seq, last.busy, stats.busy)
        i == CollectOne(st.cad_idle_seq, last.idle, stats.idle)
    IN  /\ last' = [busy |-> b.last, idle |-> i.last]
        /\ stats' = [busy |-> b.events, idle |-> i.events]

(* The drain is over: the main loop collects. *)
DrainEnds ==
    /\ phase = "drain"
    /\ Collect
    /\ phase' = "select"
    /\ UNCHANGED <<up, line, discard, st, stream, handled, lost, conns>>

(* The select is over without an error on CONF: what was read is collected. *)
SelectEnds ==
    /\ phase = "select"
    /\ phase' = "drain"
    /\ IF up THEN Collect ELSE UNCHANGED <<last, stats>>
    /\ UNCHANGED <<up, line, discard, st, stream, handled, lost, conns>>

(* The select timed out without a connection: connect, with a fresh state. *)
Connect ==
    /\ phase = "select" /\ ~up /\ conns < MaxConns
    /\ up' = TRUE
    /\ line' = <<>> /\ discard' = FALSE /\ st' = Zero
    /\ stream' = <<>>
    /\ conns' = conns + 1
    /\ phase' = "drain"
    /\ UNCHANGED <<last, stats, handled, lost>>

(* bridge_loraham_disconnect_conf_socket: after an end of file in the      *)
(* select, or on the result of the drain.  The next collect is DrainEnds.  *)
Disconnect ==
    /\ up
    /\ up' = FALSE
    /\ line' = <<>> /\ discard' = FALSE /\ st' = Zero
    /\ lost' = [busy |-> lost.busy + (st.cad_busy_seq - last.busy),
                idle |-> lost.idle + (st.cad_idle_seq - last.idle)]
    /\ phase' = "drain"
    /\ UNCHANGED <<last, stats, stream, handled, conns>>

ConfNext ==
    \/ \E a \in Atoms : Read(a)
    \/ DrainEnds \/ SelectEnds \/ Connect \/ Disconnect

ConfSpec == ConfInit /\ [][ConfNext]_confVars

-----------------------------------------------------------------------------
(* Text without carriage returns. *)
Text(s) == FlattenSeq([i \in DOMAIN s |-> IF s[i] = "cr" THEN <<>> ELSE <<s[i]>>])

(* What was read between the last line end before place k and k. *)
LineTo(s, k) ==
    LET begin == Max({0} \union {j \in 1..(k - 1) : s[j] = "nl"}) + 1
    IN  Text(SubSeq(s, begin, k - 1))

(* The whole lines of what was read, without the over-long ones. *)
WholeLines(s) ==
    FlattenSeq([k \in DOMAIN s |->
        IF s[k] = "nl" /\ Len(LineTo(s, k)) < LineMax THEN <<LineTo(s, k)>> ELSE <<>>])

(* The state is what the whole lines of this connection say, one after the *)
(* other: no line is split, joined with another or half of an over-long    *)
(* one, so that a stray tail never passes for TX=1 or a STATUS.            *)
StateOfWholeLines == up => st = FoldLeft(HandleLine, Zero, WholeLines(stream))

(* Every CAD event is counted once in the statistics, however often the    *)
(* connection and its counters start over: only what was read in the very  *)
(* call that found the connection broken is lost.                          *)
CountedOnce ==
    LET pending(seq, seen) == IF seq < seen THEN 0 ELSE seq - seen
    IN  /\ stats.busy + lost.busy + pending(st.cad_busy_seq, last.busy) = handled.busy
        /\ stats.idle + lost.idle + pending(st.cad_idle_seq, last.idle) = handled.idle
=============================================================================
