------------------------------- MODULE Daemon -------------------------------
(***************************************************************************)
(* The LoRaHAM daemon as the bridge sees it (external: its source is not   *)
(* in the repository).  The bridge uses two stream sockets of it:          *)
(*                                                                         *)
(*   CONF  commands up (SET ... FREQ=, SET TXRESULT=1, GET STATUS), lines  *)
(*         down (STATUS ..., TX=1, TX=0);                                  *)
(*   DATA  framed packets up, framed packets, results and errors down.     *)
(*                                                                         *)
(* What this module assumes of it is what the bridge relies on: it serves  *)
(* each stream in order but the two streams independently; it sends one    *)
(* packet at a time; it answers a packet on the DATA connection the packet *)
(* came from and nowhere else; commands the bridge wrote before it closed  *)
(* a connection are still carried out; a restart forgets everything.       *)
(***************************************************************************)
EXTENDS Integers, Sequences

CONSTANTS
    Kinds,        \* the daemons that may run: "111", "110", "off"
    Packets,      \* packets the KISS client may submit, 1..n
    MaxFaults,    \* bound: closed connections, restarts and stalled writes
    MaxRx         \* bound: packets received over the air

ASSUME KindsAssumption == Kinds # {} /\ Kinds \subseteq {"111", "110", "off"}
ASSUME PacketsAssumption == Packets \subseteq Nat \ {0}
ASSUME BoundsAssumption == MaxFaults \in Nat /\ MaxRx \in Nat

VARIABLES
    alive,        \* the daemon process runs
    kind,         \* its version: "111" answers with TX_RESULT, "110" does not
                  \* know TX_RESULT, "off" knows it and keeps it disabled
    radio,        \* the frequency the radio is on: "none", "rx", "tx"
    txresult,     \* TX_RESULT frames are enabled
    job,          \* the packet being transmitted
    air,          \* history: <<packet, frequency>> of every transmission
    conf,         \* CONF connection: "none", "up", "dead" (closed by daemon)
    data,         \* DATA connection, likewise
    confUp,       \* commands written and not yet carried out
    confDown,     \* lines not yet read by the bridge
    dataUp,       \* packets written, the last perhaps in part, and not yet taken
    dataDown,     \* frames not yet read by the bridge
    faults,       \* faults so far
    received      \* packets received over the air so far

daemonVars == <<alive, kind, radio, txresult, job, air>>
linkVars == <<conf, data, confUp, confDown, dataUp, dataDown>>
boundVars == <<faults, received>>

Freqs == {"none", "rx", "tx"}
Commands == {"rx", "tx", "plain", "txresult", "status"}
NoJob == [pkt |-> 0, live |-> FALSE, freq |-> "none"]

TxLine(b) == [kind |-> "TX", tx |-> b, txresult |-> "absent"]
StatusLine(b, r) == [kind |-> "STATUS", tx |-> b, txresult |-> r]

RxFrame == [type |-> "rx", pkt |-> 0, ok |-> TRUE]
ErrorFrame(p) == [type |-> "error", pkt |-> p, ok |-> FALSE]
ResultFrame(p, b) == [type |-> "result", pkt |-> p, ok |-> b]

ToConf(line) == IF conf = "up" THEN Append(confDown, line) ELSE confDown
ToData(live, frame) ==
    IF data = "up" /\ live THEN Append(dataDown, frame) ELSE dataDown

(* A packet cut off by the end of its connection is discarded: the last    *)
(* one written, after which nothing more was.                              *)
Orphan(s) ==
    LET n == IF s # <<>> /\ ~s[Len(s)].whole THEN Len(s) - 1 ELSE Len(s)
    IN  [i \in 1..n |-> [s[i] EXCEPT !.live = FALSE]]

-----------------------------------------------------------------------------
(* One CONF command is carried out. *)
DaemonConf ==
    /\ alive /\ confUp # <<>>
    /\ LET c == Head(confUp) IN
       /\ radio' = IF c \in {"rx", "tx"} THEN c ELSE radio
       /\ job' = IF c \in {"rx", "tx"} /\ job # NoJob /\ job.freq # c
                 THEN [job EXCEPT !.freq = "none"] ELSE job
       /\ txresult' = (txresult \/ (c = "txresult" /\ kind = "111"))
       /\ confDown' = IF c = "status"
                      THEN ToConf(StatusLine(job # NoJob,
                                    IF kind = "110" THEN "absent"
                                    ELSE IF txresult THEN "on" ELSE "off"))
                      ELSE confDown
    /\ confUp' = Tail(confUp)
    /\ UNCHANGED <<alive, kind, air, conf, data, dataUp, dataDown, boundVars>>

(* The next packet is taken and goes on the air. *)
DaemonStart ==
    /\ alive /\ dataUp # <<>> /\ Head(dataUp).whole /\ job = NoJob
    /\ job' = [pkt |-> Head(dataUp).pkt, live |-> Head(dataUp).live, freq |-> radio]
    /\ dataUp' = Tail(dataUp)
    /\ confDown' = ToConf(TxLine(TRUE))
    /\ UNCHANGED <<alive, kind, radio, txresult, air, conf, data, confUp, dataDown,
                   boundVars>>

(* The next packet is refused: the channel stayed busy. *)
DaemonRefuse ==
    /\ alive /\ dataUp # <<>> /\ Head(dataUp).whole /\ job = NoJob
    /\ LET p == Head(dataUp) IN
       dataDown' = ToData(p.live, IF txresult THEN ResultFrame(p.pkt, FALSE)
                                  ELSE ErrorFrame(p.pkt))
    /\ dataUp' = Tail(dataUp)
    /\ UNCHANGED <<daemonVars, conf, data, confUp, confDown, boundVars>>

(* The transmission ends. *)
DaemonDone ==
    /\ alive /\ job # NoJob
    /\ air' = air \union {<<job.pkt, job.freq>>}
    /\ dataDown' = IF txresult THEN ToData(job.live, ResultFrame(job.pkt, TRUE))
                   ELSE dataDown
    /\ confDown' = ToConf(TxLine(FALSE))
    /\ job' = NoJob
    /\ UNCHANGED <<alive, kind, radio, txresult, conf, data, confUp, dataUp, boundVars>>

(* A packet is received over the air. *)
DaemonReceive ==
    /\ alive /\ data = "up" /\ received < MaxRx
    /\ received' = received + 1
    /\ dataDown' = Append(dataDown, RxFrame)
    /\ UNCHANGED <<daemonVars, conf, data, confUp, confDown, dataUp, faults>>

-----------------------------------------------------------------------------
(* Faults.  The daemon closes a connection: what it has not read is lost.  *)
(* On DATA, that is everything behind the packets of earlier connections.  *)
DaemonClosesConf ==
    /\ conf = "up" /\ faults < MaxFaults
    /\ faults' = faults + 1
    /\ conf' = "dead"
    /\ confUp' = <<>>
    /\ UNCHANGED <<daemonVars, data, confDown, dataUp, dataDown, received>>

DaemonClosesData ==
    /\ data = "up" /\ faults < MaxFaults
    /\ faults' = faults + 1
    /\ data' = "dead"
    /\ \E k \in 0..Len(dataUp) :
          /\ \A i \in DOMAIN dataUp : dataUp[i].live <=> i > k
          /\ dataUp' = SubSeq(dataUp, 1, k)
    /\ job' = [job EXCEPT !.live = FALSE]
    /\ UNCHANGED <<alive, kind, radio, txresult, air, conf, confUp, confDown, dataDown,
                   received>>

(* The daemon stops; a packet on the air was at least partly sent. *)
DaemonCrash ==
    /\ alive /\ faults < MaxFaults
    /\ faults' = faults + 1
    /\ alive' = FALSE
    /\ radio' = "none"
    /\ txresult' = FALSE
    /\ job' = NoJob
    /\ air' = IF job = NoJob THEN air ELSE air \union {<<job.pkt, job.freq>>}
    /\ conf' = IF conf = "up" THEN "dead" ELSE conf
    /\ data' = IF data = "up" THEN "dead" ELSE data
    /\ confUp' = <<>>
    /\ dataUp' = <<>>
    /\ UNCHANGED <<kind, confDown, dataDown, received>>

(* It is started again, perhaps in another version. *)
DaemonBoot ==
    /\ ~alive
    /\ alive' = TRUE
    /\ kind' \in Kinds
    /\ UNCHANGED <<radio, txresult, job, air, linkVars, boundVars>>

DaemonInit ==
    /\ alive \in BOOLEAN
    /\ kind \in Kinds
    /\ radio = "none"
    /\ txresult = FALSE
    /\ job = NoJob
    /\ air = {}
    /\ conf = "none"
    /\ data = "none"
    /\ confUp = <<>>
    /\ confDown = <<>>
    /\ dataUp = <<>>
    /\ dataDown = <<>>
    /\ faults = 0
    /\ received = 0
=============================================================================
