------------------------------- MODULE Bridge -------------------------------
(***************************************************************************)
(* The main loop of the bridge (lhkt_bridge_run, bridge.c) with the        *)
(* transmit path (bridge_loraham.c), against the daemon of module Daemon.  *)
(*                                                                         *)
(* The bridge is one thread.  An action is what it does between two points *)
(* at which it blocks (select, a sleep) or makes a system call on a socket *)
(* whose outcome depends on the daemon.  pc says where it is:              *)
(*                                                                         *)
(*   start, start_config,     the start-up in lhkt_bridge_run              *)
(*   start_data                                                            *)
(*   loop                     while (!should_stop)                         *)
(*   drain                    a turn of the drain loop                     *)
(*   switch, settle, write    send_packet_with_client up to the write      *)
(*   wait                     wait_tx_result (TX_RESULT daemons)           *)
(*   seek, busy               the two loops of wait_tx_complete (others)   *)
(*   restore1, restore2       restore_rx_freq and its one retry            *)
(*   return                   the drain returns ret to the main loop       *)
(*   select, timeout          the select, its handlers and its timeout     *)
(*   exit                     lhkt_bridge_run has returned                 *)
(*                                                                         *)
(* The outgoing queue is the FIFO that TxQueue implements.  Time is        *)
(* abstract: a timeout or the end of a lifetime may come at any moment.    *)
(* Frames are read whole; the byte decoder is module FramedRx.             *)
(***************************************************************************)
EXTENDS Daemon

CONSTANTS
    Configs,        \* configurations: "split" (tx_freq # rx_freq), "equal",
                    \* "nofreq" (a frequency is missing)
    QueueLimit,     \* bridge_tx_queue_limit
    SettleCovers,   \* tx_settle_ms outlasts the daemon's retuning
    StopAllowed     \* SIGINT or SIGTERM may arrive

ASSUME ConfigsAssumption == Configs # {} /\ Configs \subseteq {"split", "equal", "nofreq"}
ASSUME QueueLimitAssumption == QueueLimit \in Nat \ {0}
ASSUME FlagsAssumption == SettleCovers \in BOOLEAN /\ StopAllowed \in BOOLEAN

VARIABLES
    pc,
    cfg,
    stop,           \* stop_requested, set by the signal handler
    queue,          \* tx_queue
    submitted,      \* packets taken from the KISS client so far
    config_ok,
    status,         \* the parts of bridge_conf_state_t that control transmission
    seen,           \* TX=1, TX=0 lines since wait_tx_complete began
    outcome,        \* how the current transmission ended so far
    ret,            \* the result bridge_loraham_tx_queue_drain_with_client returns
    sent,           \* history: packets written completely to the DATA socket
    rflog,          \* history: what lhkt_rflog_tx said of each packet
    verdict,        \* history: packets whose TX_RESULT status was not OK
    restoreFailed   \* stats->tx_restore_failures > 0

bridgeVars == <<pc, cfg, stop, queue, submitted, config_ok, status, seen, outcome,
                ret, sent, rflog, verdict, restoreFailed>>
vars == <<bridgeVars, daemonVars, linkVars, boundVars>>

(* bridge_conf_state_init; txresult joins txresult_known and _enabled. *)
NoStatus == [have_status |-> FALSE, txresult |-> "absent", tx_busy |-> FALSE]

NotSeen == [busy |-> FALSE, idle |-> FALSE]

Outcomes == {"none", "settle", "write", "lost", "ok", "refused", "unconfirmed"}
PCs == {"start", "start_config", "start_data", "loop", "drain", "switch", "settle",
        "write", "wait", "seek", "busy", "restore1", "restore2", "return", "select",
        "timeout", "exit"}
Returns == {"OK", "ERR", "FORMAT", "TX_SOCKET", "TX_RESULT", "CONF_SOCKET"}
LogLines == {"none", "ok", "unconfirmed"}
Links == {"none", "up", "dead"}
Flags == {"absent", "on", "off"}

TypeOK ==
    /\ pc \in PCs
    /\ cfg \in Configs
    /\ stop \in BOOLEAN
    /\ queue \in Seq(Packets) /\ Len(queue) <= QueueLimit
    /\ submitted \in Nat
    /\ config_ok \in BOOLEAN
    /\ status \in [have_status : BOOLEAN, txresult : Flags, tx_busy : BOOLEAN]
    /\ seen \in [busy : BOOLEAN, idle : BOOLEAN]
    /\ outcome \in Outcomes
    /\ ret \in Returns
    /\ sent \in Seq(Packets)
    /\ rflog \in [Packets -> LogLines]
    /\ verdict \subseteq Packets
    /\ restoreFailed \in BOOLEAN
    /\ alive \in BOOLEAN /\ kind \in Kinds /\ radio \in Freqs /\ txresult \in BOOLEAN
    /\ job \in [pkt : Packets \union {0}, live : BOOLEAN, freq : Freqs]
    /\ air \subseteq (Packets \X Freqs)
    /\ conf \in Links /\ data \in Links
    /\ confUp \in Seq(Commands)
    /\ dataUp \in Seq([pkt : Packets, live : BOOLEAN, whole : BOOLEAN])
    /\ confDown \in Seq([kind : {"TX", "STATUS"}, tx : BOOLEAN, txresult : Flags])
    /\ dataDown \in Seq([type : {"rx", "result", "error"},
                         pkt : Packets \union {0}, ok : BOOLEAN])
    /\ faults \in 0..MaxFaults /\ received \in 0..MaxRx

-----------------------------------------------------------------------------
(* bridge_conf_read_available: every pending line is taken in by           *)
(* bridge_conf_handle_line, so the last line that carries a flag sets it.  *)
(* STATUS and TX= lines both carry tx_busy; a TXRESULT token is carried by *)
(* the STATUS lines of daemons that know it.  CAD= lines are left out.     *)
LastToken(i) ==
    /\ confDown[i].txresult # "absent"
    /\ \A j \in DOMAIN confDown : j > i => confDown[j].txresult = "absent"

ReadConf ==
    [have_status |-> \/ status.have_status
                     \/ \E i \in DOMAIN confDown : confDown[i].kind = "STATUS",
     tx_busy |-> IF confDown = <<>> THEN status.tx_busy
                 ELSE confDown[Len(confDown)].tx,
     txresult |-> IF \E i \in DOMAIN confDown : LastToken(i)
                  THEN confDown[CHOOSE i \in DOMAIN confDown : LastToken(i)].txresult
                  ELSE status.txresult]

(* wait_tx_complete compares tx_busy_seq and tx_idle_seq with their start. *)
ReadSeen ==
    [busy |-> seen.busy \/ (\E i \in DOMAIN confDown : confDown[i] = TxLine(TRUE)),
     idle |-> seen.idle \/ (\E i \in DOMAIN confDown : confDown[i] = TxLine(FALSE))]

(* bridge_loraham_disconnect_conf_socket: commands already written are     *)
(* still carried out, but the answer to GET STATUS goes nowhere.           *)
CloseConf ==
    /\ conf' = "none"
    /\ status' = NoStatus
    /\ confUp' = [i \in DOMAIN confUp |->
                     IF confUp[i] = "status" THEN "plain" ELSE confUp[i]]
    /\ confDown' = <<>>

(* bridge_loraham_disconnect_data_socket and the reset of the decoder. *)
CloseData ==
    /\ data' = "none"
    /\ dataUp' = Orphan(dataUp)
    /\ dataDown' = <<>>
    /\ job' = [job EXCEPT !.live = FALSE]

KeepConf == UNCHANGED <<conf, status, confUp, confDown>>
KeepData == UNCHANGED <<data, dataUp, dataDown, job>>

(* A write to a CONF connection fails if the daemon closed it, or if the   *)
(* daemon stalls for longer than loraham_wait_writable waits.              *)
WriteFails(link) ==
    \/ link = "dead" /\ UNCHANGED faults
    \/ link = "up" /\ faults < MaxFaults /\ faults' = faults + 1

(* The lines of send_initial_config_with_state. *)
InitialConfig ==
    <<IF cfg = "nofreq" THEN "plain" ELSE "rx", "txresult", "status">>

(* The start-up and the reconnect paths all end in this: the old STATUS is *)
(* forgotten, and config_ok says whether every line could be written.      *)
SendInitialConfig ==
    \/ /\ conf = "none"
       /\ config_ok' = FALSE
       /\ UNCHANGED <<status, confUp, faults>>
    \/ /\ conf = "up"
       /\ config_ok' = TRUE
       /\ confUp' = confUp \o InitialConfig
       /\ status' = [status EXCEPT !.have_status = FALSE, !.txresult = "absent"]
       /\ UNCHANGED faults
    \/ /\ conf # "none"
       /\ WriteFails(conf)
       /\ \E n \in IF conf = "up" THEN 0..2 ELSE {0} :
             confUp' = confUp \o SubSeq(InitialConfig, 1, n)
       /\ config_ok' = FALSE
       /\ status' = [status EXCEPT !.have_status = FALSE, !.txresult = "absent"]

-----------------------------------------------------------------------------
(* Start-up: both connections may fail without ending the program. *)
Start ==
    /\ pc = "start"
    /\ conf' = IF alive THEN "up" ELSE "none"
    /\ pc' = "start_config"
    /\ UNCHANGED <<cfg, stop, queue, submitted, config_ok, status, seen, outcome, ret, sent,
                   rflog, verdict, restoreFailed, daemonVars, data, confUp, confDown,
                   dataUp, dataDown, boundVars>>

StartConfig ==
    /\ pc = "start_config"
    /\ SendInitialConfig
    /\ pc' = "start_data"
    /\ UNCHANGED <<cfg, stop, queue, submitted, seen, outcome, ret, sent, rflog, verdict,
                   restoreFailed, daemonVars, conf, data, confDown, dataUp, dataDown,
                   received>>

(* The program ends here if it cannot listen for KISS clients. *)
StartData ==
    /\ pc = "start_data"
    /\ data' = IF alive THEN "up" ELSE "none"
    /\ pc' \in {"loop", "exit"}
    /\ UNCHANGED <<cfg, stop, queue, submitted, config_ok, status, seen, outcome, ret, sent,
                   rflog, verdict, restoreFailed, daemonVars, conf, confUp, confDown,
                   dataUp, dataDown, boundVars>>

(* Slip: the flag is looked at in the sleeps only. *)
LoopWithoutStop ==
    /\ pc = "loop"
    /\ pc' = "drain"
    /\ UNCHANGED <<cfg, stop, queue, submitted, config_ok, status, seen, outcome, ret, sent,
                   rflog, verdict, restoreFailed, daemonVars, linkVars, boundVars>>

(* while (!bridge_runtime_should_stop()) *)
Loop ==
    /\ pc = "loop"
    /\ pc' = IF stop THEN "exit" ELSE "drain"
    /\ UNCHANGED <<cfg, stop, queue, submitted, config_ok, status, seen, outcome, ret, sent,
                   rflog, verdict, restoreFailed, daemonVars, linkVars, boundVars>>

-----------------------------------------------------------------------------
(* bridge_loraham_tx_queue_drain_with_client *)

(* The state the gates of the drain look at: the pending CONF lines are    *)
(* read first, if there is a connection.                                   *)
Fresh == IF conf = "none" THEN status ELSE ReadConf

(* Frame of the turns of the drain that read CONF and touch nothing else   *)
(* but the queue, ret and pc.                                              *)
DrainReads ==
    /\ pc = "drain" /\ queue # <<>>
    /\ status' = Fresh
    /\ confDown' = <<>>
    /\ UNCHANGED <<cfg, stop, submitted, config_ok, seen, outcome, sent, rflog,
                   verdict, restoreFailed, daemonVars, conf, data, confUp, dataUp,
                   dataDown, boundVars>>

DrainEmpty ==
    /\ pc = "drain" /\ queue = <<>>
    /\ pc' = "select"
    /\ UNCHANGED <<cfg, stop, queue, submitted, config_ok, status, seen, outcome, ret,
                   sent, rflog, verdict, restoreFailed, daemonVars, linkVars, boundVars>>

(* The connection is gone, or the daemon has not reported STATUS yet. *)
DrainBlocked ==
    /\ DrainReads
    /\ conf = "dead" \/ (conf = "up" /\ ~Fresh.have_status)
    /\ pc' = "select"
    /\ UNCHANGED <<queue, ret>>

(* Slip: have_status is not asked for. *)
GatesOpenWithoutStatus == conf # "dead"

(* The gates up to the decision about the head. *)
GatesOpen == conf = "none" \/ (conf = "up" /\ Fresh.have_status)

(* The daemon says TXRESULT=0 although it was asked to enable it. *)
DrainDisabled ==
    /\ DrainReads
    /\ GatesOpen /\ Fresh.txresult = "off"
    /\ ret' = "CONF_SOCKET"
    /\ pc' = "return"
    /\ UNCHANGED queue

(* Lifetime over, or the transmitter was busy for too long. *)
DrainDrop ==
    /\ DrainReads
    /\ GatesOpen /\ Fresh.txresult # "off"
    /\ queue' = Tail(queue)
    /\ pc' = "drain"
    /\ UNCHANGED ret

(* The transmitter is busy, or a connection is missing. *)
DrainWait ==
    /\ DrainReads
    /\ GatesOpen /\ Fresh.txresult # "off"
    /\ (conf # "none" /\ Fresh.tx_busy) \/ data = "none" \/ conf = "none"
    /\ pc' = "select"
    /\ UNCHANGED <<queue, ret>>

DrainSend ==
    /\ DrainReads
    /\ GatesOpen /\ Fresh.txresult # "off"
    /\ ~Fresh.tx_busy /\ data # "none" /\ conf # "none"
    /\ pc' = "switch"
    /\ UNCHANGED <<queue, ret>>

(* Slips: a missing TX_RESULT, or a failed DATA write, keeps the           *)
(* connection; a failed CONF write keeps it; a packet leaves the queue     *)
(* only after full success.                                                *)
ReconnectDataAfterWriteOnly == ret = "TX_SOCKET"
ReconnectDataAfterResultOnly == ret = "TX_RESULT"
ReconnectConfNever == FALSE
WrittenIfSuccessful == outcome \notin {"none", "settle", "write"} /\ ret = "OK"

(* What the main loop does with the result. *)
ReconnectData == ret \in {"TX_SOCKET", "TX_RESULT"}
ReconnectConf == ret = "CONF_SOCKET"

(* packet_written: the packet leaves the queue whatever happened next. *)
Written == outcome \notin {"none", "settle", "write"}

(* The drain returns: the main loop closes the connection the error is     *)
(* about, forgets that the radio is configured, and goes on to select.     *)
Return ==
    /\ pc = "return"
    /\ IF ReconnectData THEN CloseData ELSE KeepData
    /\ IF ReconnectConf THEN CloseConf ELSE KeepConf
    /\ config_ok' = (config_ok /\ ~ReconnectData /\ ~ReconnectConf)
    /\ queue' = IF Written THEN Tail(queue) ELSE queue
    /\ pc' = "select"
    /\ outcome' = "none"
    /\ seen' = NotSeen
    /\ ret' = "OK"
    /\ UNCHANGED <<cfg, stop, submitted, sent, rflog, verdict, restoreFailed,
                   alive, kind, radio, txresult, air, boundVars>>

-----------------------------------------------------------------------------
(* bridge_loraham_send_packet_with_client *)

Shift == cfg = "split"      \* bridge_loraham_tx_shift_needed

(* A frequency is missing: nothing is sent, the packet stays queued. *)
SendNoFreq ==
    /\ pc = "switch" /\ cfg = "nofreq"
    /\ ret' = "FORMAT"
    /\ pc' = "return"
    /\ UNCHANGED <<cfg, stop, queue, submitted, config_ok, status, seen, outcome, sent,
                   rflog, verdict, restoreFailed, daemonVars, linkVars, boundVars>>

(* Slip: no settling time after the switch. *)
SwitchWithoutSettle ==
    /\ pc = "switch" /\ cfg # "nofreq"
    /\ conf = "up"
    /\ confUp' = Append(confUp, "tx")
    /\ pc' = "write"
    /\ UNCHANGED <<cfg, stop, queue, submitted, config_ok, status, seen, outcome, ret, sent,
                   rflog, verdict, restoreFailed, daemonVars, conf, data, confDown,
                   dataUp, dataDown, boundVars>>

(* To the transmit frequency, if it is another one. *)
Switch ==
    /\ pc = "switch" /\ cfg # "nofreq"
    /\ \/ ~Shift /\ pc' = "write" /\ UNCHANGED <<confUp, ret, faults>>
       \/ /\ Shift /\ conf = "up"
          /\ confUp' = Append(confUp, "tx")
          /\ pc' = "settle"
          /\ UNCHANGED <<ret, faults>>
       \/ /\ Shift /\ WriteFails(conf)
          /\ ret' = "CONF_SOCKET"
          /\ pc' = "return"
          /\ UNCHANGED confUp
    /\ UNCHANGED <<cfg, stop, queue, submitted, config_ok, status, seen, outcome, sent,
                   rflog, verdict, restoreFailed, daemonVars, conf, data, confDown,
                   dataUp, dataDown, received>>

(* Slip: a stop during the settling time returns at once. *)
SettleAbandoned ==
    /\ pc = "settle"
    /\ IF stop THEN pc' = "return" /\ ret' = "ERR"
       ELSE pc' = "write" /\ UNCHANGED ret
    /\ UNCHANGED <<cfg, stop, queue, submitted, config_ok, status, seen, outcome, sent,
                   rflog, verdict, restoreFailed, daemonVars, linkVars, boundVars>>

(* bridge_runtime_sleep_ms(tx_settle_ms) fails when a stop was requested. *)
Settle ==
    /\ pc = "settle"
    /\ \/ stop /\ outcome' = "settle" /\ pc' = "restore1"
       \/ /\ ~stop
          /\ SettleCovers => \A i \in DOMAIN confUp : confUp[i] # "tx"
          /\ pc' = "write"
          /\ UNCHANGED outcome
    /\ UNCHANGED <<cfg, stop, queue, submitted, config_ok, status, seen, ret, sent,
                   rflog, verdict, restoreFailed, daemonVars, linkVars, boundVars>>

(* The packet is written to the DATA socket; with a TX_RESULT daemon its   *)
(* result is awaited, else the TX= lines are.  A write that stalls may     *)
(* have got a part of the packet through (loraham_sock_write).             *)
Write ==
    /\ pc = "write"
    /\ \/ /\ data = "up"
          /\ dataUp' = Append(dataUp, [pkt |-> Head(queue), live |-> TRUE, whole |-> TRUE])
          /\ sent' = Append(sent, Head(queue))
          /\ pc' = IF status.txresult = "on" THEN "wait"
                   ELSE IF status.tx_busy THEN "busy" ELSE "seek"
          /\ UNCHANGED <<outcome, faults>>
       \/ /\ WriteFails(data)
          /\ outcome' = "write"
          /\ pc' = "restore1"
          /\ \/ UNCHANGED dataUp
             \/ /\ data = "up"
                /\ dataUp' = Append(dataUp, [pkt |-> Head(queue), live |-> TRUE,
                                             whole |-> FALSE])
          /\ UNCHANGED sent
    /\ UNCHANGED <<cfg, stop, queue, submitted, config_ok, status, seen, ret, rflog,
                   verdict, restoreFailed, daemonVars, conf, data, confUp, confDown,
                   dataDown, received>>

(* bridge_loraham_wait_tx_result: some frames are read.  The first         *)
(* TX_RESULT among them ends the wait; its sequence number is not looked   *)
(* at.  A later one in the same buffer is dropped.                         *)
FirstResult(n, i) ==
    /\ i \in 1..n /\ dataDown[i].type = "result"
    /\ \A j \in 1..(i - 1) : dataDown[j].type # "result"

WaitRead ==
    /\ pc = "wait"
    /\ \E n \in 1..Len(dataDown) :
          /\ dataDown' = SubSeq(dataDown, n + 1, Len(dataDown))
          /\ \/ /\ \A i \in 1..n : dataDown[i].type # "result"
                /\ UNCHANGED <<pc, outcome, rflog, verdict>>
             \/ \E i \in 1..n :
                   /\ FirstResult(n, i)
                   /\ pc' = "restore1"
                   /\ IF dataDown[i].ok
                      THEN /\ outcome' = "ok"
                           /\ rflog' = [rflog EXCEPT ![Head(queue)] = "ok"]
                           /\ UNCHANGED verdict
                      ELSE /\ outcome' = "refused"
                           /\ verdict' = verdict \union {Head(queue)}
                           /\ UNCHANGED rflog
    /\ UNCHANGED <<cfg, stop, queue, submitted, config_ok, status, seen, ret, sent,
                   restoreFailed, daemonVars, conf, data, confUp, confDown, dataUp,
                   boundVars>>

(* The wait ends without a result: deadline, stop, end of file or a frame  *)
(* that does not decode.                                                   *)
WaitLost ==
    /\ pc = "wait"
    /\ outcome' = "lost"
    /\ rflog' = [rflog EXCEPT ![Head(queue)] = "unconfirmed"]
    /\ pc' = "restore1"
    /\ UNCHANGED <<cfg, stop, queue, submitted, config_ok, status, seen, ret, sent,
                   verdict, restoreFailed, daemonVars, linkVars, boundVars>>

(* bridge_loraham_wait_tx_complete: first a TX=1 is awaited, then TX=0.    *)
(* Both may be in one buffer.                                              *)
Confirmed(b) ==
    /\ outcome' = IF b THEN "ok" ELSE "unconfirmed"
    /\ rflog' = [rflog EXCEPT ![Head(queue)] = IF b THEN "ok" ELSE "unconfirmed"]
    /\ pc' = "restore1"

ConfirmRead ==
    /\ pc \in {"seek", "busy"}
    /\ conf = "dead" \/ confDown # <<>>
    /\ status' = ReadConf
    /\ seen' = ReadSeen
    /\ confDown' = <<>>
    /\ \/ conf = "dead" /\ Confirmed(FALSE)
       \/ /\ conf = "up" /\ pc = "seek" /\ ~ReadSeen.busy
          /\ UNCHANGED <<pc, outcome, rflog>>
       \/ /\ conf = "up" /\ (pc = "busy" \/ ReadSeen.busy) /\ ReadConf.tx_busy
          /\ pc' = "busy"
          /\ UNCHANGED <<outcome, rflog>>
       \/ /\ conf = "up" /\ (pc = "busy" \/ ReadSeen.busy) /\ ~ReadConf.tx_busy
          /\ Confirmed(TRUE)
    /\ UNCHANGED <<cfg, stop, queue, submitted, config_ok, ret, sent, verdict,
                   restoreFailed, daemonVars, conf, data, confUp, dataUp, dataDown,
                   boundVars>>

(* LHKT_TX_START_WAIT_MS or tx_busy_timeout_ms has passed, or a stop was   *)
(* requested while the transmitter was busy.                               *)
ConfirmTimeout ==
    /\ pc \in {"seek", "busy"}
    /\ Confirmed(FALSE)
    /\ UNCHANGED <<cfg, stop, queue, submitted, config_ok, status, seen, ret, sent,
                   verdict, restoreFailed, daemonVars, linkVars, boundVars>>

-----------------------------------------------------------------------------
(* The result of a transmission that ended with outcome, by whether the    *)
(* receive frequency could be restored.                                    *)
ResultOf(restored) ==
    CASE outcome = "write" -> "TX_SOCKET"
      [] outcome = "lost" -> "TX_RESULT"
      [] outcome = "settle" /\ restored -> "ERR"
      [] OTHER -> IF restored THEN "OK" ELSE "CONF_SOCKET"

(* bridge_loraham_restore_rx_freq *)
RestoreDone ==
    /\ pc \in {"restore1", "restore2"}
    /\ pc = "restore2" => ~stop
    /\ \/ ~Shift /\ UNCHANGED confUp
       \/ Shift /\ conf = "up" /\ confUp' = Append(confUp, "rx")
    /\ ret' = ResultOf(TRUE)
    /\ pc' = "return"
    /\ UNCHANGED <<cfg, stop, queue, submitted, config_ok, status, seen, outcome, sent,
                   rflog, verdict, restoreFailed, daemonVars, conf, data, confDown,
                   dataUp, dataDown, boundVars>>

(* The first failure is retried after a sleep, the second is final. *)
RestoreFail ==
    /\ pc \in {"restore1", "restore2"} /\ Shift
    /\ pc = "restore2" => ~stop
    /\ WriteFails(conf)
    /\ restoreFailed' = TRUE
    /\ IF pc = "restore1"
       THEN pc' = "restore2" /\ UNCHANGED ret
       ELSE pc' = "return" /\ ret' = ResultOf(FALSE)
    /\ UNCHANGED <<cfg, stop, queue, submitted, config_ok, status, seen, outcome, sent,
                   rflog, verdict, daemonVars, linkVars, received>>

(* The sleep before the retry is cut short by a stop: no retry. *)
RestoreGiveUp ==
    /\ pc = "restore2" /\ stop
    /\ ret' = ResultOf(FALSE)
    /\ pc' = "return"
    /\ UNCHANGED <<cfg, stop, queue, submitted, config_ok, status, seen, outcome, sent,
                   rflog, verdict, restoreFailed, daemonVars, linkVars, boundVars>>

-----------------------------------------------------------------------------
(* The select of lhkt_bridge_run and its handlers. *)

ConfReadable == conf = "dead" \/ confDown # <<>>
DataReadable == data = "dead" \/ dataDown # <<>>

(* Slip: the limit is not asked for. *)
HandleClientUnlimited(c) ==
    IF c
    THEN /\ submitted + 1 \in Packets
         /\ submitted' = submitted + 1
         /\ queue' = Append(queue, submitted + 1)
    ELSE UNCHANGED <<submitted, queue>>

(* bridge_kiss_handle_data_frame ends in bridge_tx_queue_push: a packet is *)
(* queued, or dropped if the queue is full.                                *)
HandleClient(c) ==
    IF c
    THEN /\ submitted + 1 \in Packets
         /\ submitted' = submitted + 1
         /\ queue' = IF Len(queue) < QueueLimit THEN Append(queue, submitted + 1)
                     ELSE queue
    ELSE UNCHANGED <<submitted, queue>>

HandleConf ==
    CASE ~ConfReadable -> KeepConf
      [] conf = "dead" -> CloseConf
      [] OTHER -> /\ status' = ReadConf
                  /\ confDown' = <<>>
                  /\ UNCHANGED <<conf, confUp>>

(* Some frames are read.  A TX_RESULT nobody waits for and an ERROR are    *)
(* dropped.  lost: end of file, or a received packet that could not be     *)
(* converted for the client (bridge_rx_handle_framed_chunk < 0).           *)
HandleData(lost) ==
    IF ~DataReadable THEN ~lost /\ KeepData
    ELSE IF dataDown = <<>> THEN lost /\ CloseData
    ELSE \E n \in 1..Len(dataDown) :
           IF lost
           THEN /\ \E i \in 1..n : dataDown[i].type = "rx"
                /\ CloseData
           ELSE /\ dataDown' = SubSeq(dataDown, n + 1, Len(dataDown))
                /\ UNCHANGED <<data, dataUp, job>>

(* Slip: config_ok survives the end of the CONF connection. *)
SelectReadyStillConfigured ==
    /\ pc = "select"
    /\ \E c, lost \in BOOLEAN :
          /\ c \/ ConfReadable \/ DataReadable
          /\ HandleClient(c)
          /\ HandleConf
          /\ HandleData(lost)
          /\ config_ok' = (config_ok /\ ~lost)
    /\ pc' = "loop"
    /\ UNCHANGED <<cfg, stop, seen, outcome, ret, sent, rflog, verdict, restoreFailed,
                   alive, kind, radio, txresult, air, boundVars>>

SelectReady ==
    /\ pc = "select"
    /\ \E c, lost \in BOOLEAN :
          /\ c \/ ConfReadable \/ DataReadable
          /\ HandleClient(c)
          /\ HandleConf
          /\ HandleData(lost)
          /\ config_ok' = (config_ok /\ conf # "dead" /\ ~lost)
    /\ pc' = "loop"
    /\ UNCHANGED <<cfg, stop, seen, outcome, ret, sent, rflog, verdict, restoreFailed,
                   alive, kind, radio, txresult, air, boundVars>>

(* A signal interrupts the select. *)
SelectInterrupted ==
    /\ pc = "select" /\ stop
    /\ pc' = "loop"
    /\ UNCHANGED <<cfg, stop, queue, submitted, config_ok, status, seen, outcome, ret,
                   sent, rflog, verdict, restoreFailed, daemonVars, linkVars, boundVars>>

(* Nothing was readable for the whole timeout. *)
SelectTimeout ==
    /\ pc = "select" /\ ~ConfReadable /\ ~DataReadable
    /\ pc' = "timeout"
    /\ UNCHANGED <<cfg, stop, queue, submitted, config_ok, status, seen, outcome, ret,
                   sent, rflog, verdict, restoreFailed, daemonVars, linkVars, boundVars>>

(* CONF first; then DATA, which also configures; then a configuration that *)
(* failed before.  Each turn of the main loop does one of them.            *)
ReconnectOrConfigure ==
    CASE conf = "none" ->
           /\ conf' = IF alive THEN "up" ELSE "none"
           /\ UNCHANGED <<data, config_ok, status, confUp, faults>>
      [] conf # "none" /\ data = "none" /\ ~alive ->
           UNCHANGED <<conf, data, config_ok, status, confUp, faults>>
      [] conf # "none" /\ data = "none" /\ alive ->
           /\ data' = "up"
           /\ SendInitialConfig
           /\ UNCHANGED conf
      [] conf # "none" /\ data # "none" /\ ~config_ok ->
           /\ SendInitialConfig
           /\ UNCHANGED <<conf, data>>
      [] OTHER -> UNCHANGED <<conf, data, config_ok, status, confUp, faults>>

Timeout ==
    /\ pc = "timeout"
    /\ ReconnectOrConfigure
    /\ pc' = "loop"
    /\ UNCHANGED <<cfg, stop, queue, submitted, seen, outcome, ret, sent, rflog, verdict,
                   restoreFailed, daemonVars, confDown, dataUp, dataDown, received>>

(* The signal handler. *)
Signal ==
    /\ StopAllowed /\ ~stop /\ pc # "exit"
    /\ stop' = TRUE
    /\ UNCHANGED <<pc, cfg, queue, submitted, config_ok, status, seen, outcome, ret,
                   sent, rflog, verdict, restoreFailed, daemonVars, linkVars, boundVars>>

-----------------------------------------------------------------------------
Init ==
    /\ DaemonInit
    /\ pc = "start"
    /\ cfg \in Configs
    /\ stop = FALSE
    /\ queue = <<>>
    /\ submitted = 0
    /\ config_ok = FALSE
    /\ status = NoStatus
    /\ seen = NotSeen
    /\ outcome = "none"
    /\ ret = "OK"
    /\ sent = <<>>
    /\ rflog = [p \in Packets |-> "none"]
    /\ verdict = {}
    /\ restoreFailed = FALSE

Transmit ==
    \/ SendNoFreq \/ Switch \/ Settle \/ Write
    \/ WaitRead \/ WaitLost \/ ConfirmRead \/ ConfirmTimeout
    \/ RestoreDone \/ RestoreFail \/ RestoreGiveUp

BridgeStep ==
    \/ Start \/ StartConfig \/ StartData \/ Loop
    \/ DrainEmpty \/ DrainBlocked \/ DrainDisabled \/ DrainDrop \/ DrainWait
    \/ DrainSend \/ Return
    \/ Transmit
    \/ SelectReady \/ SelectInterrupted \/ SelectTimeout \/ Timeout

DaemonStep ==
    /\ DaemonConf \/ DaemonStart \/ DaemonRefuse \/ DaemonDone \/ DaemonReceive
       \/ DaemonClosesConf \/ DaemonClosesData \/ DaemonCrash \/ DaemonBoot
    /\ UNCHANGED bridgeVars

Next == BridgeStep \/ DaemonStep \/ Signal

Spec == Init /\ [][Next]_vars

-----------------------------------------------------------------------------
(* Safety *)

(* The frequency a packet has to be transmitted on. *)
TxFreq == IF Shift THEN "tx" ELSE "rx"

(* The frequency the radio will be on once the daemon has caught up. *)
FinalFreq ==
    LET F == {i \in DOMAIN confUp : confUp[i] \in {"rx", "tx"}}
    IN  IF F = {} THEN radio
        ELSE confUp[CHOOSE i \in F : \A j \in F : j <= i]

(* The packet at the head of the queue has been written already: its       *)
(* result is awaited, or the transmission ends.                            *)
Awaiting == {"wait", "seek", "busy"}
Ending == {"restore1", "restore2"}
InFlight == pc \in Awaiting \/ (pc \in Ending \union {"return"} /\ Written)

Unsent == IF InFlight THEN Tail(queue) ELSE queue
LastSent == IF sent = <<>> THEN 0 ELSE sent[Len(sent)]

Outgoing == INSTANCE TxFifo
                WITH Packet <- Packets, Capacity <- QueueLimit,
                     fifo <- Unsent, lastSent <- LastSent

(* Main loop, drain and transmit path together implement the bounded FIFO, *)
(* with all their errors: a packet leaves the queue by being written once  *)
(* or by being dropped, in the order of submission.  A failed restore, a   *)
(* lost result, a partial write or a reconnect neither loses a packet from *)
(* the middle nor brings a written one back.                               *)
ImplementsFifo == Outgoing!Spec

(* A packet is written to the daemon at most once, and in the order of     *)
(* submission: not again after a failed restore, a lost result or a        *)
(* reconnect, although the drain retries what it could not write.          *)
SentOnceInOrder == \A i, j \in DOMAIN sent : i < j => sent[i] < sent[j]

(* A packet of which only a part was written is never continued: what the  *)
(* daemon reads next on that connection is its end, never the retry of the *)
(* packet, which would be taken for the rest of it.                        *)
PartNotContinued ==
    \A i \in DOMAIN dataUp : ~dataUp[i].whole => i = Len(dataUp) /\ data # "none"

(* "ok" in the RF log is about the packet it names: that packet was on the *)
(* air.  The sequence number of a TX_RESULT is never compared, so this     *)
(* rests on a new DATA connection after every missing result.              *)
ConfirmedOnAir ==
    \A p \in Packets : rflog[p] = "ok" => \E f \in Freqs : <<p, f>> \in air

(* A TX_RESULT that reports a failure is about the packet it is counted    *)
(* for: that packet was not and is not being transmitted.                  *)
RefusedNotOnAir ==
    \A p \in verdict : job.pkt # p /\ \A f \in Freqs : <<p, f>> \notin air

(* The RF log does not say "ok" of a packet the daemon refused.  (While    *)
(* nothing failed, a packet that was written, is not waiting at the daemon *)
(* and neither is nor was on the air, has been refused.)                   *)
RefusedNotLoggedOk ==
    faults = 0 => \A p \in Packets : rflog[p] = "ok" =>
        \/ \E i \in DOMAIN dataUp : dataUp[i].pkt = p
        \/ job.pkt = p
        \/ \E f \in Freqs : <<p, f>> \in air

(* A transmission on another frequency than tx_freq never goes unnoticed:  *)
(* the RF log says "unconfirmed", or a failed restore is counted, or the   *)
(* CONF connection has just been closed by the daemon.                     *)
OffFrequencyReported ==
    \A p \in Packets : \A f \in Freqs \ {TxFreq} :
        <<p, f>> \in air => rflog[p] = "unconfirmed" \/ restoreFailed \/ conf = "dead"

(* Between transmissions a bridge that believes the radio configured is    *)
(* right: with a working CONF connection the radio is, or is about to be,  *)
(* back on the receive frequency.                                          *)
ConfiguredMeansReceiving ==
    /\ pc \in {"loop", "drain", "select", "timeout"}
    /\ config_ok /\ conf = "up" /\ cfg # "nofreq"
    => FinalFreq = "rx"

(* The bridge does not leave the radio on the transmit frequency when it   *)
(* stops, at whatever point of a transmission the signal came, unless a    *)
(* connection or a write failed that has not been made up for.             *)
ExitReceiving ==
    /\ pc = "exit"
    /\ faults = 0 \/ (config_ok /\ conf = "up")
    => FinalFreq # "tx"

(* The bridge waits for a TX_RESULT only from a daemon that will send one, *)
(* and falls back to the TX= lines only with a daemon that has no          *)
(* TX_RESULT: the STATUS it acts on is that of the daemon it talks to.     *)
ModeAgrees ==
    /\ pc = "wait" /\ data = "up" => txresult
    /\ pc \in {"seek", "busy"} /\ data = "up" => kind = "110"

-----------------------------------------------------------------------------
(* Liveness.  The bridge runs; the daemon takes packets, ends its          *)
(* transmissions and is started again after a crash.                       *)
Fairness ==
    /\ WF_vars(BridgeStep)
    /\ WF_vars((DaemonStart \/ DaemonRefuse) /\ UNCHANGED bridgeVars)
    /\ WF_vars(DaemonDone /\ UNCHANGED bridgeVars)
    /\ WF_vars(DaemonBoot /\ UNCHANGED bridgeVars)

(* The daemon carries out the commands on CONF, so that a GET STATUS is    *)
(* answered on every connection that stands.                               *)
Answers == WF_vars(DaemonConf /\ UNCHANGED bridgeVars)

(* Lifetimes end: a head that is looked at again and again is dropped.     *)
LifetimesEnd == SF_vars(DrainDrop)

FairSpec == Spec /\ Fairness /\ Answers

(* A daemon that need not answer, and lifetimes that end. *)
SilentSpec == Spec /\ Fairness /\ LifetimesEnd

(* A requested stop ends the program, wherever it is. *)
StopEnds == stop ~> pc = "exit"

(* A radio on the transmit frequency comes back, unless the program ends:  *)
(* every failed restore is made up for by a reconnect and a configuration. *)
RadioReturns == radio = "tx" ~> (radio # "tx" \/ pc = "exit")

IsQueued(p) == \E i \in DOMAIN queue : queue[i] = p
Leaves(p) == IsQueued(p) ~> (pc = "exit" \/ ~IsQueued(p))

(* With a daemon that answers GET STATUS every queued packet is sent or    *)
(* dropped in the end, whatever its lifetime: the drain and the reconnects *)
(* of the timeout branch open every gate again that a missing TX=0, a      *)
(* failed transmission or a lost connection has shut.  It is no claim      *)
(* about a daemon that keeps its connection and sends no STATUS.           *)
QueueMoves == \A p \in Packets : Leaves(p)

(* A packet waits no longer than its lifetime (the usage text: "Max queued *)
(* packet lifetime"): in the end it has left the queue, if only because it *)
(* was dropped, and whatever the daemon does not say.                      *)
LifetimeBounds == \A p \in Packets : Leaves(p)
=============================================================================
