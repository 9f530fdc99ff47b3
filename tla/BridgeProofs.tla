---------------------------- MODULE BridgeProofs ----------------------------
(***************************************************************************)
(* Machine-checked proofs about Bridge, for every set of packets, queue    *)
(* limit, number of faults, configuration and version of the daemon.       *)
(*                                                                         *)
(* They go from the types to the order of the packets, the FIFO, the parts *)
(* of packets, what the bridge knows of the daemon, the frequency of the   *)
(* radio, and at last the truth of what is logged of each packet.          *)
(***************************************************************************)
EXTENDS Bridge, SequenceTheorems, WellFoundedInduction, TLAPS

-----------------------------------------------------------------------------
(* Types *)

StatusType == [have_status : BOOLEAN, txresult : Flags, tx_busy : BOOLEAN]
SeenType == [busy : BOOLEAN, idle : BOOLEAN]
JobType == [pkt : Packets \union {0}, live : BOOLEAN, freq : Freqs]
UpType == [pkt : Packets, live : BOOLEAN, whole : BOOLEAN]
LineType == [kind : {"TX", "STATUS"}, tx : BOOLEAN, txresult : Flags]
FrameType == [type : {"rx", "result", "error"}, pkt : Packets \union {0}, ok : BOOLEAN]

(* The constant records are typed. *)
LEMMA ConstantTypes ==
    /\ NoStatus \in StatusType /\ NotSeen \in SeenType /\ NoJob \in JobType
    /\ RxFrame \in FrameType
    /\ \A b \in BOOLEAN : TxLine(b) \in LineType
    /\ \A b \in BOOLEAN, r \in Flags : StatusLine(b, r) \in LineType
    /\ \A p \in Packets : ErrorFrame(p) \in FrameType
    /\ \A p \in Packets, b \in BOOLEAN : ResultFrame(p, b) \in FrameType
<1>1. NoStatus \in StatusType /\ NotSeen \in SeenType
  BY DEF NoStatus, NotSeen, StatusType, SeenType, Flags
<1>2. NoJob \in JobType /\ RxFrame \in FrameType
  BY DEF NoJob, JobType, Freqs, RxFrame, FrameType
<1>3. ASSUME NEW b \in BOOLEAN
      PROVE  TxLine(b) \in LineType
  BY DEF TxLine, LineType, Flags
<1>4. ASSUME NEW b \in BOOLEAN, NEW r \in Flags
      PROVE  StatusLine(b, r) \in LineType
  BY DEF StatusLine, LineType
<1>5. ASSUME NEW p \in Packets
      PROVE  ErrorFrame(p) \in FrameType
  BY DEF ErrorFrame, FrameType
<1>6. ASSUME NEW p \in Packets, NEW b \in BOOLEAN
      PROVE  ResultFrame(p, b) \in FrameType
  BY DEF ResultFrame, FrameType
<1> QED BY <1>1, <1>2, <1>3, <1>4, <1>5, <1>6, Zenon

(* What bridge_conf_read_available leaves in the state. *)
LEMMA ReadConfType ==
    ASSUME TypeOK
    PROVE  ReadConf \in StatusType /\ ReadSeen \in SeenType
<1>1. /\ status \in StatusType /\ seen \in SeenType /\ confDown \in Seq(LineType)
      /\ DOMAIN confDown = 1..Len(confDown) /\ Len(confDown) \in Nat
  BY DEF TypeOK, StatusType, SeenType, LineType
<1>2. \A i \in 1..Len(confDown) : confDown[i].tx \in BOOLEAN /\ confDown[i].txresult \in Flags
  <2>1. ASSUME NEW i \in 1..Len(confDown)
        PROVE  confDown[i] \in LineType
    BY <1>1, <2>1, ElementOfSeq
  <2> QED BY <2>1 DEF LineType
<1> DEFINE h == status.have_status \/ \E i \in DOMAIN confDown : confDown[i].kind = "STATUS"
           t == IF confDown = <<>> THEN status.tx_busy ELSE confDown[Len(confDown)].tx
           r == IF \E i \in DOMAIN confDown : LastToken(i)
                THEN confDown[CHOOSE i \in DOMAIN confDown : LastToken(i)].txresult
                ELSE status.txresult
<1>3. h \in BOOLEAN
  OBVIOUS
<1>4. t \in BOOLEAN
  <2>1. CASE confDown = <<>>
    <3>1. status.tx_busy \in BOOLEAN
      BY <1>1 DEF StatusType
    <3> QED BY <2>1, <3>1
  <2>2. CASE confDown # <<>>
    <3>1. Len(confDown) \in 1..Len(confDown)
      BY <1>1, <2>2, EmptySeq
    <3> QED BY <1>2, <2>2, <3>1
  <2> QED BY <2>1, <2>2
<1>5. r \in Flags
  <2>1. CASE \E i \in DOMAIN confDown : LastToken(i)
    <3>1. (CHOOSE i \in DOMAIN confDown : LastToken(i)) \in DOMAIN confDown
      BY <2>1, Zenon
    <3> QED BY <1>1, <1>2, <2>1, <3>1, Zenon
  <2>2. CASE ~ \E i \in DOMAIN confDown : LastToken(i)
    <3>1. status.txresult \in Flags
      BY <1>1 DEF StatusType
    <3> QED BY <2>2, <3>1, Zenon
  <2> QED BY <2>1, <2>2
<1>6. ReadConf = [have_status |-> h, tx_busy |-> t, txresult |-> r]
  BY DEF ReadConf
<1>7. ReadConf \in StatusType
  <2> HIDE DEF h, t, r
  <2> QED BY <1>3, <1>4, <1>5, <1>6 DEF StatusType
<1> DEFINE b == seen.busy \/ (\E i \in DOMAIN confDown : confDown[i] = TxLine(TRUE))
           d == seen.idle \/ (\E i \in DOMAIN confDown : confDown[i] = TxLine(FALSE))
<1>8. b \in BOOLEAN /\ d \in BOOLEAN
  OBVIOUS
<1>9. ReadSeen \in SeenType
  <2>1. ReadSeen = [busy |-> b, idle |-> d]
    BY DEF ReadSeen
  <2> HIDE DEF b, d
  <2> QED BY <1>8, <2>1 DEF SeenType
<1> QED BY <1>7, <1>9

(* The lines of the initial configuration. *)
LEMMA InitialConfigType ==
    /\ InitialConfig \in Seq(Commands) /\ Len(InitialConfig) = 3
    /\ InitialConfig[1] \in {"plain", "rx"} /\ (cfg # "nofreq" => InitialConfig[1] = "rx")
    /\ InitialConfig[2] = "txresult" /\ InitialConfig[3] = "status"
BY DEF InitialConfig, Commands

(* Closing the connections keeps the types of the commands and packets     *)
(* that are still to be read.                                              *)
LEMMA CloseTypes ==
    ASSUME TypeOK
    PROVE  /\ CloseConf => conf' \in Links /\ status' \in StatusType
                           /\ confUp' \in Seq(Commands) /\ confDown' \in Seq(LineType)
           /\ CloseData => data' \in Links /\ dataUp' \in Seq(UpType)
                           /\ dataDown' \in Seq(FrameType) /\ job' \in JobType
<1>1. /\ confUp \in Seq(Commands) /\ dataUp \in Seq(UpType) /\ job \in JobType
  BY DEF TypeOK, UpType, JobType
<1>2. ASSUME CloseConf
      PROVE  /\ conf' \in Links /\ status' \in StatusType
             /\ confUp' \in Seq(Commands) /\ confDown' \in Seq(LineType)
  <2>1. confUp' = [i \in 1..Len(confUp) |-> IF confUp[i] = "status" THEN "plain" ELSE confUp[i]]
    BY <1>1, <1>2 DEF CloseConf
  <2>2. confUp' \in [1..Len(confUp) -> Commands]
    BY <1>1, <2>1 DEF Commands
  <2>3. confUp' \in Seq(Commands)
    BY <1>1, <2>2
  <2>4. <<>> \in Seq(LineType) /\ "none" \in Links
    BY DEF Links
  <2> QED BY <1>2, <2>3, <2>4, ConstantTypes, Zenon DEF CloseConf
<1>3. ASSUME CloseData
      PROVE  /\ data' \in Links /\ dataUp' \in Seq(UpType)
             /\ dataDown' \in Seq(FrameType) /\ job' \in JobType
  <2>1. Orphan(dataUp) \in Seq(UpType)
    <3> DEFINE n == IF dataUp # <<>> /\ ~dataUp[Len(dataUp)].whole THEN Len(dataUp) - 1 ELSE Len(dataUp)
    <3>1. n \in Nat /\ n <= Len(dataUp)
      BY <1>1, EmptySeq
    <3>2. Orphan(dataUp) = [i \in 1..n |-> [dataUp[i] EXCEPT !.live = FALSE]]
      BY DEF Orphan
    <3> HIDE DEF n
    <3>3. ASSUME NEW i \in 1..n
          PROVE  [dataUp[i] EXCEPT !.live = FALSE] \in UpType
      <4>1. dataUp[i] \in UpType
        BY <1>1, <3>1, <3>3, ElementOfSeq
      <4> QED BY <4>1 DEF UpType
    <3>4. Orphan(dataUp) \in [1..n -> UpType]
      BY <3>2, <3>3
    <3> QED BY <3>1, <3>4
  <2>2. [job EXCEPT !.live = FALSE] \in JobType
    BY <1>1 DEF JobType
  <2>3. <<>> \in Seq(FrameType) /\ "none" \in Links
    BY DEF Links
  <2> QED BY <1>3, <2>1, <2>2, <2>3, Zenon DEF CloseData
<1> QED BY <1>2, <1>3

(* A failed write is counted within the bound. *)
LEMMA WriteFailsType ==
    ASSUME TypeOK, NEW link, WriteFails(link)
    PROVE  faults' \in 0..MaxFaults
BY BoundsAssumption DEF TypeOK, WriteFails

(* The initial configuration, written or not. *)
LEMMA SendInitialConfigType ==
    ASSUME TypeOK, SendInitialConfig
    PROVE  /\ config_ok' \in BOOLEAN /\ status' \in StatusType
           /\ confUp' \in Seq(Commands) /\ faults' \in 0..MaxFaults
<1>1. /\ status \in StatusType /\ confUp \in Seq(Commands) /\ faults \in 0..MaxFaults
  BY DEF TypeOK, StatusType
<1>2. [status EXCEPT !.have_status = FALSE, !.txresult = "absent"] \in StatusType
  BY <1>1 DEF StatusType, Flags
<1>3. CASE conf = "none" /\ config_ok' = FALSE /\ UNCHANGED <<status, confUp, faults>>
  BY <1>1, <1>3
<1>4. CASE /\ conf = "up" /\ config_ok' = TRUE
           /\ confUp' = confUp \o InitialConfig
           /\ status' = [status EXCEPT !.have_status = FALSE, !.txresult = "absent"]
           /\ UNCHANGED faults
  <2>1. confUp' \in Seq(Commands)
    BY <1>1, <1>4, InitialConfigType, ConcatProperties
  <2> QED BY <1>1, <1>2, <1>4, <2>1, Zenon
<1>5. CASE /\ conf # "none" /\ WriteFails(conf)
           /\ \E n \in IF conf = "up" THEN 0..2 ELSE {0} :
                 confUp' = confUp \o SubSeq(InitialConfig, 1, n)
           /\ config_ok' = FALSE
           /\ status' = [status EXCEPT !.have_status = FALSE, !.txresult = "absent"]
  <2>1. \E n \in 0..2 : confUp' = confUp \o SubSeq(InitialConfig, 1, n)
    <3>1. (IF conf = "up" THEN 0..2 ELSE {0}) \subseteq 0..2
      OBVIOUS
    <3> QED BY <1>5, <3>1, Zenon
  <2>2. PICK n \in 0..2 : confUp' = confUp \o SubSeq(InitialConfig, 1, n)
    BY <2>1, Zenon
  <2>5. SubSeq(InitialConfig, 1, n) \in Seq(Commands)
    <3>1. InitialConfig \in Seq(Commands) /\ Len(InitialConfig) = 3 /\ n \in Int /\ 1 \in Int
      BY InitialConfigType
    <3>2. \A i \in 1..n : InitialConfig[i] \in Commands
      BY <3>1, ElementOfSeq
    <3> QED BY <3>1, <3>2, SubSeqProperties
  <2>3. confUp' \in Seq(Commands)
    BY <1>1, <2>2, <2>5, ConcatProperties
  <2>4. faults' \in 0..MaxFaults
    BY <1>5, WriteFailsType
  <2> QED BY <1>2, <1>5, <2>3, <2>4, Zenon
<1> QED BY <1>3, <1>4, <1>5, Zenon DEF SendInitialConfig

(* Lines and frames on their way to the bridge. *)
LEMMA ToTypes ==
    ASSUME TypeOK
    PROVE  /\ \A l \in LineType : ToConf(l) \in Seq(LineType)
           /\ \A b \in BOOLEAN, f \in FrameType : ToData(b, f) \in Seq(FrameType)
<1>1. confDown \in Seq(LineType) /\ dataDown \in Seq(FrameType)
  BY DEF TypeOK, LineType, FrameType
<1>2. ASSUME NEW l \in LineType PROVE ToConf(l) \in Seq(LineType)
  BY <1>1, AppendProperties DEF ToConf
<1>3. ASSUME NEW b, NEW f \in FrameType PROVE ToData(b, f) \in Seq(FrameType)
  BY <1>1, AppendProperties DEF ToData
<1> QED BY <1>2, <1>3, Zenon

-----------------------------------------------------------------------------
(* Where the bridge is in a transmission *)

Sending == {"switch", "settle", "write"}

(* A transmission has an outcome only between its end and the return to    *)
(* the main loop; its packet is at the head of the queue all the time; and *)
(* an interrupted write and a missing result are returned as such.         *)
Control ==
    /\ pc \notin Ending \union {"return"} => outcome = "none"
    /\ pc \in Ending => outcome # "none"
    /\ pc \in Sending \union Awaiting \union Ending => queue # <<>>
    /\ pc = "return" /\ Written => queue # <<>>
    /\ pc = "return" /\ outcome = "write" => ret = "TX_SOCKET"
    /\ pc = "return" /\ outcome = "lost" => ret = "TX_RESULT"

-----------------------------------------------------------------------------
(* Type correctness *)

(* Steps that only move the bridge on. *)
LEMMA ControlTypes ==
    ASSUME TypeOK,
           Loop \/ DrainEmpty \/ SendNoFreq \/ Settle \/ SelectInterrupted \/ SelectTimeout \/ Signal
    PROVE  TypeOK'
<1> USE DEF daemonVars, linkVars, boundVars, PCs, Outcomes, Returns
<1>1. CASE Loop
  BY <1>1 DEF TypeOK, Loop
<1>2. CASE DrainEmpty
  BY <1>2 DEF TypeOK, DrainEmpty
<1>3. CASE SendNoFreq
  BY <1>3 DEF TypeOK, SendNoFreq
<1>4. CASE Settle
  BY <1>4 DEF TypeOK, Settle
<1>5. CASE SelectInterrupted
  BY <1>5 DEF TypeOK, SelectInterrupted
<1>6. CASE SelectTimeout
  BY <1>6 DEF TypeOK, SelectTimeout
<1>7. CASE Signal
  BY <1>7 DEF TypeOK, Signal
<1> QED BY <1>1, <1>2, <1>3, <1>4, <1>5, <1>6, <1>7

(* The start-up. *)
LEMMA StartTypes ==
    ASSUME TypeOK, Start \/ StartConfig \/ StartData
    PROVE  TypeOK'
<1> USE DEF daemonVars, linkVars, boundVars, PCs, Links
<1>1. CASE Start
  <2>1. conf' \in Links
    BY <1>1 DEF Start
  <2> QED BY <1>1, <2>1 DEF TypeOK, Start
<1>2. CASE StartConfig
  <2>1. /\ config_ok' \in BOOLEAN /\ status' \in StatusType
        /\ confUp' \in Seq(Commands) /\ faults' \in 0..MaxFaults
    BY <1>2, SendInitialConfigType DEF StartConfig
  <2> QED BY <1>2, <2>1 DEF TypeOK, StartConfig, StatusType
<1>3. CASE StartData
  <2>1. data' \in Links /\ pc' \in PCs
    BY <1>3 DEF StartData
  <2> QED BY <1>3, <2>1 DEF TypeOK, StartData
<1> QED BY <1>1, <1>2, <1>3

(* The head of a queue that is not empty is a packet, its tail is a queue. *)
LEMMA HeadTail ==
    ASSUME NEW S, NEW q \in Seq(S), q # <<>>
    PROVE  /\ Len(q) \in Nat /\ Len(q) > 0
           /\ Head(q) \in S /\ Head(q) = q[1]
           /\ Tail(q) \in Seq(S) /\ Len(Tail(q)) = Len(q) - 1
           /\ \A i \in 1..(Len(q) - 1) : Tail(q)[i] = q[i + 1]
<1>1. Len(q) \in Nat /\ Len(q) > 0
  BY EmptySeq, LenProperties
<1>2. Head(q) \in S /\ Tail(q) \in Seq(S) /\ Len(Tail(q)) = Len(q) - 1
  BY HeadTailProperties
<1>3. \A i \in 1..Len(Tail(q)) : Tail(q)[i] = q[i + 1]
  BY HeadTailProperties
<1>4. Head(q) = q[1]
  OBVIOUS
<1> QED BY <1>1, <1>2, <1>3, <1>4

(* The turns of the drain. *)
LEMMA DrainTypes ==
    ASSUME TypeOK, DrainBlocked \/ DrainDisabled \/ DrainDrop \/ DrainWait \/ DrainSend
    PROVE  TypeOK'
<1> USE DEF daemonVars, linkVars, boundVars, PCs, Returns
<1>1. DrainReads
  BY DEF DrainBlocked, DrainDisabled, DrainDrop, DrainWait, DrainSend
<1>2. status' \in StatusType
  <2>1. status \in StatusType
    BY DEF TypeOK, StatusType
  <2> QED BY <1>1, <2>1, ReadConfType, Zenon DEF DrainReads, Fresh
<1>3. confDown' \in Seq(LineType)
  BY <1>1 DEF DrainReads
<1>4. queue' \in Seq(Packets) /\ Len(queue') <= QueueLimit
  <2>1. queue \in Seq(Packets) /\ Len(queue) <= QueueLimit /\ queue # <<>>
    BY <1>1 DEF TypeOK, DrainReads
  <2>2. queue' = queue \/ queue' = Tail(queue)
    BY DEF DrainBlocked, DrainDisabled, DrainDrop, DrainWait, DrainSend
  <2>3. Tail(queue) \in Seq(Packets) /\ Len(Tail(queue)) <= QueueLimit
    BY <2>1, HeadTail, QueueLimitAssumption
  <2> QED BY <2>1, <2>2, <2>3
<1>5. pc' \in PCs /\ (ret' = ret \/ ret' = "CONF_SOCKET")
  BY DEF DrainBlocked, DrainDisabled, DrainDrop, DrainWait, DrainSend
<1> QED BY <1>1, <1>2, <1>3, <1>4, <1>5 DEF TypeOK, DrainReads, StatusType, LineType

(* The return to the main loop. *)
LEMMA ReturnTypes ==
    ASSUME TypeOK, Control, Return
    PROVE  TypeOK'
<1> USE DEF daemonVars, linkVars, boundVars
<1>1. data' \in Links /\ dataUp' \in Seq(UpType) /\ dataDown' \in Seq(FrameType) /\ job' \in JobType
  <2>1. CloseData \/ KeepData
    BY Zenon DEF Return
  <2>2. CASE KeepData
    BY <2>2 DEF KeepData, TypeOK, UpType, FrameType, JobType
  <2> QED BY <2>1, <2>2, CloseTypes, Zenon
<1>2. conf' \in Links /\ status' \in StatusType /\ confUp' \in Seq(Commands) /\ confDown' \in Seq(LineType)
  <2>1. CloseConf \/ KeepConf
    BY Zenon DEF Return
  <2>2. CASE KeepConf
    BY <2>2 DEF KeepConf, TypeOK, StatusType, LineType
  <2> QED BY <2>1, <2>2, CloseTypes, Zenon
<1>3. queue' \in Seq(Packets) /\ Len(queue') <= QueueLimit
  <2>1. queue \in Seq(Packets) /\ Len(queue) <= QueueLimit
    BY DEF TypeOK
  <2>2. CASE Written
    <3>1. queue # <<>> /\ queue' = Tail(queue)
      BY <2>2 DEF Return, Control
    <3> QED BY <2>1, <3>1, HeadTail, QueueLimitAssumption
  <2>3. CASE ~Written
    BY <2>1, <2>3 DEF Return
  <2> QED BY <2>2, <2>3
<1>4. config_ok' \in BOOLEAN
  BY Zenon DEF Return
<1>5. pc' \in PCs /\ outcome' \in Outcomes /\ ret' \in Returns /\ seen' \in SeenType
  BY ConstantTypes DEF Return, PCs, Outcomes, Returns
<1>6. UNCHANGED <<cfg, stop, submitted, sent, rflog, verdict, restoreFailed,
                  alive, kind, radio, txresult, air, boundVars>>
  BY DEF Return
<1> QED BY <1>1, <1>2, <1>3, <1>4, <1>5, <1>6
       DEF TypeOK, UpType, FrameType, JobType, StatusType, LineType, SeenType

(* The switch to the transmit frequency. *)
LEMMA SwitchTypes ==
    ASSUME TypeOK, Switch
    PROVE  TypeOK'
<1> USE DEF daemonVars, linkVars, boundVars
<1>1. confUp' \in Seq(Commands)
  <2>1. confUp \in Seq(Commands) /\ "tx" \in Commands
    BY DEF TypeOK, Commands
  <2>2. confUp' = confUp \/ confUp' = Append(confUp, "tx")
    BY DEF Switch
  <2> QED BY <2>1, <2>2, AppendProperties
<1>2. faults' \in 0..MaxFaults
  <2>1. faults' = faults \/ WriteFails(conf)
    BY DEF Switch
  <2> QED BY <2>1, WriteFailsType DEF TypeOK
<1>3. pc' \in PCs /\ (ret' = ret \/ ret' = "CONF_SOCKET")
  BY DEF Switch, PCs
<1>4. UNCHANGED <<cfg, stop, queue, submitted, config_ok, status, seen, outcome, sent,
                  rflog, verdict, restoreFailed, daemonVars, conf, data, confDown,
                  dataUp, dataDown, received>>
  BY DEF Switch
<1> QED BY <1>1, <1>2, <1>3, <1>4 DEF TypeOK, Returns

(* The packet at the head is written, in part or not at all. *)
LEMMA WriteTypes ==
    ASSUME TypeOK, Control, Write
    PROVE  TypeOK'
<1> USE DEF daemonVars, linkVars, boundVars
<1>1. Head(queue) \in Packets
  BY HeadTail DEF TypeOK, Control, Write, Sending
<1>2. ASSUME NEW w \in BOOLEAN
      PROVE  Append(dataUp, [pkt |-> Head(queue), live |-> TRUE, whole |-> w]) \in Seq(UpType)
  <2>1. [pkt |-> Head(queue), live |-> TRUE, whole |-> w] \in UpType
    BY <1>1 DEF UpType
  <2>2. dataUp \in Seq(UpType)
    BY DEF TypeOK, UpType
  <2> QED BY <2>1, <2>2, AppendProperties
<1>3. dataUp' \in Seq(UpType)
  <2>1. dataUp \in Seq(UpType)
    BY DEF TypeOK, UpType
  <2> QED BY <1>2, <2>1, Zenon DEF Write
<1>4. sent' \in Seq(Packets)
  <2>1. sent \in Seq(Packets)
    BY DEF TypeOK
  <2>2. sent' = sent \/ sent' = Append(sent, Head(queue))
    BY DEF Write
  <2> QED BY <1>1, <2>1, <2>2, AppendProperties
<1>5. faults' \in 0..MaxFaults
  <2>1. faults' = faults \/ WriteFails(data)
    BY DEF Write
  <2> QED BY <2>1, WriteFailsType DEF TypeOK
<1>6. pc' \in PCs /\ (outcome' = outcome \/ outcome' = "write")
  BY DEF Write, PCs
<1>7. UNCHANGED <<cfg, stop, queue, submitted, config_ok, status, seen, ret, rflog,
                  verdict, restoreFailed, daemonVars, conf, data, confUp, confDown,
                  dataDown, received>>
  BY DEF Write
<1> QED BY <1>3, <1>4, <1>5, <1>6, <1>7 DEF TypeOK, UpType, Outcomes

(* The wait for a TX_RESULT. *)
LEMMA WaitTypes ==
    ASSUME TypeOK, Control, WaitRead \/ WaitLost
    PROVE  TypeOK'
<1> USE DEF daemonVars, linkVars, boundVars
<1>1. Head(queue) \in Packets /\ rflog \in [Packets -> LogLines] /\ verdict \subseteq Packets
  BY HeadTail DEF TypeOK, Control, WaitRead, WaitLost, Awaiting
<1>2. CASE WaitRead
  <2>1. dataDown' \in Seq(FrameType)
    <3>1. dataDown \in Seq(FrameType)
      BY DEF TypeOK, FrameType
    <3>2. PICK n \in 1..Len(dataDown) : dataDown' = SubSeq(dataDown, n + 1, Len(dataDown))
      BY <1>2 DEF WaitRead
    <3> QED BY <3>1, <3>2
  <2>2. rflog' \in [Packets -> LogLines]
    <3>1. rflog' = rflog \/ rflog' = [rflog EXCEPT ![Head(queue)] = "ok"]
      BY <1>2, Zenon DEF WaitRead
    <3> QED BY <1>1, <3>1 DEF LogLines
  <2>3. verdict' \subseteq Packets
    <3>1. verdict' = verdict \/ verdict' = verdict \union {Head(queue)}
      BY <1>2, Zenon DEF WaitRead
    <3> QED BY <1>1, <3>1
  <2>4. (pc' = pc \/ pc' = "restore1") /\ (outcome' = outcome \/ outcome' \in {"ok", "refused"})
    BY <1>2, Zenon DEF WaitRead
  <2>5. UNCHANGED <<cfg, stop, queue, submitted, config_ok, status, seen, ret, sent,
                    restoreFailed, daemonVars, conf, data, confUp, confDown, dataUp,
                    boundVars>>
    BY <1>2 DEF WaitRead
  <2> QED BY <2>1, <2>2, <2>3, <2>4, <2>5 DEF TypeOK, FrameType, PCs, Outcomes
<1>3. CASE WaitLost
  <2>1. rflog' \in [Packets -> LogLines]
    BY <1>1, <1>3 DEF WaitLost, LogLines
  <2> QED BY <1>3, <2>1 DEF TypeOK, WaitLost, PCs, Outcomes
<1> QED BY <1>2, <1>3

(* The wait for the TX= lines. *)
LEMMA ConfirmTypes ==
    ASSUME TypeOK, Control, ConfirmRead \/ ConfirmTimeout
    PROVE  TypeOK'
<1> USE DEF daemonVars, linkVars, boundVars
<1>1. Head(queue) \in Packets /\ rflog \in [Packets -> LogLines]
  BY HeadTail DEF TypeOK, Control, ConfirmRead, ConfirmTimeout, Awaiting
<1>2. ASSUME NEW b \in BOOLEAN, Confirmed(b)
      PROVE  rflog' \in [Packets -> LogLines] /\ pc' \in PCs /\ outcome' \in Outcomes
  BY <1>1, <1>2 DEF Confirmed, LogLines, PCs, Outcomes
<1>3. CASE ConfirmRead
  <2>1. status' \in StatusType /\ seen' \in SeenType /\ confDown' \in Seq(LineType)
    BY <1>3, ReadConfType DEF ConfirmRead
  <2>2. \/ Confirmed(FALSE) \/ Confirmed(TRUE)
        \/ (pc' = pc \/ pc' = "busy") /\ outcome' = outcome /\ rflog' = rflog
    BY <1>3, Zenon DEF ConfirmRead
  <2>3. rflog' \in [Packets -> LogLines] /\ pc' \in PCs /\ outcome' \in Outcomes
    BY <1>2, <2>2 DEF TypeOK, PCs
  <2>4. UNCHANGED <<cfg, stop, queue, submitted, config_ok, ret, sent, verdict,
                    restoreFailed, daemonVars, conf, data, confUp, dataUp, dataDown,
                    boundVars>>
    BY <1>3 DEF ConfirmRead
  <2> QED BY <2>1, <2>3, <2>4 DEF TypeOK, StatusType, SeenType, LineType
<1>4. CASE ConfirmTimeout
  <2>1. rflog' \in [Packets -> LogLines] /\ pc' \in PCs /\ outcome' \in Outcomes
    BY <1>2, <1>4 DEF ConfirmTimeout
  <2>2. UNCHANGED <<cfg, stop, queue, submitted, config_ok, status, seen, ret, sent,
                    verdict, restoreFailed, daemonVars, linkVars, boundVars>>
    BY <1>4 DEF ConfirmTimeout
  <2> QED BY <2>1, <2>2 DEF TypeOK
<1> QED BY <1>3, <1>4

(* Restoring the receive frequency. *)
LEMMA RestoreTypes ==
    ASSUME TypeOK, RestoreDone \/ RestoreFail \/ RestoreGiveUp
    PROVE  TypeOK'
<1> USE DEF daemonVars, linkVars, boundVars
<1>1. \A b \in BOOLEAN : ResultOf(b) \in Returns
  BY DEF ResultOf, Returns
<1>2. CASE RestoreDone
  <2>1. confUp' \in Seq(Commands)
    <3>1. confUp \in Seq(Commands) /\ "rx" \in Commands
      BY DEF TypeOK, Commands
    <3>2. confUp' = confUp \/ confUp' = Append(confUp, "rx")
      BY <1>2 DEF RestoreDone
    <3> QED BY <3>1, <3>2, AppendProperties
  <2>2. ret' \in Returns /\ pc' \in PCs
    BY <1>1, <1>2 DEF RestoreDone, PCs
  <2>3. UNCHANGED <<cfg, stop, queue, submitted, config_ok, status, seen, outcome, sent,
                    rflog, verdict, restoreFailed, daemonVars, conf, data, confDown,
                    dataUp, dataDown, boundVars>>
    BY <1>2 DEF RestoreDone
  <2> QED BY <2>1, <2>2, <2>3 DEF TypeOK
<1>3. CASE RestoreFail
  <2>1. faults' \in 0..MaxFaults
    BY <1>3, WriteFailsType DEF RestoreFail
  <2>2. restoreFailed' \in BOOLEAN /\ pc' \in PCs
    BY <1>3 DEF RestoreFail, PCs
  <2>4. ret' \in Returns
    <3>1. ret' = ret \/ ret' = ResultOf(FALSE)
      BY <1>3, Zenon DEF RestoreFail
    <3>2. ret \in Returns
      BY DEF TypeOK
    <3> QED BY <1>1, <3>1, <3>2
  <2>3. UNCHANGED <<cfg, stop, queue, submitted, config_ok, status, seen, outcome, sent,
                    rflog, verdict, daemonVars, linkVars, received>>
    BY <1>3 DEF RestoreFail
  <2> QED BY <2>1, <2>2, <2>3, <2>4 DEF TypeOK
<1>4. CASE RestoreGiveUp
  <2>1. ret' \in Returns /\ pc' \in PCs
    BY <1>1, <1>4 DEF RestoreGiveUp, PCs
  <2>2. UNCHANGED <<cfg, stop, queue, submitted, config_ok, status, seen, outcome, sent,
                    rflog, verdict, restoreFailed, daemonVars, linkVars, boundVars>>
    BY <1>4 DEF RestoreGiveUp
  <2> QED BY <2>1, <2>2 DEF TypeOK
<1> QED BY <1>2, <1>3, <1>4

(* The handlers of the select. *)
LEMMA SelectTypes ==
    ASSUME TypeOK, SelectReady
    PROVE  TypeOK'
<1> USE DEF daemonVars, linkVars, boundVars
<1>0. PICK c \in BOOLEAN, lost \in BOOLEAN :
         /\ HandleClient(c) /\ HandleConf /\ HandleData(lost)
         /\ config_ok' = (config_ok /\ conf # "dead" /\ ~lost)
  BY Zenon DEF SelectReady
<1>1. submitted' \in Nat /\ queue' \in Seq(Packets) /\ Len(queue') <= QueueLimit
  <2>1. submitted \in Nat /\ queue \in Seq(Packets) /\ Len(queue) <= QueueLimit
    BY DEF TypeOK
  <2>2. CASE c
    <3>1. /\ submitted + 1 \in Packets /\ submitted' = submitted + 1
          /\ queue' = IF Len(queue) < QueueLimit THEN Append(queue, submitted + 1) ELSE queue
      BY <1>0, <2>2 DEF HandleClient
    <3>2. Append(queue, submitted + 1) \in Seq(Packets) /\ Len(Append(queue, submitted + 1)) = Len(queue) + 1
      BY <2>1, <3>1, AppendProperties
    <3> QED BY <2>1, <3>1, <3>2, QueueLimitAssumption
  <2>3. CASE ~c
    BY <1>0, <2>1, <2>3 DEF HandleClient
  <2> QED BY <2>2, <2>3
<1>2. conf' \in Links /\ status' \in StatusType /\ confUp' \in Seq(Commands) /\ confDown' \in Seq(LineType)
  <2>1. \/ KeepConf \/ CloseConf
        \/ status' = ReadConf /\ confDown' = <<>> /\ UNCHANGED <<conf, confUp>>
    BY <1>0, Zenon DEF HandleConf
  <2>2. CASE KeepConf
    BY <2>2 DEF KeepConf, TypeOK, StatusType, LineType
  <2>3. CASE status' = ReadConf /\ confDown' = <<>> /\ UNCHANGED <<conf, confUp>>
    BY <2>3, ReadConfType DEF TypeOK
  <2> QED BY <2>1, <2>2, <2>3, CloseTypes, Zenon
<1>3. data' \in Links /\ dataUp' \in Seq(UpType) /\ dataDown' \in Seq(FrameType) /\ job' \in JobType
  <2>1. \/ KeepData \/ CloseData
        \/ /\ \E n \in 1..Len(dataDown) : dataDown' = SubSeq(dataDown, n + 1, Len(dataDown))
           /\ UNCHANGED <<data, dataUp, job>>
    BY <1>0, Zenon DEF HandleData
  <2>2. CASE KeepData
    BY <2>2 DEF KeepData, TypeOK, UpType, FrameType, JobType
  <2>3. CASE /\ \E n \in 1..Len(dataDown) : dataDown' = SubSeq(dataDown, n + 1, Len(dataDown))
             /\ UNCHANGED <<data, dataUp, job>>
    <3>1. dataDown \in Seq(FrameType) /\ data \in Links /\ dataUp \in Seq(UpType) /\ job \in JobType
      BY DEF TypeOK, UpType, FrameType, JobType
    <3>2. PICK n \in 1..Len(dataDown) : dataDown' = SubSeq(dataDown, n + 1, Len(dataDown))
      BY <2>3
    <3>3. dataDown' \in Seq(FrameType)
      BY <3>1, <3>2
    <3> QED BY <2>3, <3>1, <3>3
  <2> QED BY <2>1, <2>2, <2>3, CloseTypes, Zenon
<1>4. config_ok' \in BOOLEAN
  BY <1>0, Zenon
<1>5. /\ pc' \in PCs
      /\ UNCHANGED <<cfg, stop, seen, outcome, ret, sent, rflog, verdict, restoreFailed,
                     alive, kind, radio, txresult, air, boundVars>>
  BY DEF SelectReady, PCs
<1> QED BY <1>1, <1>2, <1>3, <1>4, <1>5
       DEF TypeOK, UpType, FrameType, JobType, StatusType, LineType

(* The timeout of the select. *)
LEMMA TimeoutTypes ==
    ASSUME TypeOK, Timeout
    PROVE  TypeOK'
<1> USE DEF daemonVars, linkVars, boundVars
<1>0. TypeOK /\ ReconnectOrConfigure
  BY DEF Timeout
<1>1. conf' \in Links /\ data' \in Links
  <2>1. conf' \in {conf, "up", "none"} /\ data' \in {data, "up"}
    BY <1>0 DEF ReconnectOrConfigure, SendInitialConfig
  <2> QED BY <1>0, <2>1 DEF TypeOK, Links
<1>2. /\ config_ok' \in BOOLEAN /\ status' \in StatusType
      /\ confUp' \in Seq(Commands) /\ faults' \in 0..MaxFaults
  <2>1. SendInitialConfig \/ UNCHANGED <<config_ok, status, confUp, faults>>
    BY <1>0 DEF ReconnectOrConfigure
  <2>2. CASE UNCHANGED <<config_ok, status, confUp, faults>>
    BY <2>2 DEF TypeOK, StatusType
  <2> QED BY <2>1, <2>2, SendInitialConfigType
<1>3. /\ pc' \in PCs
      /\ UNCHANGED <<cfg, stop, queue, submitted, seen, outcome, ret, sent, rflog, verdict,
                     restoreFailed, daemonVars, confDown, dataUp, dataDown, received>>
  BY DEF Timeout, PCs
<1> QED BY <1>1, <1>2, <1>3 DEF TypeOK, StatusType
(* The daemon transmits packets, and nothing else. *)
JobIsPacket == job = NoJob \/ job.pkt \in Packets

(* What the daemon does with its streams. *)
LEMMA DaemonTypes ==
    ASSUME TypeOK, JobIsPacket, DaemonStep
    PROVE  TypeOK'
<1> USE DEF daemonVars, linkVars, boundVars
<1>0. /\ confDown \in Seq(LineType) /\ dataDown \in Seq(FrameType) /\ job \in JobType
      /\ dataUp \in Seq(UpType) /\ confUp \in Seq(Commands) /\ faults \in 0..MaxFaults
      /\ received \in 0..MaxRx /\ air \subseteq (Packets \X Freqs) /\ radio \in Freqs
      /\ txresult \in BOOLEAN /\ conf \in Links /\ data \in Links /\ kind \in Kinds /\ alive \in BOOLEAN
  BY DEF TypeOK, LineType, FrameType, JobType, UpType
<1>b. UNCHANGED bridgeVars
  BY DEF DaemonStep
<1>a. SUFFICES /\ confDown' \in Seq(LineType) /\ dataDown' \in Seq(FrameType) /\ job' \in JobType
               /\ dataUp' \in Seq(UpType) /\ confUp' \in Seq(Commands) /\ faults' \in 0..MaxFaults
               /\ received' \in 0..MaxRx /\ air' \subseteq (Packets \X Freqs) /\ radio' \in Freqs
               /\ txresult' \in BOOLEAN /\ conf' \in Links /\ data' \in Links /\ kind' \in Kinds /\ alive' \in BOOLEAN
  BY <1>b DEF TypeOK, LineType, FrameType, JobType, UpType, bridgeVars
<1>c. \A l \in LineType : ToConf(l) \in Seq(LineType)
  BY ToTypes
<1>d. \A b \in BOOLEAN, f \in FrameType : ToData(b, f) \in Seq(FrameType)
  BY ToTypes
<1>e. ASSUME dataUp # <<>>
      PROVE  /\ Head(dataUp).pkt \in Packets /\ Head(dataUp).live \in BOOLEAN
             /\ Tail(dataUp) \in Seq(UpType)
  <2>1. Head(dataUp) \in UpType /\ Tail(dataUp) \in Seq(UpType)
    BY <1>0, <1>e, HeadTail
  <2> QED BY <2>1 DEF UpType
<1>f. ASSUME job # NoJob
      PROVE  <<job.pkt, job.freq>> \in Packets \X Freqs /\ job.live \in BOOLEAN
  BY <1>0, <1>f DEF JobIsPacket, JobType
<1>1. CASE DaemonConf
  <2>1. Head(confUp) \in Commands /\ Tail(confUp) \in Seq(Commands)
    BY <1>0, <1>1, HeadTail DEF DaemonConf
  <2>2. radio' \in Freqs
    BY <1>0, <1>1 DEF DaemonConf, Freqs
  <2>3. job' \in JobType
    <3>1. [job EXCEPT !.freq = "none"] \in JobType
      BY <1>0 DEF JobType, Freqs
    <3> QED BY <1>0, <1>1, <3>1, Zenon DEF DaemonConf
  <2>4. txresult' \in BOOLEAN
    BY <1>1, Zenon DEF DaemonConf
  <2>5. confDown' \in Seq(LineType)
    <3> DEFINE r == IF kind = "110" THEN "absent" ELSE IF txresult THEN "on" ELSE "off"
               b == job # NoJob
    <3>1. r \in Flags /\ b \in BOOLEAN
      BY DEF Flags
    <3>2. confDown' = IF Head(confUp) = "status" THEN ToConf(StatusLine(b, r)) ELSE confDown
      BY <1>1 DEF DaemonConf
    <3> HIDE DEF r, b
    <3>3. StatusLine(b, r) \in LineType
      BY <3>1, ConstantTypes
    <3> QED BY <1>0, <1>c, <3>2, <3>3, Zenon
  <2>6. confUp' \in Seq(Commands)
    BY <1>1, <2>1 DEF DaemonConf
  <2>7. UNCHANGED <<alive, kind, air, conf, data, dataUp, dataDown, boundVars>>
    BY <1>1 DEF DaemonConf
  <2> QED BY <1>0, <2>2, <2>3, <2>4, <2>5, <2>6, <2>7
<1>2. CASE DaemonStart
  <2>1. job' \in JobType
    <3>1. job' = [pkt |-> Head(dataUp).pkt, live |-> Head(dataUp).live, freq |-> radio] /\ dataUp # <<>>
      BY <1>2 DEF DaemonStart
    <3> QED BY <1>0, <1>e, <3>1 DEF JobType
  <2>2. confDown' \in Seq(LineType)
    BY <1>2, <1>c, ConstantTypes, Zenon DEF DaemonStart
  <2>3. dataUp' \in Seq(UpType)
    BY <1>2, <1>e DEF DaemonStart
  <2>4. UNCHANGED <<alive, kind, radio, txresult, air, conf, data, confUp, dataDown, boundVars>>
    BY <1>2 DEF DaemonStart
  <2> QED BY <1>0, <2>1, <2>2, <2>3, <2>4
<1>3. CASE DaemonRefuse
  <2>1. dataDown' \in Seq(FrameType)
    <3> DEFINE p == Head(dataUp)
               r == IF txresult THEN ResultFrame(p.pkt, FALSE) ELSE ErrorFrame(p.pkt)
    <3>1. r \in FrameType
      BY <1>3, <1>e, ConstantTypes, Zenon DEF DaemonRefuse
    <3>2. dataDown' = ToData(p.live, r) /\ p.live \in BOOLEAN
      BY <1>3, <1>e DEF DaemonRefuse
    <3> HIDE DEF p, r
    <3> QED BY <1>d, <3>1, <3>2, Zenon
  <2>2. dataUp' \in Seq(UpType)
    BY <1>3, <1>e DEF DaemonRefuse
  <2>3. UNCHANGED <<daemonVars, conf, data, confUp, confDown, boundVars>>
    BY <1>3 DEF DaemonRefuse
  <2> QED BY <1>0, <2>1, <2>2, <2>3
<1>4. CASE DaemonDone
  <2>1. job # NoJob /\ air' = air \union {<<job.pkt, job.freq>>}
    BY <1>4 DEF DaemonDone
  <2>2. air' \subseteq (Packets \X Freqs)
    BY <1>0, <1>f, <2>1
  <2>3. dataDown' \in Seq(FrameType)
    <3>1. ResultFrame(job.pkt, TRUE) \in FrameType
      BY <1>0 DEF ResultFrame, FrameType, JobType
    <3> QED BY <1>0, <1>4, <1>d, <1>f, <2>1, <3>1, Zenon DEF DaemonDone
  <2>4. confDown' \in Seq(LineType) /\ job' \in JobType
    BY <1>4, <1>c, ConstantTypes, Zenon DEF DaemonDone
  <2>5. UNCHANGED <<alive, kind, radio, txresult, conf, data, confUp, dataUp, boundVars>>
    BY <1>4 DEF DaemonDone
  <2> QED BY <1>0, <2>2, <2>3, <2>4, <2>5
<1>5. CASE DaemonReceive
  <2>1. dataDown' \in Seq(FrameType)
    BY <1>0, <1>5, ConstantTypes, AppendProperties DEF DaemonReceive
  <2>2. received' \in 0..MaxRx
    BY <1>0, <1>5, BoundsAssumption DEF DaemonReceive
  <2>3. UNCHANGED <<daemonVars, conf, data, confUp, confDown, dataUp, faults>>
    BY <1>5 DEF DaemonReceive
  <2> QED BY <1>0, <2>1, <2>2, <2>3
<1>g. <<>> \in Seq(Commands) /\ <<>> \in Seq(UpType) /\ "dead" \in Links /\ "none" \in Freqs
  BY DEF Links, Freqs
<1>6. CASE DaemonClosesConf
  <2>1. faults' \in 0..MaxFaults
    BY <1>0, <1>6, BoundsAssumption DEF DaemonClosesConf
  <2>2. /\ conf' = "dead" /\ confUp' = <<>>
        /\ UNCHANGED <<daemonVars, data, confDown, dataUp, dataDown, received>>
    BY <1>6 DEF DaemonClosesConf
  <2> QED BY <1>0, <1>g, <2>1, <2>2
<1>7. CASE DaemonClosesData
  <2>1. faults' \in 0..MaxFaults
    BY <1>0, <1>7, BoundsAssumption DEF DaemonClosesData
  <2>2. dataUp' \in Seq(UpType)
    <3>1. PICK k \in 0..Len(dataUp) : dataUp' = SubSeq(dataUp, 1, k)
      BY <1>7 DEF DaemonClosesData
    <3>2. Len(dataUp) \in Nat
      BY <1>0
    <3> QED BY <1>0, <3>1, <3>2
  <2>3. job' \in JobType
    BY <1>0, <1>7 DEF DaemonClosesData, JobType
  <2>4. /\ data' = "dead"
        /\ UNCHANGED <<alive, kind, radio, txresult, air, conf, confUp, confDown, dataDown, received>>
    BY <1>7 DEF DaemonClosesData
  <2> QED BY <1>0, <1>g, <2>1, <2>2, <2>3, <2>4
<1>8. CASE DaemonCrash
  <2>1. faults' \in 0..MaxFaults
    BY <1>0, <1>8, BoundsAssumption DEF DaemonCrash
  <2>2. air' \subseteq (Packets \X Freqs)
    BY <1>0, <1>8, <1>f DEF DaemonCrash
  <2>3. conf' \in Links /\ data' \in Links
    BY <1>0, <1>8, <1>g DEF DaemonCrash
  <2>4. /\ alive' = FALSE /\ radio' = "none" /\ txresult' = FALSE /\ job' = NoJob
        /\ confUp' = <<>> /\ dataUp' = <<>> /\ UNCHANGED <<kind, confDown, dataDown, received>>
    BY <1>8 DEF DaemonCrash
  <2> QED BY <1>0, <1>g, <2>1, <2>2, <2>3, <2>4, ConstantTypes
<1>9. CASE DaemonBoot
  BY <1>0, <1>9 DEF DaemonBoot
<1> QED BY <1>1, <1>2, <1>3, <1>4, <1>5, <1>6, <1>7, <1>8, <1>9 DEF DaemonStep

(* Every step of the bridge keeps the account of the transmission. *)
LEMMA ControlStep ==
    ASSUME TypeOK, Control, [Next]_vars
    PROVE  Control'
<1> USE DEF Sending, Awaiting, Ending, Written
<1>0. queue \in Seq(Packets) /\ pc \in PCs /\ outcome \in Outcomes
  BY DEF TypeOK
<1>1. CASE Start \/ StartConfig \/ StartData \/ Loop \/ DrainEmpty
  BY <1>1 DEF Start, StartConfig, StartData, Loop, DrainEmpty, Control
<1>2. CASE DrainBlocked \/ DrainDisabled \/ DrainDrop \/ DrainWait \/ DrainSend
  <2>1. /\ pc = "drain" /\ queue # <<>> /\ outcome' = outcome
        /\ \/ pc' \in {"select", "return", "switch"} /\ queue' = queue
           \/ pc' = "drain"
    BY <1>2 DEF DrainBlocked, DrainDisabled, DrainDrop, DrainWait, DrainSend, DrainReads
  <2> QED BY <2>1 DEF Control
<1>3. CASE Return
  <2>1. pc' = "select" /\ outcome' = "none"
    BY <1>3 DEF Return
  <2> QED BY <2>1 DEF Control
<1>4. CASE SendNoFreq \/ Switch \/ Settle
  BY <1>4 DEF SendNoFreq, Switch, Settle, Control
<1>5. CASE Write
  <2>1. /\ pc = "write" /\ queue' = queue
        /\ \/ pc' \in Awaiting /\ outcome' = outcome
           \/ pc' = "restore1" /\ outcome' = "write"
    BY <1>5 DEF Write
  <2> QED BY <2>1 DEF Control
<1>6. CASE WaitRead \/ WaitLost
  <2>1. /\ pc = "wait" /\ queue' = queue
        /\ \/ pc' = pc /\ outcome' = outcome
           \/ pc' = "restore1" /\ outcome' \in {"ok", "refused", "lost"}
    BY <1>6, Zenon DEF WaitRead, WaitLost
  <2> QED BY <2>1 DEF Control
<1>7. CASE ConfirmRead \/ ConfirmTimeout
  <2>1. /\ pc \in {"seek", "busy"} /\ queue' = queue
        /\ \/ pc' \in {pc, "busy"} /\ outcome' = outcome
           \/ pc' = "restore1" /\ outcome' \in {"ok", "unconfirmed"}
    BY <1>7 DEF ConfirmRead, ConfirmTimeout, Confirmed
  <2> QED BY <2>1 DEF Control
<1>8. CASE RestoreDone \/ RestoreFail \/ RestoreGiveUp
  <2>1. /\ pc \in Ending /\ queue' = queue /\ outcome' = outcome
        /\ \/ pc' = "restore2"
           \/ pc' = "return" /\ \E b \in BOOLEAN : ret' = ResultOf(b)
    BY <1>8, Zenon DEF RestoreDone, RestoreFail, RestoreGiveUp
  <2>2. \A b \in BOOLEAN : /\ outcome = "write" => ResultOf(b) = "TX_SOCKET"
                           /\ outcome = "lost" => ResultOf(b) = "TX_RESULT"
    BY DEF ResultOf
  <2> QED BY <2>1, <2>2 DEF Control
<1>9. CASE SelectReady \/ SelectInterrupted \/ SelectTimeout \/ Timeout
  <2>1. pc \in {"select", "timeout"} /\ pc' \in {"loop", "timeout"} /\ outcome' = outcome
    BY <1>9 DEF SelectReady, SelectInterrupted, SelectTimeout, Timeout
  <2> QED BY <2>1 DEF Control
<1>10. CASE Signal \/ DaemonStep \/ UNCHANGED vars
  <2>1. UNCHANGED <<pc, queue, outcome, ret>>
    BY <1>10 DEF Signal, DaemonStep, vars, bridgeVars
  <2> QED BY <2>1 DEF Control
<1> QED BY <1>1, <1>2, <1>3, <1>4, <1>5, <1>6, <1>7, <1>8, <1>9, <1>10
       DEF Next, BridgeStep, Transmit

(* To end the connection of a job changes its live flag only. *)
LEMMA EndOfJob ==
    ASSUME NEW j \in JobType, NEW b \in BOOLEAN
    PROVE  /\ [j EXCEPT !.live = b].pkt = j.pkt
           /\ [j EXCEPT !.live = b].live = b
           /\ j.live = b => [j EXCEPT !.live = b] = j
BY DEF JobType

LEMMA NoJobStays == [NoJob EXCEPT !.live = FALSE] = NoJob
<1>1. NoJob \in JobType /\ NoJob.live = FALSE
  BY ConstantTypes DEF NoJob
<1> QED BY <1>1, EndOfJob, Zenon

(* What the steps do to the job of the daemon. *)
LEMMA JobStep ==
    ASSUME TypeOK, JobIsPacket, [Next]_vars
    PROVE  JobIsPacket'
<1>0. job \in JobType /\ dataUp \in Seq(UpType)
  BY DEF TypeOK, JobType, UpType
<1>1. \/ job' = job \/ job' = NoJob
      \/ job' = [job EXCEPT !.live = FALSE]
      \/ job # NoJob /\ job' = [job EXCEPT !.freq = "none"]
      \/ DaemonStart
  <2>1. CASE BridgeStep
    <3>1. CASE Return
      BY <3>1, Zenon DEF Return, CloseData, KeepData
    <3>2. CASE SelectReady
      BY <3>2, Zenon DEF SelectReady, HandleData, CloseData, KeepData
    <3>3. CASE ~Return /\ ~SelectReady
      <4> USE DEF daemonVars, linkVars
      <4> QED BY <2>1, <3>3 DEF BridgeStep, Transmit, Start, StartConfig, StartData, Loop, DrainReads,
              DrainEmpty, DrainBlocked, DrainDisabled, DrainDrop, DrainWait, DrainSend,
              SendNoFreq, Switch, Settle, Write, WaitRead, WaitLost, ConfirmRead, ConfirmTimeout,
              RestoreDone, RestoreFail, RestoreGiveUp, SelectInterrupted, SelectTimeout, Timeout
    <3> QED BY <3>1, <3>2, <3>3
  <2>2. CASE DaemonStep
    BY <2>2, Zenon DEF DaemonStep, DaemonConf, DaemonRefuse, DaemonDone, DaemonReceive,
       DaemonClosesConf, DaemonClosesData, DaemonCrash, DaemonBoot, daemonVars
  <2>3. CASE Signal \/ UNCHANGED vars
    BY <2>3 DEF Signal, vars, daemonVars
  <2> QED BY <2>1, <2>2, <2>3 DEF Next
<1>2. CASE job' = [job EXCEPT !.live = FALSE]
  <2>1. CASE job = NoJob
    BY <1>2, <2>1, NoJobStays DEF JobIsPacket
  <2>2. CASE job.pkt \in Packets
    <3>1. job'.pkt = job.pkt
      BY <1>0, <1>2 DEF JobType
    <3> QED BY <2>2, <3>1 DEF JobIsPacket
  <2> QED BY <2>1, <2>2 DEF JobIsPacket
<1>3. CASE job # NoJob /\ job' = [job EXCEPT !.freq = "none"]
  BY <1>0, <1>3 DEF JobIsPacket, NoJob, JobType
<1>4. CASE DaemonStart
  <2>1. Head(dataUp) \in UpType
    BY <1>0, <1>4, HeadTail DEF DaemonStart
  <2> QED BY <1>4, <2>1 DEF DaemonStart, JobIsPacket, UpType
<1> QED BY <1>1, <1>2, <1>3, <1>4 DEF JobIsPacket

(* The account that type correctness rests on. *)
BaseInv == TypeOK /\ Control /\ JobIsPacket

LEMMA InitBase == Init => BaseInv
<1> SUFFICES ASSUME Init PROVE BaseInv
  OBVIOUS
<1>1. /\ queue = <<>> /\ sent = <<>> /\ confUp = <<>> /\ confDown = <<>> /\ dataUp = <<>>
      /\ dataDown = <<>> /\ faults = 0 /\ received = 0 /\ air = {} /\ verdict = {}
      /\ status = NoStatus /\ seen = NotSeen /\ job = NoJob
  BY DEF Init, DaemonInit
<1>2. rflog \in [Packets -> LogLines]
  BY DEF Init, LogLines
<1>3. TypeOK
  <2>1. /\ queue \in Seq(Packets) /\ Len(queue) <= QueueLimit /\ sent \in Seq(Packets)
        /\ confUp \in Seq(Commands) /\ confDown \in Seq(LineType)
        /\ dataUp \in Seq(UpType) /\ dataDown \in Seq(FrameType)
    BY <1>1, QueueLimitAssumption
  <2>2. faults \in 0..MaxFaults /\ received \in 0..MaxRx
    BY <1>1, BoundsAssumption
  <2>3. status \in StatusType /\ seen \in SeenType /\ job \in JobType
    BY <1>1, ConstantTypes
  <2> QED BY <1>1, <1>2, <2>1, <2>2, <2>3
         DEF Init, DaemonInit, TypeOK, PCs, Outcomes, Returns, Links, Freqs,
             UpType, FrameType, JobType, StatusType, SeenType, LineType
<1>4. Control
  BY DEF Init, Control, Sending, Awaiting, Ending
<1> QED BY <1>1, <1>3, <1>4 DEF BaseInv, JobIsPacket

LEMMA StepBase == BaseInv /\ [Next]_vars => BaseInv'
<1> SUFFICES ASSUME BaseInv, [Next]_vars PROVE BaseInv'
  OBVIOUS
<1>1. TypeOK /\ Control /\ JobIsPacket
  BY DEF BaseInv
<1>2. TypeOK'
  <2>1. CASE UNCHANGED vars
    BY <1>1, <2>1 DEF TypeOK, vars, bridgeVars, daemonVars, linkVars, boundVars
  <2>2. CASE Next
    BY <1>1, <2>2, ControlTypes, StartTypes, DrainTypes, ReturnTypes, SwitchTypes, WriteTypes,
       WaitTypes, ConfirmTypes, RestoreTypes, SelectTypes, TimeoutTypes, DaemonTypes
       DEF Next, BridgeStep, Transmit
  <2> QED BY <2>1, <2>2
<1> QED BY <1>1, <1>2, ControlStep, JobStep DEF BaseInv

LEMMA BaseInvariant == Spec => []BaseInv
<1> QED BY InitBase, StepBase, PTL DEF Spec

(* Every variable of the bridge and of its daemon keeps its type: in       *)
(* particular the queue never outgrows bridge_tx_queue_limit, and the head *)
(* of the queue is never looked at or dropped when there is none.          *)
THEOREM TypeCorrect == Spec => []TypeOK
<1>1. BaseInv => TypeOK
  BY DEF BaseInv
<1> QED BY <1>1, BaseInvariant, PTL

-----------------------------------------------------------------------------
(* The order of transmission *)

(* The queue is in the order of submission, and everything in it, but for  *)
(* the packet in flight, comes after everything written so far.            *)
QueueOrder ==
    /\ \A i, j \in 1..Len(queue) : i < j => queue[i] < queue[j]
    /\ \A i \in 1..Len(queue) : queue[i] <= submitted
    /\ \A i \in 1..Len(sent) : sent[i] <= submitted
    /\ \A i, j \in 1..Len(sent) : i < j => sent[i] < sent[j]
    /\ \A i \in 1..Len(sent) : \A j \in 1..Len(queue) :
          j > 1 \/ ~InFlight => sent[i] < queue[j]

(* A step that neither queues nor writes, and does not forget a packet in  *)
(* flight, keeps the order.                                                *)
LEMMA OrderKept ==
    ASSUME QueueOrder, UNCHANGED <<queue, submitted, sent>>, InFlight => InFlight'
    PROVE  QueueOrder'
<1>1. queue' = queue /\ submitted' = submitted /\ sent' = sent
  OBVIOUS
<1> HIDE DEF InFlight
<1> QED BY <1>1 DEF QueueOrder

(* What a step that takes the head off the queue does to the order. *)
LEMMA OrderTail ==
    ASSUME TypeOK, QueueOrder, queue # <<>>, queue' = Tail(queue),
           UNCHANGED <<submitted, sent>>, ~InFlight'
    PROVE  QueueOrder'
<1>1. queue \in Seq(Packets)
  BY DEF TypeOK
<1>2. /\ Len(queue) \in Nat /\ Len(queue') = Len(queue) - 1
      /\ \A i \in 1..(Len(queue) - 1) : queue'[i] = queue[i + 1]
  BY <1>1, HeadTail
<1>3. submitted' = submitted /\ sent' = sent
  OBVIOUS
<1> QED BY <1>2, <1>3 DEF QueueOrder

(* The packets of a sequence are numbers. *)
LEMMA NaturalElements ==
    ASSUME NEW s \in Seq(Packets)
    PROVE  \A i \in 1..Len(s) : s[i] \in Nat
<1>1. \A i \in 1..Len(s) : s[i] \in Packets
  BY ElementOfSeq
<1> QED BY <1>1, PacketsAssumption

(* A packet is taken from the client. *)
LEMMA OrderPush ==
    ASSUME TypeOK, QueueOrder, queue' = Append(queue, submitted + 1) \/ queue' = queue,
           submitted' = submitted + 1, sent' = sent, ~InFlight
    PROVE  QueueOrder'
<1>1. queue \in Seq(Packets) /\ sent \in Seq(Packets) /\ submitted \in Nat /\ Packets \subseteq Nat
  BY PacketsAssumption DEF TypeOK
<1>2. /\ \A i \in 1..Len(queue) : queue[i] \in Nat
      /\ \A i \in 1..Len(sent) : sent[i] \in Nat
  BY <1>1, NaturalElements
<1>3. CASE queue' = queue
  BY <1>1, <1>2, <1>3 DEF QueueOrder
<1>4. CASE queue' = Append(queue, submitted + 1)
  <2>1. /\ Len(queue') = Len(queue) + 1 /\ Len(queue) \in Nat
        /\ \A i \in 1..Len(queue) : queue'[i] = queue[i]
        /\ queue'[Len(queue) + 1] = submitted + 1
    BY <1>1, <1>4
  <2>2. ASSUME NEW i \in 1..Len(queue'), NEW j \in 1..Len(queue'), i < j
        PROVE  queue'[i] < queue'[j]
    <3>1. i \in 1..Len(queue) /\ queue'[i] = queue[i] /\ queue[i] \in Nat
      BY <1>2, <2>1, <2>2
    <3>2. CASE j = Len(queue) + 1
      BY <1>1, <2>1, <3>1, <3>2 DEF QueueOrder
    <3>3. CASE j # Len(queue) + 1
      <4>1. j \in 1..Len(queue) /\ queue'[j] = queue[j]
        BY <2>1, <3>3
      <4> QED BY <2>2, <3>1, <4>1 DEF QueueOrder
    <3> QED BY <3>2, <3>3
  <2>3. \A i \in 1..Len(queue') : queue'[i] <= submitted'
    BY <1>1, <1>2, <2>1, SMTT(30) DEF QueueOrder
  <2>4. \A i \in 1..Len(sent) : sent[i] <= submitted'
    BY <1>1, <1>2 DEF QueueOrder
  <2>5. \A i \in 1..Len(sent) : \A j \in 1..Len(queue') : sent[i] < queue'[j]
    BY <1>1, <1>2, <2>1 DEF QueueOrder
  <2> QED BY <2>2, <2>3, <2>4, <2>5 DEF QueueOrder
<1> QED BY <1>3, <1>4

(* The head of the queue is written. *)
LEMMA OrderWrite ==
    ASSUME TypeOK, QueueOrder, queue # <<>>, sent' = Append(sent, Head(queue)),
           UNCHANGED <<queue, submitted>>, ~InFlight, InFlight'
    PROVE  QueueOrder'
<1>1. queue \in Seq(Packets) /\ sent \in Seq(Packets) /\ submitted \in Nat /\ Packets \subseteq Nat
  BY PacketsAssumption DEF TypeOK
<1>2. /\ \A i \in 1..Len(queue) : queue[i] \in Nat
      /\ \A i \in 1..Len(sent) : sent[i] \in Nat
  BY <1>1, NaturalElements
<1>3. Len(queue) \in Nat /\ Len(queue) > 0 /\ Head(queue) = queue[1] /\ Head(queue) \in Packets
  BY <1>1, HeadTail
<1>4. /\ Len(sent') = Len(sent) + 1 /\ Len(sent) \in Nat
      /\ \A i \in 1..Len(sent) : sent'[i] = sent[i]
      /\ sent'[Len(sent) + 1] = queue[1]
  BY <1>1, <1>3
<1>5. queue' = queue /\ submitted' = submitted
  OBVIOUS
<1> HIDE DEF InFlight
<1> QED BY <1>1, <1>2, <1>3, <1>4, <1>5 DEF QueueOrder

LEMMA StepOrder ==
    ASSUME BaseInv, QueueOrder, [Next]_vars
    PROVE  QueueOrder'
<1> USE DEF Awaiting, Ending, Written
<1>0. TypeOK /\ Control
  BY DEF BaseInv
<1>1. CASE SelectReady
  <2>1. /\ ~InFlight /\ ~InFlight' /\ sent' = sent
        /\ \E c \in BOOLEAN : HandleClient(c)
    BY <1>1 DEF SelectReady, InFlight
  <2>2. \/ /\ submitted' = submitted + 1
           /\ queue' = Append(queue, submitted + 1) \/ queue' = queue
        \/ UNCHANGED <<submitted, queue>>
    BY <2>1 DEF HandleClient
  <2> QED BY <1>0, <2>1, <2>2, OrderPush, OrderKept
<1>2. CASE DrainDrop
  <2>1. queue # <<>> /\ queue' = Tail(queue) /\ UNCHANGED <<submitted, sent>> /\ ~InFlight'
    BY <1>2 DEF DrainDrop, DrainReads, InFlight
  <2> QED BY <1>0, <2>1, OrderTail
<1>3. CASE Return
  <2>1. UNCHANGED <<submitted, sent>> /\ ~InFlight' /\ pc = "return"
    BY <1>3 DEF Return, InFlight
  <2>2. CASE Written
    <3>1. queue # <<>> /\ queue' = Tail(queue)
      BY <1>0, <1>3, <2>2 DEF Return, Control
    <3> QED BY <1>0, <2>1, <3>1, OrderTail
  <2>3. CASE ~Written
    <3>1. UNCHANGED queue /\ ~InFlight
      BY <1>3, <2>3 DEF Return, InFlight
    <3> QED BY <2>1, <3>1, OrderKept
  <2> QED BY <2>2, <2>3
<1>4. CASE Write
  <2>1. /\ pc = "write" /\ queue # <<>> /\ ~InFlight /\ UNCHANGED <<queue, submitted>>
        /\ \/ sent' = Append(sent, Head(queue)) /\ pc' \in Awaiting
           \/ UNCHANGED sent
    BY <1>0, <1>4 DEF Write, InFlight, Control, Sending
  <2>2. CASE sent' = Append(sent, Head(queue)) /\ pc' \in Awaiting
    <3>1. InFlight'
      BY <2>2 DEF InFlight
    <3> QED BY <1>0, <2>1, <2>2, <3>1, OrderWrite
  <2> QED BY <2>1, <2>2, OrderKept
<1>5. CASE Start \/ StartConfig \/ StartData \/ Loop \/ DrainEmpty \/ SelectInterrupted
           \/ SelectTimeout \/ Timeout \/ SendNoFreq \/ Switch \/ Settle
  <2>1. UNCHANGED <<queue, submitted, sent>> /\ pc \notin Awaiting \union Ending \union {"return"}
    BY <1>5 DEF Start, StartConfig, StartData, Loop, DrainEmpty, SelectInterrupted, SelectTimeout,
       Timeout, SendNoFreq, Switch, Settle
  <2> QED BY <2>1, OrderKept DEF InFlight
<1>6. CASE DrainBlocked \/ DrainDisabled \/ DrainWait \/ DrainSend
  <2>1. UNCHANGED <<queue, submitted, sent>> /\ pc = "drain"
    BY <1>6 DEF DrainBlocked, DrainDisabled, DrainWait, DrainSend, DrainReads
  <2> QED BY <2>1, OrderKept DEF InFlight
<1>7. CASE WaitRead \/ WaitLost \/ ConfirmRead \/ ConfirmTimeout
  <2>1. UNCHANGED <<queue, submitted, sent>>
    BY <1>7 DEF WaitRead, WaitLost, ConfirmRead, ConfirmTimeout
  <2>2. /\ pc \in Awaiting
        /\ \/ pc' \in Awaiting
           \/ pc' = "restore1" /\ outcome' \in {"ok", "refused", "lost", "unconfirmed"}
    BY <1>7 DEF WaitRead, WaitLost, ConfirmRead, ConfirmTimeout, Confirmed
  <2> QED BY <2>1, <2>2, OrderKept DEF InFlight
<1>8. CASE RestoreDone \/ RestoreFail \/ RestoreGiveUp
  <2>1. /\ UNCHANGED <<queue, submitted, sent, outcome>> /\ pc \in Ending
        /\ pc' \in Ending \union {"return"}
    BY <1>8 DEF RestoreDone, RestoreFail, RestoreGiveUp
  <2> QED BY <2>1, OrderKept DEF InFlight
<1>9. CASE Signal \/ DaemonStep \/ UNCHANGED vars
  <2>1. UNCHANGED <<pc, outcome, queue, submitted, sent>>
    BY <1>9 DEF Signal, DaemonStep, vars, bridgeVars
  <2> QED BY <2>1, OrderKept DEF InFlight
<1> QED BY <1>1, <1>2, <1>3, <1>4, <1>5, <1>6, <1>7, <1>8, <1>9 DEF Next, BridgeStep, Transmit

LEMMA OrderInvariant == Spec => []QueueOrder
<1>1. Init => QueueOrder
  BY DEF Init, QueueOrder
<1>2. BaseInv /\ QueueOrder /\ [Next]_vars => QueueOrder'
  BY StepOrder
<1> QED BY <1>1, <1>2, BaseInvariant, PTL DEF Spec

(* A packet is written to the DATA socket at most once and packets are     *)
(* written in the order of submission, whatever is lost, restored,         *)
(* reconnected or retried: the head of the queue is written only while it  *)
(* comes after everything written before, and it leaves the queue with     *)
(* packet_written, not with success.                                       *)
THEOREM OnceInOrder == Spec => []SentOnceInOrder
<1>1. BaseInv /\ QueueOrder => SentOnceInOrder
  <2>1. BaseInv => DOMAIN sent = 1..Len(sent)
    BY DEF BaseInv, TypeOK
  <2> QED BY <2>1 DEF QueueOrder, SentOnceInOrder
<1> QED BY <1>1, BaseInvariant, OrderInvariant, PTL

(* A step that neither takes a packet nor writes one, nor begins or ends   *)
(* the flight of one, is none of the FIFO.                                 *)
LEMMA FifoKept ==
    ASSUME UNCHANGED <<queue, sent>>, InFlight <=> InFlight'
    PROVE  UNCHANGED <<Unsent, LastSent>>
<1> HIDE DEF InFlight
<1> QED BY DEF Unsent, LastSent

(* What was written last is a number, not above what was submitted, and    *)
(* below everything that waits.                                            *)
LEMMA LastSentFacts ==
    ASSUME TypeOK, QueueOrder
    PROVE  /\ LastSent \in Nat /\ LastSent <= submitted
           /\ ~InFlight => \A j \in 1..Len(queue) : LastSent < queue[j]
<1>1. queue \in Seq(Packets) /\ sent \in Seq(Packets) /\ submitted \in Nat
  BY DEF TypeOK
<1>2. \A i \in 1..Len(sent) : sent[i] \in Nat
  BY <1>1, NaturalElements
<1>3. CASE sent = <<>>
  <2>1. LastSent = 0
    BY <1>3 DEF LastSent
  <2>2. \A j \in 1..Len(queue) : queue[j] \in Nat /\ queue[j] > 0
    <3>1. \A j \in 1..Len(queue) : queue[j] \in Packets
      BY <1>1, ElementOfSeq
    <3>2. \A p \in Packets : p \in Nat /\ p > 0
      BY ONLY PacketsAssumption
    <3> QED BY ONLY <3>1, <3>2
  <2> QED BY <1>1, <2>1, <2>2
<1>4. CASE sent # <<>>
  <2>1. Len(sent) \in 1..Len(sent)
    BY <1>1, <1>4, HeadTail
  <2>2. LastSent = sent[Len(sent)]
    BY <1>4 DEF LastSent
  <2> HIDE DEF LastSent, InFlight
  <2> QED BY <1>2, <2>1, <2>2 DEF QueueOrder
<1> QED BY <1>3, <1>4

(* Every step of the bridge and of the daemon is a step of the FIFO or     *)
(* leaves it as it is.                                                     *)
LEMMA StepFifo ==
    ASSUME BaseInv, QueueOrder, [Next]_vars
    PROVE  [Outgoing!Next]_<<Unsent, LastSent>>
<1> USE DEF Awaiting, Ending, Written
<1>0. TypeOK /\ Control /\ queue \in Seq(Packets) /\ sent \in Seq(Packets) /\ submitted \in Nat
  BY DEF BaseInv, TypeOK
<1>a. /\ LastSent \in Nat /\ LastSent <= submitted
      /\ ~InFlight => \A j \in 1..Len(queue) : LastSent < queue[j]
  BY <1>0, LastSentFacts
<1>1. CASE SelectReady
  <2>1. /\ ~InFlight /\ ~InFlight' /\ sent' = sent
        /\ \E c \in BOOLEAN : HandleClient(c)
    BY <1>1 DEF SelectReady, InFlight
  <2>2. CASE UNCHANGED queue
    BY <2>1, <2>2, FifoKept
  <2>3. CASE ~UNCHANGED queue
    <3> DEFINE p == submitted + 1
    <3>1. p \in Packets /\ queue' = Append(queue, p) /\ Len(queue) < QueueLimit
      BY <2>1, <2>3 DEF HandleClient
    <3>2. Unsent = queue /\ Unsent' = queue' /\ LastSent' = LastSent
      <4> HIDE DEF InFlight
      <4> QED BY <2>1 DEF Unsent, LastSent
    <3>3. p > LastSent
      BY <1>0, <1>a
    <3>4. \A i \in 1..Len(queue) : p > queue[i]
      <4>1. \A i \in 1..Len(queue) : queue[i] \in Nat /\ queue[i] <= submitted
        BY <1>0, NaturalElements DEF QueueOrder
      <4> QED BY <1>0, <4>1
    <3> HIDE DEF p
    <3>5. Outgoing!Accept(p)
      BY <3>1, <3>2, <3>3, <3>4 DEF Outgoing!Accept
    <3> QED BY <3>1, <3>5 DEF Outgoing!Next
  <2> QED BY <2>2, <2>3
<1>2. CASE DrainDrop
  <2>1. queue # <<>> /\ queue' = Tail(queue) /\ sent' = sent /\ ~InFlight /\ ~InFlight'
    BY <1>2 DEF DrainDrop, DrainReads, InFlight
  <2>2. Unsent = queue /\ Unsent' = queue' /\ LastSent' = LastSent
    <3> HIDE DEF InFlight
    <3> QED BY <2>1 DEF Unsent, LastSent
  <2> QED BY <2>1, <2>2 DEF Outgoing!Next, Outgoing!Drop
<1>3. CASE Return
  <2>1. sent' = sent /\ ~InFlight' /\ pc = "return"
    BY <1>3 DEF Return, InFlight
  <2>2. CASE Written
    <3>1. queue' = Tail(queue) /\ InFlight
      BY <1>3, <2>1, <2>2 DEF Return, InFlight
    <3>2. Unsent = Tail(queue) /\ Unsent' = queue' /\ LastSent' = LastSent
      <4> HIDE DEF InFlight
      <4> QED BY <2>1, <3>1 DEF Unsent, LastSent
    <3> QED BY <3>1, <3>2
  <2>3. CASE ~Written
    <3>1. UNCHANGED queue /\ ~InFlight
      BY <1>3, <2>1, <2>3 DEF Return, InFlight
    <3> QED BY <2>1, <3>1, FifoKept
  <2> QED BY <2>2, <2>3
<1>4. CASE Write
  <2>1. /\ queue # <<>> /\ ~InFlight /\ queue' = queue
        /\ \/ sent' = Append(sent, Head(queue)) /\ pc' \in Awaiting
           \/ sent' = sent /\ pc' = "restore1" /\ outcome' = "write"
    BY <1>0, <1>4 DEF Write, InFlight, Control, Sending
  <2>2. CASE sent' = Append(sent, Head(queue)) /\ pc' \in Awaiting
    <3>1. InFlight'
      BY <2>2 DEF InFlight
    <3>2. Unsent = queue /\ Unsent' = Tail(queue)
      <4> HIDE DEF InFlight
      <4> QED BY <2>1, <3>1 DEF Unsent
    <3>3. Head(queue) \in Packets /\ Head(queue) = queue[1] /\ 1 \in 1..Len(queue)
      BY <1>0, <2>1, HeadTail
    <3>4. LastSent' = Head(queue)
      <4>1. sent' # <<>> /\ sent'[Len(sent')] = Head(queue)
        BY <1>0, <2>2, <3>3
      <4> QED BY <4>1 DEF LastSent
    <3>5. Head(queue) > LastSent
      <4>1. LastSent < queue[1]
        BY <1>a, <2>1, <3>3
      <4>2. Head(queue) \in Nat
        BY <3>3, PacketsAssumption
      <4> QED BY <1>a, <3>3, <4>1, <4>2
    <3>6. Outgoing!Send
      BY <2>1, <3>2, <3>4, <3>5 DEF Outgoing!Send
    <3> QED BY <3>6 DEF Outgoing!Next
  <2>3. CASE sent' = sent /\ pc' = "restore1" /\ outcome' = "write"
    <3>1. ~InFlight'
      BY <2>3 DEF InFlight
    <3> QED BY <2>1, <2>3, <3>1, FifoKept
  <2> QED BY <2>1, <2>2, <2>3
<1>5. CASE Start \/ StartConfig \/ StartData \/ Loop \/ DrainEmpty \/ SelectInterrupted
           \/ SelectTimeout \/ Timeout \/ SendNoFreq \/ Switch \/ Settle
  <2>1. /\ UNCHANGED <<queue, sent>> /\ pc \notin Awaiting \union Ending \union {"return"}
        /\ pc' \notin Awaiting /\ outcome' \in {outcome, "settle"}
    BY <1>5 DEF Start, StartConfig, StartData, Loop, DrainEmpty, SelectInterrupted, SelectTimeout,
       Timeout, SendNoFreq, Switch, Settle
  <2>2. ~InFlight /\ ~InFlight'
    BY <1>0, <2>1 DEF InFlight, Control
  <2> QED BY <2>1, <2>2, FifoKept
<1>6. CASE DrainBlocked \/ DrainDisabled \/ DrainWait \/ DrainSend
  <2>1. /\ UNCHANGED <<queue, sent, outcome>> /\ pc = "drain"
        /\ pc' \in {"select", "return", "switch"}
    BY <1>6 DEF DrainBlocked, DrainDisabled, DrainWait, DrainSend, DrainReads
  <2>2. ~InFlight /\ ~InFlight'
    BY <1>0, <2>1 DEF InFlight, Control
  <2> QED BY <2>1, <2>2, FifoKept
<1>7. CASE WaitRead \/ WaitLost \/ ConfirmRead \/ ConfirmTimeout
  <2>1. UNCHANGED <<queue, sent>>
    BY <1>7 DEF WaitRead, WaitLost, ConfirmRead, ConfirmTimeout
  <2>2. /\ pc \in Awaiting
        /\ \/ pc' \in Awaiting
           \/ pc' = "restore1" /\ outcome' \in {"ok", "refused", "lost", "unconfirmed"}
    BY <1>7 DEF WaitRead, WaitLost, ConfirmRead, ConfirmTimeout, Confirmed
  <2>3. InFlight /\ InFlight'
    BY <2>2 DEF InFlight
  <2> QED BY <2>1, <2>3, FifoKept
<1>8. CASE RestoreDone \/ RestoreFail \/ RestoreGiveUp
  <2>1. /\ UNCHANGED <<queue, sent, outcome>> /\ pc \in Ending
        /\ pc' \in Ending \union {"return"}
    BY <1>8 DEF RestoreDone, RestoreFail, RestoreGiveUp
  <2>2. InFlight <=> InFlight'
    BY <2>1 DEF InFlight
  <2> QED BY <2>1, <2>2, FifoKept
<1>9. CASE Signal \/ DaemonStep \/ UNCHANGED vars
  <2>1. UNCHANGED <<pc, outcome, queue, sent>>
    BY <1>9 DEF Signal, DaemonStep, vars, bridgeVars
  <2>2. InFlight <=> InFlight'
    BY <2>1 DEF InFlight
  <2> QED BY <2>1, <2>2, FifoKept
<1> QED BY <1>1, <1>2, <1>3, <1>4, <1>5, <1>6, <1>7, <1>8, <1>9 DEF Next, BridgeStep, Transmit

(* The main loop, the drain and the transmit path implement the FIFO of    *)
(* the outgoing queue through every failure: a packet leaves it by being   *)
(* written once (loraham_sock_write, packet_written) or by being dropped,  *)
(* oldest first, and none comes back.                                      *)
THEOREM BridgeImplementsFifo == Spec => ImplementsFifo
<1>1. Init => Outgoing!Init
  <2> SUFFICES ASSUME Init PROVE Unsent = <<>> /\ LastSent = 0
    BY DEF Outgoing!Init
  <2>1. pc = "start" /\ queue = <<>> /\ sent = <<>>
    BY DEF Init
  <2>2. ~InFlight
    BY <2>1 DEF InFlight, Awaiting, Ending
  <2> HIDE DEF InFlight
  <2> QED BY <2>1, <2>2 DEF Unsent, LastSent
<1>2. BaseInv /\ QueueOrder /\ [Next]_vars => [Outgoing!Next]_<<Unsent, LastSent>>
  BY StepFifo
<1> QED BY <1>1, <1>2, BaseInvariant, OrderInvariant, PTL
       DEF Spec, ImplementsFifo, Outgoing!Spec, Outgoing!fifoVars

-----------------------------------------------------------------------------
(* Packets written in part *)

(* Of the packets s on their way to the daemon only the last may be        *)
(* incomplete, and only while an interrupted write is being dealt with;    *)
(* those of the open connection come after those of earlier ones.          *)
Parts(s, open, interrupted) ==
    /\ \A i \in 1..Len(s) : ~s[i].whole => i = Len(s) /\ s[i].live /\ interrupted
    /\ \A i \in 1..Len(s) : s[i].live => open
    /\ \A i, j \in 1..Len(s) : i < j /\ s[i].live => s[j].live

Interrupted == outcome = "write" /\ pc \in Ending \union {"return"}
Starting == {"start", "start_config", "start_data"}

PartAtEnd ==
    /\ Parts(dataUp, data = "up", Interrupted)
    /\ pc \in Starting => data = "none"

LEMMA PartsTail ==
    ASSUME NEW s \in Seq(UpType), s # <<>>, NEW o \in BOOLEAN, NEW w \in BOOLEAN, Parts(s, o, w)
    PROVE  Parts(Tail(s), o, w)
<1> DEFINE t == Tail(s)
           n == Len(s)
<1>1. /\ n \in Nat /\ n > 0 /\ Len(t) = n - 1
      /\ \A i \in 1..(n - 1) : t[i] = s[i + 1]
  BY HeadTail
<1> HIDE DEF t, n
<1>2. ASSUME NEW i \in 1..Len(t)
      PROVE  i + 1 \in 1..n /\ t[i] = s[i + 1] /\ (i + 1 = n => i = Len(t))
  BY <1>1, <1>2
<1>3. \A i \in 1..Len(t) : ~t[i].whole => i = Len(t) /\ t[i].live /\ w
  BY <1>2 DEF Parts, n
<1>4. \A i \in 1..Len(t) : t[i].live => o
  BY <1>2 DEF Parts, n
<1>5. ASSUME NEW i \in 1..Len(t), NEW j \in 1..Len(t), i < j, t[i].live
      PROVE  t[j].live
  <2>1. i + 1 < j + 1
    BY <1>1, <1>5
  <2> QED BY <1>2, <1>5, <2>1 DEF Parts, n
<1>6. Parts(t, o, w)
  BY <1>3, <1>4, <1>5 DEF Parts
<1> QED BY <1>6 DEF t

LEMMA PartsAppend ==
    ASSUME NEW s \in Seq(UpType), NEW p \in UpType, NEW w \in BOOLEAN, NEW v \in BOOLEAN,
           Parts(s, TRUE, w), ~w, p.live, ~p.whole => v
    PROVE  Parts(Append(s, p), TRUE, v)
<1>1. /\ Len(Append(s, p)) = Len(s) + 1 /\ Len(s) \in Nat
      /\ \A i \in 1..Len(s) : Append(s, p)[i] = s[i]
      /\ Append(s, p)[Len(s) + 1] = p
  OBVIOUS
<1> QED BY <1>1 DEF Parts

(* The connection is closed by the bridge. *)
LEMMA OrphanElements ==
    ASSUME NEW s \in Seq(UpType)
    PROVE  /\ Orphan(s) \in Seq(UpType) /\ Len(Orphan(s)) <= Len(s)
           /\ Len(s) \in Nat /\ Len(Orphan(s)) \in Nat
           /\ \A i \in 1..Len(Orphan(s)) :
                 /\ Orphan(s)[i].pkt = s[i].pkt /\ Orphan(s)[i].whole = s[i].whole
                 /\ ~Orphan(s)[i].live
                 /\ ~s[i].whole => i # Len(s)
<1> DEFINE n == IF s # <<>> /\ ~s[Len(s)].whole THEN Len(s) - 1 ELSE Len(s)
<1>1. n \in Nat /\ n <= Len(s) /\ Len(s) \in Nat
  BY EmptySeq
<1>2. Orphan(s) = [i \in 1..n |-> [s[i] EXCEPT !.live = FALSE]]
  BY DEF Orphan
<1>3. ASSUME NEW i \in 1..n PROVE ~s[i].whole => i # Len(s)
  <2>1. CASE s # <<>> /\ ~s[Len(s)].whole
    BY <1>1, <1>3, <2>1
  <2>2. CASE ~(s # <<>> /\ ~s[Len(s)].whole)
    <3>1. s # <<>>
      BY <1>1, <1>3, EmptySeq
    <3> QED BY <2>2, <3>1
  <2> QED BY <2>1, <2>2
<1> HIDE DEF n
<1>4. ASSUME NEW i \in 1..n
      PROVE  /\ Orphan(s)[i] \in UpType
             /\ Orphan(s)[i].pkt = s[i].pkt /\ Orphan(s)[i].whole = s[i].whole
             /\ ~Orphan(s)[i].live
  <2>1. s[i] \in UpType
    BY <1>1, <1>4, ElementOfSeq
  <2>2. Orphan(s)[i] = [s[i] EXCEPT !.live = FALSE]
    BY <1>2, <1>4
  <2> QED BY <2>1, <2>2 DEF UpType
<1>5. Orphan(s) \in [1..n -> UpType]
  BY <1>2, <1>4
<1>6. Orphan(s) \in Seq(UpType) /\ Len(Orphan(s)) = n
  BY <1>1, <1>5
<1> QED BY <1>1, <1>3, <1>4, <1>6

LEMMA PartsOrphan ==
    ASSUME NEW s \in Seq(UpType), NEW o \in BOOLEAN, NEW w \in BOOLEAN, Parts(s, o, w),
           NEW p \in BOOLEAN, NEW v \in BOOLEAN
    PROVE  Parts(Orphan(s), p, v)
<1>1. \A i \in 1..Len(Orphan(s)) : Orphan(s)[i].whole /\ ~Orphan(s)[i].live
  BY OrphanElements DEF Parts
<1> QED BY <1>1 DEF Parts

(* The connection is closed by the daemon. *)
LEMMA PartsCut ==
    ASSUME NEW s \in Seq(UpType), \A i \in 1..Len(s) : ~s[i].whole => s[i].live,
           NEW k \in 0..Len(s), \A i \in DOMAIN s : s[i].live <=> i > k
    PROVE  /\ Len(SubSeq(s, 1, k)) = k
           /\ \A i \in 1..k : SubSeq(s, 1, k)[i] = s[i] /\ s[i].whole /\ ~s[i].live
<1>1. Len(s) \in Nat /\ DOMAIN s = 1..Len(s)
  OBVIOUS
<1>2. Len(SubSeq(s, 1, k)) = k /\ \A i \in 1..k : SubSeq(s, 1, k)[i] = s[i]
  BY <1>1
<1>3. ASSUME NEW i \in 1..k PROVE s[i].whole /\ ~s[i].live
  <2>1. i \in 1..Len(s) /\ ~(i > k)
    BY <1>1, <1>3
  <2>2. ~s[i].live
    BY <1>1, <2>1
  <2> QED BY <2>1, <2>2
<1> QED BY <1>2, <1>3

(* A step that leaves the packets and the connection alone, before or      *)
(* during the end of a transmission.                                       *)
LEMMA PartsKept ==
    ASSUME PartAtEnd, UNCHANGED <<dataUp, data>>, Interrupted => Interrupted',
           pc' \in Starting => pc \in Starting
    PROVE  PartAtEnd'
<1>1. dataUp' = dataUp /\ data' = data
  OBVIOUS
<1> HIDE DEF Interrupted, Starting
<1> QED BY <1>1 DEF PartAtEnd, Parts

LEMMA StepParts ==
    ASSUME BaseInv, PartAtEnd, [Next]_vars
    PROVE  PartAtEnd'
<1> USE DEF Awaiting, Ending, Starting
<1>0. /\ TypeOK /\ Control /\ dataUp \in Seq(UpType)
      /\ Parts(dataUp, data = "up", Interrupted)
      /\ Interrupted \in BOOLEAN /\ Interrupted' \in BOOLEAN /\ (data = "up") \in BOOLEAN /\ (data' = "up") \in BOOLEAN
  BY DEF BaseInv, TypeOK, UpType, PartAtEnd, Interrupted
<1>c. ASSUME CloseData, pc' \notin Starting
      PROVE  PartAtEnd'
  <2>1. dataUp' = Orphan(dataUp)
    BY <1>c DEF CloseData
  <2>2. Parts(Orphan(dataUp), data' = "up", Interrupted')
    BY <1>0, PartsOrphan, Zenon
  <2> QED BY <1>c, <2>1, <2>2, Zenon DEF PartAtEnd
<1>1. CASE Start \/ StartConfig \/ Loop \/ DrainEmpty \/ SelectInterrupted
           \/ SelectTimeout \/ SendNoFreq \/ Switch \/ Settle
  <2>1. /\ UNCHANGED <<dataUp, data>> /\ pc \notin Ending \union {"return"}
        /\ pc' \in Starting => pc \in Starting
    BY <1>1 DEF Start, StartConfig, Loop, DrainEmpty, SelectInterrupted, SelectTimeout,
       SendNoFreq, Switch, Settle, linkVars
  <2> QED BY <2>1, PartsKept DEF Interrupted
<1>2. CASE DrainBlocked \/ DrainDisabled \/ DrainDrop \/ DrainWait \/ DrainSend
  <2>1. UNCHANGED <<dataUp, data>> /\ pc = "drain" /\ pc' \notin Starting
    BY <1>2 DEF DrainBlocked, DrainDisabled, DrainDrop, DrainWait, DrainSend, DrainReads
  <2> QED BY <2>1, PartsKept DEF Interrupted
<1>3. CASE StartData
  <2>1. dataUp' = dataUp /\ pc' \notin Starting /\ data = "none" /\ ~Interrupted
    BY <1>3 DEF StartData, PartAtEnd, Interrupted
  <2>2. \A i \in 1..Len(dataUp) : dataUp[i].whole /\ ~dataUp[i].live
    BY <1>0, <2>1 DEF Parts
  <2>3. Parts(dataUp, data' = "up", Interrupted')
    BY <2>2 DEF Parts
  <2> QED BY <2>1, <2>3, Zenon DEF PartAtEnd
<1>4. CASE Return
  <2>1. CloseData \/ (KeepData /\ ~ReconnectData)
    BY <1>4, Zenon DEF Return
  <2>2. CASE KeepData /\ ~ReconnectData
    <3>1. ~Interrupted /\ UNCHANGED <<dataUp, data>>
      BY <1>0, <1>4, <2>2 DEF Control, ReconnectData, Interrupted, KeepData, Return
    <3>2. pc' \notin Starting
      BY <1>4 DEF Return
    <3> QED BY <3>1, <3>2, PartsKept
  <2>3. pc' \notin Starting
    BY <1>4 DEF Return
  <2> QED BY <1>c, <2>1, <2>2, <2>3
<1>5. CASE Write
  <2>1. pc = "write" /\ data' = data /\ pc' \notin Starting /\ ~Interrupted
    BY <1>5 DEF Write, Interrupted
  <2>2. Head(queue) \in Packets
    BY <1>0, <1>5, HeadTail DEF TypeOK, Control, Write, Sending
  <2>3. ASSUME NEW w \in BOOLEAN, data = "up", ~w => Interrupted',
               dataUp' = Append(dataUp, [pkt |-> Head(queue), live |-> TRUE, whole |-> w])
        PROVE  PartAtEnd'
    <3> DEFINE p == [pkt |-> Head(queue), live |-> TRUE, whole |-> w]
    <3>1. p \in UpType /\ p.live /\ (~p.whole => ~w)
      BY <2>2 DEF UpType
    <3> HIDE DEF p
    <3>2. Parts(dataUp, TRUE, Interrupted)
      BY <1>0, <2>3 DEF Parts
    <3>3. Parts(Append(dataUp, p), TRUE, Interrupted')
      BY <1>0, <2>1, <2>3, <3>1, <3>2, PartsAppend, Zenon
    <3>4. Parts(dataUp', data' = "up", Interrupted')
      BY <2>1, <2>3, <3>3 DEF p, Parts
    <3> QED BY <2>1, <3>4 DEF PartAtEnd
  <2>4. \/ UNCHANGED dataUp
        \/ data = "up" /\ dataUp' = Append(dataUp, [pkt |-> Head(queue), live |-> TRUE, whole |-> TRUE])
        \/ /\ data = "up" /\ Interrupted'
           /\ dataUp' = Append(dataUp, [pkt |-> Head(queue), live |-> TRUE, whole |-> FALSE])
    <3>1. outcome' = "write" /\ pc' = "restore1" => Interrupted'
      BY DEF Interrupted
    <3> QED BY <1>5, <3>1, Zenon DEF Write
  <2> QED BY <2>1, <2>3, <2>4, PartsKept
<1>6. CASE WaitRead \/ WaitLost \/ ConfirmRead \/ ConfirmTimeout
  <2>1. UNCHANGED <<dataUp, data>> /\ pc \in Awaiting /\ pc' \notin Starting
    BY <1>6 DEF WaitRead, WaitLost, ConfirmRead, ConfirmTimeout, Confirmed, linkVars
  <2> QED BY <2>1, PartsKept DEF Interrupted
<1>7. CASE RestoreDone \/ RestoreFail \/ RestoreGiveUp
  <2>1. UNCHANGED <<dataUp, data, outcome>> /\ pc' \in Ending \union {"return"}
    BY <1>7 DEF RestoreDone, RestoreFail, RestoreGiveUp, linkVars
  <2> QED BY <2>1, PartsKept DEF Interrupted
<1>8. CASE SelectReady
  <2>1. pc = "select" /\ pc' = "loop" /\ (CloseData \/ UNCHANGED <<dataUp, data>>)
    <3>1. CloseData \/ UNCHANGED <<dataUp, data>>
      BY <1>8, Zenon DEF SelectReady, HandleData, KeepData
    <3> QED BY <1>8, <3>1 DEF SelectReady
  <2> QED BY <1>c, <2>1, PartsKept DEF Interrupted
<1>9. CASE Timeout
  <2>1. /\ pc = "timeout" /\ pc' = "loop" /\ dataUp' = dataUp /\ ~Interrupted
        /\ data' = data \/ (data = "none" /\ data' = "up")
    BY <1>9 DEF Timeout, ReconnectOrConfigure, Interrupted
  <2>2. Parts(dataUp, data' = "up", Interrupted')
    BY <1>0, <2>1 DEF Parts
  <2> QED BY <2>1, <2>2 DEF PartAtEnd
<1>10. CASE DaemonStep
  <2>0. UNCHANGED <<pc, outcome>> /\ Interrupted' = Interrupted
    BY <1>10 DEF DaemonStep, bridgeVars, Interrupted
  <2>1. CASE DaemonStart \/ DaemonRefuse
    <3>1. dataUp # <<>> /\ dataUp' = Tail(dataUp) /\ data' = data
      BY <2>1 DEF DaemonStart, DaemonRefuse
    <3>2. Parts(Tail(dataUp), data = "up", Interrupted)
      BY <1>0, <3>1, PartsTail, Zenon
    <3> QED BY <2>0, <3>1, <3>2 DEF PartAtEnd
  <2>2. CASE DaemonClosesData
    <3>1. PICK k \in 0..Len(dataUp) : /\ \A i \in DOMAIN dataUp : dataUp[i].live <=> i > k
                                      /\ dataUp' = SubSeq(dataUp, 1, k)
      BY <2>2 DEF DaemonClosesData
    <3>4. \A i \in 1..Len(dataUp) : ~dataUp[i].whole => dataUp[i].live
      BY <1>0 DEF Parts
    <3>5. \A i \in 1..Len(dataUp') : dataUp'[i].whole /\ ~dataUp'[i].live
      <4>1. /\ Len(SubSeq(dataUp, 1, k)) = k
            /\ \A i \in 1..k : /\ SubSeq(dataUp, 1, k)[i] = dataUp[i]
                               /\ dataUp[i].whole /\ ~dataUp[i].live
        BY <1>0, <3>1, <3>4, PartsCut, Zenon
      <4> QED BY <3>1, <4>1, Zenon
    <3>2. Parts(dataUp', data' = "up", Interrupted')
      BY <3>5, Zenon DEF Parts
    <3>3. pc' \notin Starting
      BY <2>0, <2>2 DEF DaemonClosesData, PartAtEnd
    <3> QED BY <3>2, <3>3 DEF PartAtEnd
  <2>3. CASE DaemonCrash
    <3>1. dataUp' = <<>> /\ (data = "none" => data' = "none")
      BY <2>3 DEF DaemonCrash
    <3> QED BY <2>0, <3>1 DEF PartAtEnd, Parts
  <2>4. CASE DaemonConf \/ DaemonDone \/ DaemonReceive \/ DaemonClosesConf \/ DaemonBoot
    <3>1. UNCHANGED <<dataUp, data>>
      BY <2>4 DEF DaemonConf, DaemonDone, DaemonReceive, DaemonClosesConf, DaemonBoot, linkVars
    <3> QED BY <2>0, <3>1, PartsKept
  <2> QED BY <1>10, <2>1, <2>2, <2>3, <2>4 DEF DaemonStep
<1>11. CASE Signal \/ UNCHANGED vars
  <2>1. UNCHANGED <<pc, outcome, dataUp, data>>
    BY <1>11 DEF Signal, vars, bridgeVars, linkVars
  <2> QED BY <2>1, PartsKept DEF Interrupted
<1> QED BY <1>1, <1>2, <1>3, <1>4, <1>5, <1>6, <1>7, <1>8, <1>9, <1>10, <1>11
       DEF Next, BridgeStep, Transmit

LEMMA PartsInvariant == Spec => []PartAtEnd
<1>1. Init => PartAtEnd
  BY DEF Init, DaemonInit, PartAtEnd, Parts
<1>2. BaseInv /\ PartAtEnd /\ [Next]_vars => PartAtEnd'
  BY StepParts
<1> QED BY <1>1, <1>2, BaseInvariant, PTL DEF Spec

(* A packet that loraham_sock_write got through in part only is the last   *)
(* thing on its connection, and the connection is closed before anything   *)
(* else is written: the retry never continues it.                          *)
THEOREM PartStaysLast == Spec => []PartNotContinued
<1>1. BaseInv /\ PartAtEnd => PartNotContinued
  <2>1. BaseInv => DOMAIN dataUp = 1..Len(dataUp)
    BY DEF BaseInv, TypeOK
  <2> QED BY <2>1 DEF PartAtEnd, Parts, PartNotContinued
<1> QED BY <1>1, BaseInvariant, PartsInvariant, PTL

-----------------------------------------------------------------------------
(* What the bridge knows of the daemon *)

(* A dead daemon has no connections, nothing to do and nothing enabled. *)
Off ==
    ~alive => /\ conf # "up" /\ data # "up" /\ confUp = <<>> /\ dataUp = <<>>
              /\ job = NoJob /\ ~txresult

(* A report by the daemon the bridge is connected to is about that daemon. *)
Truthful(told, r) ==
    /\ r = "on" => txresult
    /\ told /\ r = "absent" => kind = "110"

Truth ==
    /\ txresult => kind = "111"
    /\ pc = "start" => conf = "none"
    /\ conf = "none" => status = NoStatus /\ confDown = <<>>
    /\ conf = "up" => /\ Truthful(status.have_status, status.txresult)
                      /\ \A i \in 1..Len(confDown) :
                            Truthful(confDown[i].kind = "STATUS", confDown[i].txresult)

(* From the gates of the drain to the write, the way to confirm is that of *)
(* the daemon at the other end of the DATA connection, and so it is while  *)
(* the bridge waits.                                                       *)
Agreed ==
    /\ pc \in Sending /\ data = "up" =>
          IF status.txresult = "on" THEN txresult ELSE kind = "110"
    /\ ModeAgrees

(* Only the daemon changes its own state and the air. *)
LEMMA BridgeKeeps ==
    ASSUME BridgeStep \/ Signal \/ UNCHANGED vars
    PROVE  UNCHANGED <<alive, kind, radio, txresult, air>>
<1> USE DEF daemonVars
<1>1. CASE BridgeStep
  BY <1>1 DEF BridgeStep, Transmit, Start, StartConfig, StartData, Loop, DrainReads,
     DrainEmpty, DrainBlocked, DrainDisabled, DrainDrop, DrainWait, DrainSend, Return,
     SendNoFreq, Switch, Settle, Write, WaitRead, WaitLost, ConfirmRead, ConfirmTimeout,
     RestoreDone, RestoreFail, RestoreGiveUp, SelectReady, SelectInterrupted, SelectTimeout, Timeout
<1>2. CASE Signal \/ UNCHANGED vars
  BY <1>2 DEF Signal, vars
<1> QED BY <1>1, <1>2

(* What the bridge does to the streams of a daemon that is not there. *)
LEMMA OffKept ==
    ASSUME BaseInv, Off, ~alive, BridgeStep \/ Signal \/ UNCHANGED vars
    PROVE  /\ conf' # "up" /\ data' # "up" /\ confUp' = <<>> /\ dataUp' = <<>> /\ job' = NoJob
<1> USE DEF linkVars, daemonVars
<1>0. conf # "up" /\ data # "up" /\ confUp = <<>> /\ dataUp = <<>> /\ job = NoJob
  BY DEF Off
<1>1. CloseConf => conf' # "up" /\ confUp' = <<>>
  <2>1. DOMAIN confUp = {}
    BY <1>0
  <2> QED BY <2>1 DEF CloseConf
<1>2. CloseData => data' # "up" /\ dataUp' = <<>> /\ job' = NoJob
  <2>1. Orphan(<<>>) = <<>>
    <3>1. Orphan(<<>>) \in Seq(UpType) /\ Len(Orphan(<<>>)) <= Len(<<>>) /\ Len(Orphan(<<>>)) \in Nat
      BY OrphanElements, EmptySeq
    <3> QED BY <3>1, EmptySeq
  <2> QED BY <1>0, <2>1, NoJobStays DEF CloseData
<1>3. SendInitialConfig => confUp' = <<>>
  <2> SUFFICES ASSUME SendInitialConfig PROVE confUp' = <<>>
    OBVIOUS
  <2>1. \/ confUp' = confUp
        \/ \E n \in {0} : confUp' = confUp \o SubSeq(InitialConfig, 1, n)
    BY <1>0, Zenon DEF SendInitialConfig
  <2>2. SubSeq(InitialConfig, 1, 0) = <<>>
    BY InitialConfigType, SubSeqEmpty
  <2> QED BY <1>0, <2>1, <2>2
<1>4. CASE Start \/ StartData \/ Loop \/ DrainEmpty \/ SendNoFreq \/ Switch \/ Settle
  BY <1>0, <1>4 DEF Start, StartData, Loop, DrainEmpty, SendNoFreq, Switch, Settle
<1>5. CASE DrainBlocked \/ DrainDisabled \/ DrainDrop \/ DrainWait \/ DrainSend
  BY <1>0, <1>5 DEF DrainBlocked, DrainDisabled, DrainDrop, DrainWait, DrainSend, DrainReads
<1>6. CASE StartConfig
  BY <1>0, <1>3, <1>6 DEF StartConfig
<1>7. CASE Return
  <2>1. (CloseData \/ KeepData) /\ (CloseConf \/ KeepConf)
    BY <1>7, Zenon DEF Return
  <2> QED BY <1>0, <1>1, <1>2, <2>1 DEF KeepData, KeepConf
<1>8. CASE Write \/ WaitRead \/ WaitLost \/ ConfirmRead \/ ConfirmTimeout
  BY <1>0, <1>8 DEF Write, WaitRead, WaitLost, ConfirmRead, ConfirmTimeout
<1>9. CASE RestoreDone \/ RestoreFail \/ RestoreGiveUp \/ SelectInterrupted \/ SelectTimeout
  BY <1>0, <1>9 DEF RestoreDone, RestoreFail, RestoreGiveUp, SelectInterrupted, SelectTimeout
<1>10. CASE SelectReady
  <2>1. CloseData \/ UNCHANGED <<data, dataUp, job>>
    BY <1>10, Zenon DEF SelectReady, HandleData, KeepData
  <2>2. CloseConf \/ UNCHANGED <<conf, confUp>>
    BY <1>10, Zenon DEF SelectReady, HandleConf, KeepConf
  <2> QED BY <1>0, <1>1, <1>2, <2>1, <2>2
<1>11. CASE Timeout
  <2>1. UNCHANGED <<job, dataUp>> /\ ReconnectOrConfigure
    BY <1>11 DEF Timeout
  <2>2. conf' # "up" /\ data' # "up"
    BY <1>0, <2>1 DEF ReconnectOrConfigure
  <2>3. confUp' = <<>>
    <3>1. SendInitialConfig \/ UNCHANGED confUp
      BY <2>1 DEF ReconnectOrConfigure
    <3> QED BY <1>0, <1>3, <3>1
  <2> QED BY <1>0, <2>1, <2>2, <2>3
<1>12. CASE Signal \/ UNCHANGED vars
  BY <1>0, <1>12 DEF Signal, vars
<1> QED BY <1>4, <1>5, <1>6, <1>7, <1>8, <1>9, <1>10, <1>11, <1>12
       DEF BridgeStep, Transmit

LEMMA StepOff ==
    ASSUME BaseInv, Off, [Next]_vars
    PROVE  Off'
<1> USE DEF linkVars, daemonVars
<1>1. CASE BridgeStep \/ Signal \/ UNCHANGED vars
  <2>1. UNCHANGED <<alive, txresult>>
    BY <1>1, BridgeKeeps
  <2> QED BY <1>1, <2>1, OffKept DEF Off
<1>2. CASE DaemonStep
  <2>1. CASE DaemonCrash
    <3>1. /\ conf' # "up" /\ data' # "up" /\ confUp' = <<>> /\ dataUp' = <<>> /\ job' = NoJob
          /\ txresult' = FALSE
      BY <2>1 DEF DaemonCrash
    <3> QED BY <3>1 DEF Off
  <2>2. CASE DaemonBoot \/ DaemonConf \/ DaemonStart \/ DaemonRefuse \/ DaemonDone \/ DaemonReceive
    <3>1. alive'
      <4>1. alive' = TRUE \/ (alive /\ alive' = alive)
        BY <2>2 DEF DaemonBoot, DaemonConf, DaemonStart, DaemonRefuse, DaemonDone, DaemonReceive
      <4>2. alive \in BOOLEAN
        BY DEF BaseInv, TypeOK
      <4> QED BY <4>1, <4>2
    <3> QED BY <3>1 DEF Off
  <2>3. CASE DaemonClosesConf \/ DaemonClosesData
    <3>1. alive
      BY <2>3 DEF DaemonClosesConf, DaemonClosesData, Off
    <3>2. alive'
      BY <2>3, <3>1 DEF DaemonClosesConf, DaemonClosesData
    <3> QED BY <3>2 DEF Off
  <2> QED BY <1>2, <2>1, <2>2, <2>3 DEF DaemonStep
<1> QED BY <1>1, <1>2 DEF Next

(* A set of positions of a sequence that is not empty has a last one. *)
LEMMA LastOf ==
    ASSUME NEW n \in Nat, NEW S \in SUBSET (1..n), S # {}
    PROVE  \E m \in S : \A i \in S : i <= m
<1> DEFINE R == OpToRel(<, Nat)
           T == {n - i : i \in S}
<1>1. R = {ss \in Nat \X Nat : ss[1] < ss[2]}
  BY DEF OpToRel
<1>2. IsWellFoundedOn(R, Nat)
  BY NatLessThanWellFounded
<1>3. T \subseteq Nat /\ T # {}
  <2>1. \A i \in S : n - i \in Nat
    OBVIOUS
  <2>2. \E i \in S : TRUE
    OBVIOUS
  <2> QED BY <2>1, <2>2
<1> HIDE DEF R, T
<1>4. PICK x \in T : \A y \in T : ~(<<y, x>> \in R)
  BY <1>2, <1>3, WFMin, Zenon
<1>5. ASSUME NEW y \in T
      PROVE  x <= y
  <2>1. ~(<<y, x>> \in R)
    BY <1>4, <1>5
  <2>2. x \in Nat /\ y \in Nat
    BY <1>3
  <2> QED BY <1>1, <2>1, <2>2
<1>6. PICK m \in S : x = n - m
  BY DEF T
<1>7. ASSUME NEW i \in S
      PROVE  i <= m
  <2>1. n - m <= n - i
    BY <1>5, <1>6 DEF T
  <2>2. i \in Int /\ m \in Int
    OBVIOUS
  <2> QED BY <2>1, <2>2
<1> QED BY <1>7

(* What is read from a truthful connection is true. *)
LEMMA ReadTruthful ==
    ASSUME TypeOK, Truth, conf = "up"
    PROVE  Truthful(ReadConf.have_status, ReadConf.txresult)
<1>1. Len(confDown) \in Nat /\ DOMAIN confDown = 1..Len(confDown)
  BY DEF TypeOK
<1>2. \A i \in 1..Len(confDown) : /\ confDown[i].txresult = "on" => txresult
                                  /\ confDown[i].kind = "STATUS" /\ confDown[i].txresult = "absent" => kind = "110"
  BY DEF Truth, Truthful
<1>3. /\ status.txresult = "on" => txresult
      /\ status.have_status /\ status.txresult = "absent" => kind = "110"
  BY DEF Truth, Truthful
<1>4. ReadConf.have_status <=> \/ status.have_status
                               \/ \E i \in DOMAIN confDown : confDown[i].kind = "STATUS"
  BY Zenon DEF ReadConf
<1>5. CASE \E i \in DOMAIN confDown : LastToken(i)
  <2> DEFINE k == CHOOSE i \in DOMAIN confDown : LastToken(i)
  <2>1. k \in DOMAIN confDown /\ LastToken(k)
    BY <1>5, Zenon
  <2>2. ReadConf.txresult = confDown[k].txresult
    BY <1>5 DEF ReadConf
  <2> HIDE DEF k
  <2>3. ReadConf.txresult # "absent"
    BY <2>1, <2>2, Zenon DEF LastToken
  <2> QED BY <1>1, <1>2, <2>1, <2>2, <2>3, Zenon DEF Truthful
<1>6. CASE ~ \E i \in DOMAIN confDown : LastToken(i)
  <2>1. ReadConf.txresult = status.txresult
    BY <1>6 DEF ReadConf
  <2>2. ASSUME NEW i \in 1..Len(confDown)
        PROVE  confDown[i].txresult = "absent"
    <3> DEFINE S == {j \in 1..Len(confDown) : confDown[j].txresult # "absent"}
    <3>1. SUFFICES ASSUME confDown[i].txresult # "absent" PROVE FALSE
      OBVIOUS
    <3>2. S \in SUBSET (1..Len(confDown)) /\ S # {}
      BY <2>2, <3>1
    <3>3. PICK m \in S : \A j \in S : j <= m
      <4> HIDE DEF S
      <4> QED BY <1>1, <3>2, LastOf
    <3>4. m \in 1..Len(confDown) /\ confDown[m].txresult # "absent"
      OBVIOUS
    <3>5. \A j \in 1..Len(confDown) : j > m => confDown[j].txresult = "absent"
      BY <1>1, <3>3, <3>4
    <3>6. LastToken(m)
      BY <1>1, <3>4, <3>5, Zenon DEF LastToken
    <3> QED BY <1>1, <1>6, <3>4, <3>6, Zenon
  <2> QED BY <1>1, <1>2, <1>3, <1>4, <2>1, <2>2, Zenon DEF Truthful
<1> QED BY <1>5, <1>6

(* To forget the STATUS is truthful. *)
LEMMA ForgetTruthful ==
    ASSUME TypeOK
    PROVE  LET s == [status EXCEPT !.have_status = FALSE, !.txresult = "absent"]
           IN  ~s.have_status /\ s.txresult = "absent"
<1>1. status \in StatusType
  BY DEF TypeOK, StatusType
<1> QED BY <1>1 DEF StatusType

(* Steps after which the connection is as truthful as before. *)
LEMMA TruthKept ==
    ASSUME Truth, UNCHANGED <<kind, txresult, conf, status, confDown>>, pc' = "start" => pc = "start"
    PROVE  Truth'
<1>1. kind' = kind /\ txresult' = txresult /\ conf' = conf /\ status' = status /\ confDown' = confDown
  OBVIOUS
<1>2. NoStatus' = NoStatus
  BY DEF NoStatus
<1> QED BY <1>1, <1>2 DEF Truth, Truthful

LEMMA TruthRead ==
    ASSUME TypeOK, Truth, UNCHANGED <<kind, txresult, conf>>, pc' # "start", confDown' = <<>>,
           conf # "none", status' = ReadConf
    PROVE  Truth'
<1>1. kind' = kind /\ txresult' = txresult /\ conf' = conf
  OBVIOUS
<1>2. conf = "up" => /\ ReadConf.txresult = "on" => txresult
                     /\ ReadConf.have_status /\ ReadConf.txresult = "absent" => kind = "110"
  BY ReadTruthful DEF Truthful
<1>3. conf = "up" => /\ status'.txresult = "on" => txresult
                     /\ status'.have_status /\ status'.txresult = "absent" => kind = "110"
  BY <1>2, Zenon
<1>4. \A i \in 1..Len(confDown') : FALSE
  OBVIOUS
<1> HIDE DEF ReadConf
<1> QED BY <1>1, <1>3, <1>4 DEF Truth, Truthful

LEMMA TruthClosed ==
    ASSUME Truth, UNCHANGED <<kind, txresult>>, pc' # "start", CloseConf
    PROVE  Truth'
<1>1. kind' = kind /\ txresult' = txresult /\ conf' = "none" /\ status' = NoStatus /\ confDown' = <<>>
  BY DEF CloseConf
<1>2. NoStatus' = NoStatus
  BY DEF NoStatus
<1> QED BY <1>1, <1>2 DEF Truth

LEMMA TruthConfigured ==
    ASSUME TypeOK, Truth, UNCHANGED <<kind, txresult, conf, confDown>>, pc' # "start", SendInitialConfig
    PROVE  Truth'
<1>1. kind' = kind /\ txresult' = txresult /\ conf' = conf /\ confDown' = confDown
  OBVIOUS
<1>2. CASE conf = "none" /\ UNCHANGED status
  BY <1>2, TruthKept
<1>3. CASE conf # "none" /\ status' = [status EXCEPT !.have_status = FALSE, !.txresult = "absent"]
  <2>1. ~status'.have_status /\ status'.txresult = "absent"
    BY <1>3, ForgetTruthful
  <2>2. conf' # "none" /\ (pc' = "start" => conf' = "none")
    BY <1>1, <1>3
  <2> QED BY <1>1, <2>1, <2>2 DEF Truth, Truthful
<1> QED BY <1>2, <1>3 DEF SendInitialConfig

(* A connection is made. *)
LEMMA TruthConnected ==
    ASSUME Truth, UNCHANGED <<kind, txresult, status, confDown>>, pc' # "start", conf = "none"
    PROVE  Truth'
<1>1. /\ kind' = kind /\ txresult' = txresult /\ status' = NoStatus /\ confDown' = <<>>
      /\ NoStatus' = NoStatus
  BY DEF Truth, NoStatus
<1>2. ~NoStatus.have_status /\ NoStatus.txresult = "absent"
  BY DEF NoStatus
<1>3. \A i \in 1..Len(confDown') : FALSE
  BY <1>1
<1> QED BY <1>1, <1>2, <1>3 DEF Truth, Truthful

(* A line is sent by the daemon. *)
LEMMA TruthTold ==
    ASSUME TypeOK, Truth, UNCHANGED <<kind, conf, status>>, UNCHANGED pc,
           txresult => txresult', txresult' => kind = "111",
           NEW l \in LineType, confDown' = ToConf(l),
           l.txresult = "on" => txresult, l.kind = "STATUS" /\ l.txresult = "absent" => kind = "110"
    PROVE  Truth'
<1>1. kind' = kind /\ conf' = conf /\ status' = status /\ pc' = pc
  OBVIOUS
<1>2. CASE conf = "up"
  <2>1. confDown' = Append(confDown, l) /\ confDown \in Seq(LineType)
    BY <1>2 DEF ToConf, TypeOK, LineType
  <2>2. /\ Len(confDown') = Len(confDown) + 1 /\ Len(confDown) \in Nat
        /\ \A i \in 1..Len(confDown) : confDown'[i] = confDown[i]
        /\ confDown'[Len(confDown) + 1] = l
    BY <2>1
  <2>3. ASSUME NEW i \in 1..Len(confDown')
        PROVE  /\ confDown'[i].txresult = "on" => txresult
               /\ confDown'[i].kind = "STATUS" /\ confDown'[i].txresult = "absent" => kind = "110"
    <3>1. CASE i = Len(confDown) + 1
      BY <2>2, <3>1
    <3>2. CASE i # Len(confDown) + 1
      <4>1. i \in 1..Len(confDown) /\ confDown'[i] = confDown[i]
        BY <2>2, <3>2
      <4> QED BY <1>2, <4>1 DEF Truth, Truthful
    <3> QED BY <3>1, <3>2
  <2> QED BY <1>1, <1>2, <2>3, Zenon DEF Truth, Truthful
<1>3. CASE conf # "up"
  <2>1. confDown' = confDown
    BY <1>3 DEF ToConf
  <2>2. NoStatus' = NoStatus
    BY DEF NoStatus
  <2> QED BY <1>1, <1>3, <2>1, <2>2, Zenon DEF Truth
<1> QED BY <1>2, <1>3

LEMMA StepTruth ==
    ASSUME BaseInv, Off, Truth, [Next]_vars
    PROVE  Truth'
<1> USE DEF linkVars, daemonVars
<1>0. TypeOK
  BY DEF BaseInv
<1>1. CASE BridgeStep \/ Signal \/ UNCHANGED vars
  <2>0. UNCHANGED <<kind, txresult>>
    BY <1>1, BridgeKeeps
  <2>1. CASE Start
    BY <2>0, <2>1, TruthConnected DEF Start, Truth
  <2>2. CASE StartConfig
    BY <1>0, <2>0, <2>2, TruthConfigured DEF StartConfig
  <2>3. CASE StartData \/ Loop \/ DrainEmpty \/ SendNoFreq \/ Switch \/ Settle
             \/ Write \/ WaitLost \/ ConfirmTimeout
    <3>1. UNCHANGED <<conf, status, confDown>> /\ pc' # "start"
      BY <2>3 DEF StartData, Loop, DrainEmpty, SendNoFreq, Switch, Settle, Write, WaitLost,
         ConfirmTimeout, Confirmed
    <3> QED BY <2>0, <3>1, TruthKept
  <2>4. CASE WaitRead
    <3>1. UNCHANGED <<conf, status, confDown>>
      BY <2>4 DEF WaitRead
    <3>2. pc' # "start"
      BY <2>4 DEF WaitRead
    <3> QED BY <2>0, <3>1, <3>2, TruthKept
  <2>5. CASE RestoreDone \/ RestoreFail \/ RestoreGiveUp \/ SelectInterrupted \/ SelectTimeout
    <3>1. UNCHANGED <<conf, status, confDown>> /\ pc' # "start"
      BY <2>5 DEF RestoreDone, RestoreFail, RestoreGiveUp, SelectInterrupted, SelectTimeout
    <3> QED BY <2>0, <3>1, TruthKept
  <2>6. CASE DrainBlocked \/ DrainDisabled \/ DrainDrop \/ DrainWait \/ DrainSend
    <3>1. status' = Fresh /\ confDown' = <<>> /\ UNCHANGED conf /\ pc' # "start"
      BY <2>6 DEF DrainBlocked, DrainDisabled, DrainDrop, DrainWait, DrainSend, DrainReads
    <3>2. CASE conf = "none"
      <4>1. UNCHANGED <<conf, status, confDown>>
        BY <3>1, <3>2 DEF Fresh, Truth
      <4> QED BY <2>0, <3>1, <4>1, TruthKept
    <3>3. CASE conf # "none"
      BY <1>0, <2>0, <3>1, <3>3, TruthRead DEF Fresh
    <3> QED BY <3>2, <3>3
  <2>7. CASE Return
    <3>1. CloseConf \/ KeepConf
      BY <2>7, Zenon DEF Return
    <3>2. pc' # "start"
      BY <2>7 DEF Return
    <3> QED BY <2>0, <3>1, <3>2, TruthClosed, TruthKept DEF KeepConf
  <2>8. CASE ConfirmRead
    <3>1. /\ status' = ReadConf /\ confDown' = <<>> /\ UNCHANGED conf
          /\ conf # "none" /\ pc' # "start"
      BY <2>8 DEF ConfirmRead, Confirmed
    <3> QED BY <1>0, <2>0, <3>1, TruthRead
  <2>9. CASE SelectReady
    <3>1. HandleConf /\ pc' # "start"
      BY <2>9 DEF SelectReady
    <3>2. CASE ~ConfReadable
      <4>1. KeepConf
        BY <3>1, <3>2 DEF HandleConf, ConfReadable
      <4> QED BY <2>0, <3>1, <4>1, TruthKept DEF KeepConf
    <3>3. CASE ConfReadable /\ conf = "dead"
      BY <2>0, <3>1, <3>3, TruthClosed DEF HandleConf
    <3>4. CASE ConfReadable /\ conf # "dead"
      <4>1. status' = ReadConf /\ confDown' = <<>> /\ UNCHANGED conf
        BY <3>1, <3>4 DEF HandleConf
      <4>2. conf # "none"
        BY <3>4 DEF ConfReadable, Truth
      <4> QED BY <1>0, <2>0, <3>1, <4>1, <4>2, TruthRead
    <3> QED BY <3>2, <3>3, <3>4
  <2>10. CASE Timeout
    <3>1. ReconnectOrConfigure /\ pc' # "start" /\ UNCHANGED confDown
      BY <2>10 DEF Timeout
    <3>2. \/ conf = "none" /\ UNCHANGED status
          \/ UNCHANGED <<conf, status>>
          \/ SendInitialConfig /\ UNCHANGED conf
      BY <3>1 DEF ReconnectOrConfigure
    <3> QED BY <1>0, <2>0, <3>1, <3>2, TruthConnected, TruthKept, TruthConfigured
  <2>11. CASE Signal \/ UNCHANGED vars
    <3>1. UNCHANGED <<conf, status, confDown, pc>>
      BY <2>11 DEF Signal, vars, bridgeVars
    <3> QED BY <2>0, <3>1, TruthKept
  <2> QED BY <1>1, <2>1, <2>2, <2>3, <2>4, <2>5, <2>6, <2>7, <2>8, <2>9, <2>10, <2>11
         DEF BridgeStep, Transmit
<1>2. CASE DaemonStep
  <2>0. UNCHANGED <<pc, status>>
    BY <1>2 DEF DaemonStep, bridgeVars
  <2>1. CASE DaemonConf
    <3> DEFINE r == IF kind = "110" THEN "absent" ELSE IF txresult THEN "on" ELSE "off"
               b == job # NoJob
               l == StatusLine(b, r)
    <3>1. r \in Flags /\ b \in BOOLEAN /\ (r = "on" => txresult) /\ (r = "absent" => kind = "110")
      BY DEF Flags
    <3>2. confDown' = IF Head(confUp) = "status" THEN ToConf(l) ELSE confDown
      BY <2>1 DEF DaemonConf
    <3>3. /\ UNCHANGED <<kind, conf>>
          /\ txresult' = (txresult \/ (Head(confUp) = "txresult" /\ kind = "111"))
      BY <2>1 DEF DaemonConf
    <3>4. (txresult => txresult') /\ (txresult' => kind = "111")
      BY <3>3, Zenon DEF Truth
    <3>5. l \in LineType /\ l.txresult = r
      <4> HIDE DEF r, b
      <4> QED BY <3>1, ConstantTypes DEF StatusLine
    <3> HIDE DEF r, b, l
    <3>6. CASE confDown' = ToConf(l)
      <4>1. (l.txresult = "on" => txresult) /\ (l.kind = "STATUS" /\ l.txresult = "absent" => kind = "110")
        BY <3>1, <3>5, Zenon
      <4> QED BY <1>0, <2>0, <3>3, <3>4, <3>5, <3>6, <4>1, TruthTold, Zenon
    <3>7. CASE confDown' = confDown
      <4>1. kind' = kind /\ conf' = conf /\ status' = status /\ pc' = pc /\ NoStatus' = NoStatus
        BY <2>0, <3>3 DEF NoStatus
      <4> QED BY <3>4, <3>7, <4>1, Zenon DEF Truth, Truthful
    <3> QED BY <3>2, <3>6, <3>7, Zenon
  <2>2. CASE DaemonStart \/ DaemonDone
    <3>1. UNCHANGED <<kind, conf, txresult>> /\ \E b \in BOOLEAN : confDown' = ToConf(TxLine(b))
      BY <2>2 DEF DaemonStart, DaemonDone
    <3>2. PICK b \in BOOLEAN : confDown' = ToConf(TxLine(b))
      BY <3>1
    <3>3. TxLine(b) \in LineType /\ TxLine(b).txresult = "absent" /\ TxLine(b).kind = "TX"
      BY ConstantTypes DEF TxLine
    <3>4. (txresult => txresult') /\ (txresult' => kind = "111")
      BY <3>1 DEF Truth
    <3>5. /\ TxLine(b).txresult = "on" => txresult
          /\ TxLine(b).kind = "STATUS" /\ TxLine(b).txresult = "absent" => kind = "110"
      BY <3>3
    <3> QED BY <1>0, <2>0, <3>1, <3>2, <3>3, <3>4, <3>5, TruthTold, Zenon
  <2>3. CASE DaemonRefuse \/ DaemonReceive \/ DaemonClosesData
    <3>1. UNCHANGED <<kind, txresult, conf, confDown>>
      BY <2>3 DEF DaemonRefuse, DaemonReceive, DaemonClosesData
    <3> QED BY <2>0, <3>1, TruthKept
  <2>4. CASE DaemonClosesConf
    <3>1. conf = "up" /\ conf' = "dead" /\ UNCHANGED <<kind, txresult>>
      BY <2>4 DEF DaemonClosesConf
    <3> QED BY <2>0, <3>1, Zenon DEF Truth
  <2>5. CASE DaemonCrash
    <3>1. /\ txresult' = FALSE /\ UNCHANGED <<kind, confDown>>
          /\ conf' = IF conf = "up" THEN "dead" ELSE conf
      BY <2>5 DEF DaemonCrash
    <3>2. NoStatus' = NoStatus
      BY DEF NoStatus
    <3> QED BY <2>0, <3>1, <3>2 DEF Truth
  <2>6. CASE DaemonBoot
    <3>1. ~txresult /\ conf # "up" /\ UNCHANGED <<txresult, conf, confDown>>
      BY <2>6 DEF DaemonBoot, Off
    <3>2. NoStatus' = NoStatus
      BY DEF NoStatus
    <3>3. ~txresult'
      BY <3>1, Zenon
    <3> QED BY <2>0, <3>1, <3>2, <3>3 DEF Truth
  <2> QED BY <1>2, <2>1, <2>2, <2>3, <2>4, <2>5, <2>6 DEF DaemonStep
<1> QED BY <1>1, <1>2 DEF Next

(* The way to confirm that the drain chose stays right. *)
LEMMA AgreedKept ==
    ASSUME Agreed, UNCHANGED <<kind, status>>, txresult => txresult',
           data' = "up" => data = "up", pc' = pc \/ pc' \notin Sending \union Awaiting \/ (pc' \in Sending /\ pc \in Sending)
    PROVE  Agreed'
<1>1. kind' = kind /\ status' = status
  OBVIOUS
<1> QED BY <1>1 DEF Agreed, ModeAgrees, Sending, Awaiting

LEMMA StepAgreed ==
    ASSUME BaseInv, Off, Truth, Truth', Agreed, [Next]_vars
    PROVE  Agreed'
<1> USE DEF linkVars, daemonVars
<1>0. TypeOK
  BY DEF BaseInv
<1>a. ASSUME pc' \notin Sending \union Awaiting
      PROVE  Agreed'
  BY <1>a DEF Agreed, ModeAgrees, Sending, Awaiting
<1>1. CASE BridgeStep \/ Signal \/ UNCHANGED vars
  <2>0. UNCHANGED <<kind, txresult>>
    BY <1>1, BridgeKeeps
  <2>1. CASE Start \/ StartConfig \/ StartData \/ Loop \/ DrainEmpty \/ DrainBlocked
             \/ DrainDisabled \/ DrainDrop \/ DrainWait \/ Return \/ SendNoFreq \/ WaitLost
             \/ ConfirmTimeout \/ RestoreDone \/ RestoreGiveUp
             \/ SelectInterrupted \/ SelectTimeout \/ SelectReady \/ Timeout
    <3>1. pc' \notin Sending \union Awaiting
      BY <2>1 DEF Start, StartConfig, StartData, Loop, DrainEmpty, DrainBlocked, DrainDisabled,
         DrainDrop, DrainWait, Return, SendNoFreq, WaitLost, ConfirmTimeout, Confirmed, RestoreDone,
         RestoreGiveUp, SelectInterrupted, SelectTimeout, SelectReady, Timeout, Sending, Awaiting
    <3> QED BY <1>a, <3>1
  <2>2. CASE RestoreFail
    <3>1. pc' \notin Sending \union Awaiting
      BY <2>2 DEF RestoreFail, Sending, Awaiting
    <3> QED BY <1>a, <3>1
  <2>3. CASE DrainSend
    <3>1. pc' = "switch" /\ conf' = conf /\ conf # "none" /\ GatesOpen /\ status' = Fresh /\ Fresh.txresult # "off"
      BY <2>3 DEF DrainSend, DrainReads
    <3>2. conf' = "up" /\ status'.have_status /\ status'.txresult # "off"
      BY <3>1 DEF GatesOpen
    <3>3. (status'.txresult = "on" => txresult') /\ (status'.txresult = "absent" => kind' = "110")
      BY <3>2 DEF Truth, Truthful
    <3>4. status' \in StatusType
      BY <1>0, <3>1, ReadConfType DEF Fresh, TypeOK, StatusType
    <3>5. status'.txresult \in {"on", "absent"}
      BY <3>2, <3>4 DEF StatusType, Flags
    <3> QED BY <3>1, <3>3, <3>5 DEF Agreed, ModeAgrees
  <2>4. CASE Switch
    <3>1. UNCHANGED <<status, data>> /\ pc \in Sending /\ (pc' \in Sending \/ pc' = "return")
      BY <2>4 DEF Switch, Sending
    <3> QED BY <2>0, <3>1, AgreedKept DEF Sending, Awaiting
  <2>5. CASE Settle
    <3>1. UNCHANGED <<status, data>> /\ pc \in Sending /\ (pc' \in Sending \/ pc' = "restore1")
      BY <2>5 DEF Settle, Sending
    <3> QED BY <2>0, <3>1, AgreedKept DEF Sending, Awaiting
  <2>6. CASE Write
    <3>1. /\ pc \in Sending /\ UNCHANGED <<data, status>>
          /\ \/ data = "up" /\ pc' = IF status.txresult = "on" THEN "wait" ELSE IF status.tx_busy THEN "busy" ELSE "seek"
             \/ pc' = "restore1"
      BY <2>6 DEF Write, Sending
    <3> QED BY <2>0, <3>1 DEF Agreed, ModeAgrees, Sending
  <2>7. CASE WaitRead
    <3>1. UNCHANGED <<status, data>> /\ (pc' = pc \/ pc' = "restore1")
      BY <2>7, Zenon DEF WaitRead
    <3> QED BY <2>0, <3>1, AgreedKept DEF Sending, Awaiting
  <2>8. CASE ConfirmRead
    <3>1. UNCHANGED data /\ pc \in {"seek", "busy"} /\ pc' \in {"seek", "busy", "restore1"}
      BY <2>8 DEF ConfirmRead, Confirmed
    <3> QED BY <2>0, <3>1 DEF Agreed, ModeAgrees, Sending
  <2>9. CASE Signal \/ UNCHANGED vars
    <3>1. UNCHANGED <<status, data, pc>>
      BY <2>9 DEF Signal, vars, bridgeVars
    <3> QED BY <2>0, <3>1, AgreedKept
  <2> QED BY <1>1, <2>1, <2>2, <2>3, <2>4, <2>5, <2>6, <2>7, <2>8, <2>9 DEF BridgeStep, Transmit
<1>2. CASE DaemonStep
  <2>0. UNCHANGED <<pc, status>>
    BY <1>2 DEF DaemonStep, bridgeVars
  <2>1. CASE DaemonConf
    <3>1. /\ UNCHANGED <<kind, data>>
          /\ txresult' = (txresult \/ (Head(confUp) = "txresult" /\ kind = "111"))
      BY <2>1 DEF DaemonConf
    <3>2. txresult => txresult'
      BY <3>1, Zenon
    <3> QED BY <2>0, <3>1, <3>2, AgreedKept
  <2>2. CASE DaemonStart \/ DaemonDone \/ DaemonRefuse \/ DaemonReceive \/ DaemonClosesData \/ DaemonClosesConf
    <3>1. UNCHANGED <<kind, txresult>> /\ (data' = "up" => data = "up")
      BY <2>2 DEF DaemonStart, DaemonDone, DaemonRefuse, DaemonReceive, DaemonClosesData, DaemonClosesConf
    <3> QED BY <2>0, <3>1, AgreedKept
  <2>3. CASE DaemonCrash \/ DaemonBoot
    <3>1. data' # "up"
      BY <2>3 DEF DaemonCrash, DaemonBoot, Off
    <3> QED BY <3>1 DEF Agreed, ModeAgrees
  <2> QED BY <1>2, <2>1, <2>2, <2>3 DEF DaemonStep
<1> QED BY <1>1, <1>2 DEF Next

(* Off, Truth and Agreed together. *)
KnowsDaemon == Off /\ Truth /\ Agreed

LEMMA KnowsInvariant == Spec => []KnowsDaemon
<1>1. Init => KnowsDaemon
  <2>1. ASSUME Init PROVE Off /\ Agreed
    BY <2>1 DEF Init, DaemonInit, Off, Agreed, ModeAgrees, Sending
  <2>2. ASSUME Init PROVE Truth
    BY <2>2 DEF Init, DaemonInit, Truth
  <2> QED BY <2>1, <2>2 DEF KnowsDaemon
<1>2. BaseInv /\ KnowsDaemon /\ [Next]_vars => KnowsDaemon'
  BY StepOff, StepTruth, StepAgreed DEF KnowsDaemon
<1> QED BY <1>1, <1>2, BaseInvariant, PTL DEF Spec

(* wait_tx_result is entered only towards a daemon that sends TX_RESULT,   *)
(* and wait_tx_complete only towards one that has none: the STATUS the     *)
(* drain acts on is never that of an earlier daemon, although daemons of   *)
(* different versions may follow each other while the bridge runs.         *)
THEOREM ModeOfTheDaemon == Spec => []ModeAgrees
<1>1. KnowsDaemon => ModeAgrees
  BY DEF KnowsDaemon, Agreed
<1> QED BY <1>1, KnowsInvariant, PTL

-----------------------------------------------------------------------------
(* The frequency the radio ends up on *)

Tunes == {"rx", "tx"}

(* A daemon on frequency r with the commands s to carry out ends up on x. *)
Ends(s, r, x) ==
    \/ r = x /\ \A i \in 1..Len(s) : s[i] \notin Tunes
    \/ \E i \in 1..Len(s) : /\ s[i] = x /\ x \in Tunes
                            /\ \A j \in 1..Len(s) : j > i => s[j] \notin Tunes

(* Commands of which only the first may be about the frequency. *)
LEMMA EndsConcat ==
    ASSUME NEW s \in Seq(Commands), NEW t \in Seq(Commands), NEW r, NEW x,
           \A i \in 1..Len(t) : i > 1 => t[i] \notin Tunes
    PROVE  /\ Len(t) > 0 /\ t[1] \in Tunes => (Ends(s \o t, r, x) <=> x = t[1])
           /\ Len(t) = 0 \/ t[1] \notin Tunes => (Ends(s \o t, r, x) <=> Ends(s, r, x))
<1> DEFINE u == s \o t
           m == Len(s)
           n == Len(t)
<1>1. m \in Nat /\ n \in Nat /\ Len(u) = m + n
  OBVIOUS
<1>2. /\ \A i \in 1..m : u[i] = s[i]
      /\ \A i \in (m + 1)..(m + n) : u[i] = t[i - m]
  OBVIOUS
<1> HIDE DEF u, m, n
<1>3. \A i \in (m + 2)..(m + n) : u[i] \notin Tunes
  <2>1. ASSUME NEW i \in (m + 2)..(m + n)
        PROVE  u[i] \notin Tunes
    <3>1. i - m \in 1..n /\ i - m > 1 /\ u[i] = t[i - m]
      BY <1>1, <1>2
    <3> QED BY <3>1 DEF n
  <2> QED BY <2>1
<1>4. ASSUME n > 0, t[1] \in Tunes
      PROVE  Ends(u, r, x) <=> x = t[1]
  <2>1. m + 1 \in 1..Len(u) /\ u[m + 1] = t[1]
    <3>1. m + 1 \in 1..Len(u) /\ m + 1 \in (m + 1)..(m + n) /\ (m + 1) - m = 1
      BY <1>1, <1>4
    <3>2. u[m + 1] = t[(m + 1) - m]
      BY <1>2, <3>1, Zenon
    <3> QED BY <3>1, <3>2, Zenon
  <2>2. \A j \in 1..Len(u) : j > m + 1 => u[j] \notin Tunes
    BY <1>1, <1>3
  <2>3. ASSUME x = t[1] PROVE Ends(u, r, x)
    BY <1>4, <2>1, <2>2, <2>3 DEF Ends
  <2>4. ASSUME Ends(u, r, x) PROVE x = t[1]
    <3>1. PICK i \in 1..Len(u) : u[i] = x /\ x \in Tunes /\ \A j \in 1..Len(u) : j > i => u[j] \notin Tunes
      BY <1>4, <2>1, <2>4 DEF Ends
    <3>2. i = m + 1
      BY <1>1, <1>4, <2>1, <2>2, <3>1
    <3> QED BY <2>1, <3>1, <3>2
  <2> QED BY <2>3, <2>4
<1>5. ASSUME n = 0 \/ t[1] \notin Tunes
      PROVE  Ends(u, r, x) <=> Ends(s, r, x)
  <2>1. \A i \in 1..Len(u) : i > m => u[i] \notin Tunes
    <3>1. ASSUME NEW i \in 1..Len(u), i > m PROVE u[i] \notin Tunes
      <4>1. CASE i = m + 1
        <5>1. n # 0 /\ u[i] = t[1]
          BY <1>1, <1>2, <4>1
        <5> QED BY <1>5, <5>1
      <4>2. CASE i # m + 1
        BY <1>1, <1>3, <3>1, <4>2
      <4> QED BY <4>1, <4>2
    <3> QED BY <3>1
  <2>2. \A i \in 1..m : i \in 1..Len(u) /\ u[i] = s[i]
    BY <1>1, <1>2
  <2>3. \A i \in 1..Len(u) : i \in 1..m \/ i > m
    BY <1>1
  <2>4. ASSUME Ends(u, r, x) PROVE Ends(s, r, x)
    <3>1. CASE r = x /\ \A i \in 1..Len(u) : u[i] \notin Tunes
      BY <2>2, <3>1, Zenon DEF Ends, m
    <3>2. CASE \E i \in 1..Len(u) : /\ u[i] = x /\ x \in Tunes
                                    /\ \A j \in 1..Len(u) : j > i => u[j] \notin Tunes
      <4>1. PICK i \in 1..Len(u) : /\ u[i] = x /\ x \in Tunes
                                   /\ \A j \in 1..Len(u) : j > i => u[j] \notin Tunes
        BY <3>2
      <4>2. i \in 1..m /\ s[i] = x
        BY <2>1, <2>2, <2>3, <4>1
      <4>3. \A j \in 1..m : j > i => s[j] \notin Tunes
        BY <2>2, <4>1, Zenon
      <4> QED BY <4>1, <4>2, <4>3, Zenon DEF Ends, m
    <3> QED BY <2>4, <3>1, <3>2 DEF Ends
  <2>5. ASSUME Ends(s, r, x) PROVE Ends(u, r, x)
    <3>1. CASE r = x /\ \A i \in 1..m : s[i] \notin Tunes
      <4>1. \A i \in 1..Len(u) : u[i] \notin Tunes
        BY <2>1, <2>2, <2>3, <3>1, Zenon
      <4> QED BY <3>1, <4>1, Zenon DEF Ends
    <3>2. CASE \E i \in 1..m : /\ s[i] = x /\ x \in Tunes
                               /\ \A j \in 1..m : j > i => s[j] \notin Tunes
      <4>1. PICK i \in 1..m : /\ s[i] = x /\ x \in Tunes
                              /\ \A j \in 1..m : j > i => s[j] \notin Tunes
        BY <3>2
      <4>2. i \in 1..Len(u) /\ u[i] = x
        BY <2>2, <4>1
      <4>3. \A j \in 1..Len(u) : j > i => u[j] \notin Tunes
        BY <2>1, <2>2, <2>3, <4>1, Zenon
      <4> QED BY <4>1, <4>2, <4>3, Zenon DEF Ends
    <3> QED BY <2>5, <3>1, <3>2 DEF Ends, m
  <2> QED BY <2>4, <2>5
<1> QED BY <1>4, <1>5 DEF u, n

(* One command is carried out. *)
LEMMA EndsTail ==
    ASSUME NEW s \in Seq(Commands), s # <<>>, NEW r, NEW x
    PROVE  Ends(Tail(s), IF Head(s) \in Tunes THEN Head(s) ELSE r, x) <=> Ends(s, r, x)
<1> DEFINE v == Tail(s)
           n == Len(s)
           q == IF Head(s) \in Tunes THEN Head(s) ELSE r
<1>1. /\ n \in Nat /\ n > 0 /\ Len(v) = n - 1 /\ Head(s) = s[1]
      /\ \A i \in 1..(n - 1) : v[i] = s[i + 1]
  BY HeadTail
<1> HIDE DEF v, n
<1>2. \A i \in 1..Len(v) : i + 1 \in 1..n /\ v[i] = s[i + 1]
  BY <1>1
<1>3. \A i \in 1..n : i = 1 \/ (i - 1 \in 1..Len(v) /\ v[i - 1] = s[i])
  BY <1>1
<1>4. ASSUME Ends(v, q, x) PROVE Ends(s, r, x)
  <2>1. CASE q = x /\ \A i \in 1..Len(v) : v[i] \notin Tunes
    <3>1. \A i \in 1..n : i # 1 => s[i] \notin Tunes
      BY <1>3, <2>1, Zenon
    <3>2. CASE s[1] \in Tunes
      <4>1. 1 \in 1..n /\ s[1] = x /\ x \in Tunes
        BY <1>1, <2>1, <3>2
      <4>2. \A j \in 1..n : j > 1 => s[j] \notin Tunes
        BY <1>1, <3>1
      <4> QED BY <4>1, <4>2, Zenon DEF Ends, n
    <3>3. CASE s[1] \notin Tunes
      <4>1. r = x /\ \A i \in 1..n : s[i] \notin Tunes
        BY <1>1, <2>1, <3>1, <3>3
      <4> QED BY <4>1, Zenon DEF Ends, n
    <3> QED BY <3>2, <3>3
  <2>2. CASE \E i \in 1..Len(v) : /\ v[i] = x /\ x \in Tunes
                                  /\ \A j \in 1..Len(v) : j > i => v[j] \notin Tunes
    <3>1. PICK i \in 1..Len(v) : /\ v[i] = x /\ x \in Tunes
                                 /\ \A j \in 1..Len(v) : j > i => v[j] \notin Tunes
      BY <2>2
    <3>2. i + 1 \in 1..n /\ s[i + 1] = x
      BY <1>2, <3>1
    <3>3. ASSUME NEW j \in 1..n, j > i + 1 PROVE s[j] \notin Tunes
      <4>1. j - 1 \in 1..Len(v) /\ j - 1 > i /\ v[j - 1] = s[j]
        BY <1>1, <1>3, <3>3
      <4> QED BY <3>1, <4>1
    <3> QED BY <3>1, <3>2, <3>3, Zenon DEF Ends, n
  <2> QED BY <1>4, <2>1, <2>2 DEF Ends
<1>5. ASSUME Ends(s, r, x) PROVE Ends(v, q, x)
  <2>1. CASE r = x /\ \A i \in 1..n : s[i] \notin Tunes
    <3>1. q = x
      BY <1>1, <2>1
    <3>2. \A i \in 1..Len(v) : v[i] \notin Tunes
      BY <1>2, <2>1, Zenon
    <3> QED BY <3>1, <3>2, Zenon DEF Ends
  <2>2. CASE \E i \in 1..n : /\ s[i] = x /\ x \in Tunes
                             /\ \A j \in 1..n : j > i => s[j] \notin Tunes
    <3>1. PICK i \in 1..n : /\ s[i] = x /\ x \in Tunes
                            /\ \A j \in 1..n : j > i => s[j] \notin Tunes
      BY <2>2
    <3>2. ASSUME NEW j \in 1..Len(v), j + 1 > i PROVE v[j] \notin Tunes
      BY <1>2, <3>1, <3>2
    <3>3. CASE i = 1
      <4>1. q = x
        BY <1>1, <3>1, <3>3
      <4>2. \A j \in 1..Len(v) : v[j] \notin Tunes
        BY <1>1, <3>2, <3>3
      <4> QED BY <4>1, <4>2, Zenon DEF Ends
    <3>4. CASE i # 1
      <4>1. i - 1 \in 1..Len(v) /\ v[i - 1] = x
        BY <1>3, <3>1, <3>4
      <4>2. \A j \in 1..Len(v) : j > i - 1 => v[j] \notin Tunes
        BY <1>1, <3>2
      <4> QED BY <3>1, <4>1, <4>2, Zenon DEF Ends
    <3> QED BY <3>3, <3>4
  <2> QED BY <1>5, <2>1, <2>2 DEF Ends, n
<1> QED BY <1>4, <1>5 DEF v

(* Commands that are not about the frequency are replaced by others. *)
LEMMA EndsMap ==
    ASSUME NEW s, NEW t, Len(t) = Len(s), NEW r, NEW x,
           \A i \in 1..Len(s) : t[i] = s[i] \/ (t[i] \notin Tunes /\ s[i] \notin Tunes)
    PROVE  Ends(t, r, x) <=> Ends(s, r, x)
BY Zenon DEF Ends, Tunes

(* The radio does not end up on two frequencies. *)
LEMMA EndsUnique ==
    ASSUME NEW s, Len(s) \in Nat, NEW r, Ends(s, r, "rx")
    PROVE  ~Ends(s, r, "tx")
<1> SUFFICES ASSUME Ends(s, r, "tx") PROVE FALSE
  OBVIOUS
<1>1. PICK i \in 1..Len(s) : s[i] = "tx" /\ \A j \in 1..Len(s) : j > i => s[j] \notin Tunes
  BY DEF Ends, Tunes
<1>2. PICK k \in 1..Len(s) : s[k] = "rx" /\ \A j \in 1..Len(s) : j > k => s[j] \notin Tunes
  BY <1>1 DEF Ends, Tunes
<1> QED BY <1>1, <1>2 DEF Tunes

(* FinalFreq is where the radio ends up. *)
LEMMA FinalFreqEnds ==
    ASSUME TypeOK
    PROVE  Ends(confUp, radio, FinalFreq)
<1> DEFINE F == {i \in DOMAIN confUp : confUp[i] \in {"rx", "tx"}}
<1>1. Len(confUp) \in Nat /\ DOMAIN confUp = 1..Len(confUp)
  BY DEF TypeOK
<1>2. CASE F = {}
  <2>1. FinalFreq = radio
    BY <1>2 DEF FinalFreq
  <2>2. \A i \in 1..Len(confUp) : confUp[i] \notin Tunes
    BY <1>1, <1>2 DEF Tunes
  <2> QED BY <2>1, <2>2, Zenon DEF Ends
<1>3. CASE F # {}
  <2> DEFINE k == CHOOSE i \in F : \A j \in F : j <= i
  <2>1. F \in SUBSET (1..Len(confUp))
    BY <1>1
  <2>2. \E i \in F : \A j \in F : j <= i
    <3> HIDE DEF F
    <3> QED BY <1>1, <1>3, <2>1, LastOf
  <2>3. k \in F /\ \A j \in F : j <= k
    <3> HIDE DEF F
    <3> QED BY <2>2, Zenon
  <2>4. FinalFreq = confUp[k]
    BY <1>3 DEF FinalFreq
  <2> HIDE DEF k
  <2>5. k \in 1..Len(confUp) /\ confUp[k] \in Tunes
    BY <1>1, <2>3 DEF Tunes
  <2>6. \A j \in 1..Len(confUp) : j > k => confUp[j] \notin Tunes
    BY <1>1, <2>3, <2>5 DEF Tunes
  <2> QED BY <2>4, <2>5, <2>6, Zenon DEF Ends
<1> QED BY <1>2, <1>3

(* What becomes of the frequency in the operations of the bridge. *)
FinalIs(x) == Ends(confUp, radio, x)

LEMMA FinalKept ==
    ASSUME UNCHANGED <<confUp, radio>>, NEW x
    PROVE  FinalIs(x)' <=> FinalIs(x)
<1>1. confUp' = confUp /\ radio' = radio
  OBVIOUS
<1> QED BY <1>1 DEF FinalIs, Ends

LEMMA FinalClosed ==
    ASSUME TypeOK, CloseConf, UNCHANGED radio, NEW x
    PROVE  FinalIs(x)' <=> FinalIs(x)
<1>1. confUp \in Seq(Commands)
  BY DEF TypeOK
<1>2. confUp' = [i \in 1..Len(confUp) |-> IF confUp[i] = "status" THEN "plain" ELSE confUp[i]]
  BY <1>1 DEF CloseConf
<1>3. /\ Len(confUp') = Len(confUp)
      /\ \A i \in 1..Len(confUp) : confUp'[i] = IF confUp[i] = "status" THEN "plain" ELSE confUp[i]
  BY <1>1, <1>2
<1>4. \A i \in 1..Len(confUp) : confUp'[i] = confUp[i] \/ (confUp'[i] \notin Tunes /\ confUp[i] \notin Tunes)
  BY <1>3 DEF Tunes
<1>5. Ends(confUp', radio, x) <=> Ends(confUp, radio, x)
  BY <1>3, <1>4, EndsMap
<1>6. radio' = radio
  OBVIOUS
<1> QED BY <1>5, <1>6 DEF FinalIs, Ends

(* A frequency command is written. *)
LEMMA FinalTuned ==
    ASSUME TypeOK, NEW c \in Tunes, confUp' = Append(confUp, c), UNCHANGED radio, NEW x
    PROVE  FinalIs(x)' <=> x = c
<1>1. confUp \in Seq(Commands) /\ <<c>> \in Seq(Commands) /\ Len(<<c>>) = 1 /\ <<c>>[1] = c
  BY DEF TypeOK, Tunes, Commands
<1>2. confUp' = confUp \o <<c>>
  BY <1>1, AppendIsConcat
<1>3. Ends(confUp \o <<c>>, radio, x) <=> x = c
  <2>1. \A i \in 1..Len(<<c>>) : i > 1 => <<c>>[i] \notin Tunes
    BY <1>1
  <2> DEFINE t == <<c>>
  <2> HIDE DEF t
  <2>2. t \in Seq(Commands) /\ Len(t) > 0 /\ t[1] = c /\ (\A i \in 1..Len(t) : i > 1 => t[i] \notin Tunes)
    BY <1>1, <2>1 DEF t
  <2>3. Ends(confUp \o t, radio, x) <=> x = t[1]
    BY <1>1, <2>2, EndsConcat
  <2> QED BY <2>2, <2>3 DEF t
<1>4. radio' = radio
  OBVIOUS
<1> QED BY <1>2, <1>3, <1>4 DEF FinalIs, Ends

(* The initial configuration is written, as far as it goes. *)
LEMMA FinalConfigured ==
    ASSUME TypeOK, SendInitialConfig, UNCHANGED <<radio, cfg>>
    PROVE  /\ config_ok' /\ cfg # "nofreq" => FinalIs("rx")'
           /\ FinalIs("tx")' => FinalIs("tx")
           /\ FinalIs("rx") => FinalIs("rx")'
           /\ (\A i \in 1..Len(confUp) : confUp[i] # "tx") => (\A i \in 1..Len(confUp') : confUp'[i] # "tx")
<1>1. /\ InitialConfig \in Seq(Commands) /\ Len(InitialConfig) = 3 /\ confUp \in Seq(Commands)
      /\ InitialConfig[1] \in {"plain", "rx"} /\ (cfg # "nofreq" => InitialConfig[1] = "rx")
      /\ InitialConfig[2] = "txresult" /\ InitialConfig[3] = "status"
  BY InitialConfigType DEF TypeOK
<1>2. ASSUME NEW n \in 0..3, confUp' = confUp \o SubSeq(InitialConfig, 1, n)
      PROVE  /\ FinalIs("tx")' => FinalIs("tx")
             /\ FinalIs("rx") => FinalIs("rx")'
             /\ n > 0 /\ cfg # "nofreq" => FinalIs("rx")'
             /\ (\A i \in 1..Len(confUp) : confUp[i] # "tx") => (\A i \in 1..Len(confUp') : confUp'[i] # "tx")
  <2> DEFINE t == SubSeq(InitialConfig, 1, n)
  <2>1. t \in Seq(Commands) /\ Len(t) = n /\ \A i \in 1..n : t[i] = InitialConfig[i]
    <3>1. ASSUME NEW i \in 1..n PROVE InitialConfig[i] \in Commands
      <4>1. i \in 1..Len(InitialConfig)
        BY <1>1
      <4> QED BY <1>1, <4>1, ElementOfSeq
    <3>2. t \in Seq(Commands) /\ Len(t) = n
      BY <1>1, <3>1, SubSeqProperties
    <3>3. \A i \in 1..n : t[i] = InitialConfig[i]
      BY <1>1
    <3> QED BY <3>2, <3>3
  <2> HIDE DEF t
  <2>2. \A i \in 1..Len(t) : (i > 1 => t[i] \notin Tunes) /\ t[i] # "tx"
    <3>1. ASSUME NEW i \in 1..Len(t) PROVE (i > 1 => t[i] \notin Tunes) /\ t[i] # "tx"
      <4>1. i \in {1, 2, 3} /\ t[i] = InitialConfig[i]
        BY <1>2, <2>1
      <4> QED BY <1>1, <4>1 DEF Tunes
    <3> QED BY <3>1
  <2>3. /\ n > 0 /\ t[1] \in Tunes => \A x : Ends(confUp \o t, radio, x) <=> x = t[1]
        /\ n = 0 \/ t[1] \notin Tunes => \A x : Ends(confUp \o t, radio, x) <=> Ends(confUp, radio, x)
    BY <1>1, <2>1, <2>2, EndsConcat
  <2>4. radio' = radio /\ confUp' = confUp \o t
    BY <1>2 DEF t
  <2>5. \A x : FinalIs(x)' <=> Ends(confUp \o t, radio, x)
    BY <2>4 DEF FinalIs, Ends
  <2>6. n > 0 => 1 \in 1..n /\ t[1] = InitialConfig[1]
    BY <2>1
  <2>7. FinalIs("tx")' => FinalIs("tx")
    BY <1>1, <2>3, <2>5, <2>6 DEF FinalIs
  <2>8. FinalIs("rx") => FinalIs("rx")'
    BY <1>1, <2>3, <2>5, <2>6 DEF FinalIs, Tunes
  <2>9. n > 0 /\ cfg # "nofreq" => FinalIs("rx")'
    BY <1>1, <2>3, <2>5, <2>6 DEF Tunes
  <2>10. ASSUME \A i \in 1..Len(confUp) : confUp[i] # "tx", NEW i \in 1..Len(confUp')
         PROVE  confUp'[i] # "tx"
    <3>1. /\ Len(confUp') = Len(confUp) + Len(t) /\ Len(confUp) \in Nat /\ Len(t) \in Nat
          /\ i <= Len(confUp) => confUp'[i] = confUp[i]
          /\ i > Len(confUp) => confUp'[i] = t[i - Len(confUp)]
      BY <1>1, <2>1, <2>4
    <3> QED BY <2>2, <2>10, <3>1
  <2> QED BY <2>7, <2>8, <2>9, <2>10
<1>3. CASE conf = "none" /\ config_ok' = FALSE /\ UNCHANGED confUp
  BY <1>3, FinalKept
<1>4. CASE conf # "none" /\ confUp' = confUp \o InitialConfig
  <2>1. InitialConfig = SubSeq(InitialConfig, 1, 3)
    BY <1>1
  <2>2. confUp' = confUp \o SubSeq(InitialConfig, 1, 3)
    BY <1>4, <2>1, Zenon
  <2> QED BY <1>2, <2>2
<1>5. CASE config_ok' = FALSE /\ \E n \in 0..2 : confUp' = confUp \o SubSeq(InitialConfig, 1, n)
  <2>1. PICK n \in 0..2 : confUp' = confUp \o SubSeq(InitialConfig, 1, n)
    BY <1>5
  <2> QED BY <1>2, <1>5, <2>1
<1>6. \/ conf = "none" /\ config_ok' = FALSE /\ UNCHANGED confUp
      \/ conf # "none" /\ confUp' = confUp \o InitialConfig
      \/ config_ok' = FALSE /\ \E n \in 0..2 : confUp' = confUp \o SubSeq(InitialConfig, 1, n)
  <2>1. (IF conf = "up" THEN 0..2 ELSE {0}) \subseteq 0..2
    OBVIOUS
  <2>2. conf = "up" => conf # "none"
    OBVIOUS
  <2> QED BY <2>1, <2>2, Zenon DEF SendInitialConfig
<1> QED BY <1>3, <1>4, <1>5, <1>6

(* A configuration without a transmit frequency of its own never tunes. *)
NoTune == ~Shift => radio # "tx" /\ \A i \in 1..Len(confUp) : confUp[i] # "tx"

(* The steps that touch the commands or the radio. *)
LEMMA TuneSteps ==
    ASSUME [Next]_vars
    PROVE  /\ UNCHANGED cfg
           /\ \/ UNCHANGED <<confUp, radio>>
              \/ CloseConf /\ UNCHANGED radio
              \/ SendInitialConfig /\ UNCHANGED radio
              \/ Switch /\ Shift /\ pc' = "settle" /\ confUp' = Append(confUp, "tx") /\ UNCHANGED radio
              \/ RestoreDone /\ Shift /\ confUp' = Append(confUp, "rx") /\ UNCHANGED radio
              \/ DaemonConf
              \/ DaemonClosesConf
              \/ DaemonCrash
<1> USE DEF linkVars, daemonVars
<1>1. CASE BridgeStep \/ Signal \/ UNCHANGED vars
  <2>0. UNCHANGED radio
    BY <1>1, BridgeKeeps
  <2>1. CASE Start \/ StartData \/ Loop \/ DrainEmpty \/ SendNoFreq \/ Settle
             \/ Write \/ WaitRead \/ WaitLost \/ ConfirmRead \/ ConfirmTimeout
    BY <2>0, <2>1 DEF Start, StartData, Loop, DrainEmpty, SendNoFreq, Settle, Write, WaitRead,
       WaitLost, ConfirmRead, ConfirmTimeout
  <2>2. CASE DrainBlocked \/ DrainDisabled \/ DrainDrop \/ DrainWait \/ DrainSend
             \/ RestoreFail \/ RestoreGiveUp \/ SelectInterrupted \/ SelectTimeout
    BY <2>0, <2>2 DEF DrainBlocked, DrainDisabled, DrainDrop, DrainWait, DrainSend, DrainReads,
       RestoreFail, RestoreGiveUp, SelectInterrupted, SelectTimeout
  <2>3. CASE Switch
    BY <2>0, <2>3 DEF Switch
  <2>4. CASE RestoreDone
    BY <2>0, <2>4 DEF RestoreDone
  <2>5. CASE StartConfig
    BY <2>0, <2>5 DEF StartConfig
  <2>6. CASE Return
    <3>1. CloseConf \/ KeepConf
      BY <2>6, Zenon DEF Return
    <3>2. UNCHANGED cfg
      BY <2>6 DEF Return
    <3> QED BY <2>0, <3>1, <3>2 DEF KeepConf
  <2>7. CASE SelectReady
    <3>1. CloseConf \/ UNCHANGED confUp
      BY <2>7, Zenon DEF SelectReady, HandleConf, KeepConf
    <3>2. UNCHANGED cfg
      BY <2>7 DEF SelectReady
    <3> QED BY <2>0, <3>1, <3>2
  <2>8. CASE Timeout
    <3>1. SendInitialConfig \/ UNCHANGED confUp
      BY <2>8 DEF Timeout, ReconnectOrConfigure
    <3>2. UNCHANGED cfg
      BY <2>8 DEF Timeout
    <3> QED BY <2>0, <3>1, <3>2
  <2>9. CASE Signal \/ UNCHANGED vars
    BY <2>0, <2>9 DEF Signal, vars, bridgeVars
  <2> QED BY <1>1, <2>1, <2>2, <2>3, <2>4, <2>5, <2>6, <2>7, <2>8, <2>9 DEF BridgeStep, Transmit
<1>2. CASE DaemonStep
  <2>1. UNCHANGED cfg
    BY <1>2 DEF DaemonStep, bridgeVars
  <2>2. CASE DaemonStart \/ DaemonRefuse \/ DaemonDone \/ DaemonReceive \/ DaemonClosesData \/ DaemonBoot
    BY <2>1, <2>2 DEF DaemonStart, DaemonRefuse, DaemonDone, DaemonReceive, DaemonClosesData, DaemonBoot
  <2> QED BY <1>2, <2>1, <2>2 DEF DaemonStep
<1> QED BY <1>1, <1>2 DEF Next

(* What a step does to the frequency the radio ends up on. *)
LEMMA FinalStep ==
    ASSUME TypeOK, [Next]_vars
    PROVE  /\ FinalIs("tx") \/ ~FinalIs("tx")' \/ (Switch /\ pc' = "settle") \/ DaemonClosesConf
           /\ ~FinalIs("rx") \/ FinalIs("rx")' \/ (Switch /\ pc' = "settle") \/ DaemonClosesConf \/ DaemonCrash
           /\ NoTune => NoTune'
<1>0. confUp \in Seq(Commands) /\ Len(confUp) \in Nat /\ (Shift' <=> Shift)
  BY TuneSteps DEF TypeOK, Shift
<1>1. CASE UNCHANGED <<confUp, radio>>
  <2>1. confUp' = confUp /\ radio' = radio
    BY <1>1
  <2> QED BY <1>0, <1>1, <2>1, FinalKept DEF NoTune
<1>2. CASE CloseConf /\ UNCHANGED radio
  <2>1. \A x : FinalIs(x)' <=> FinalIs(x)
    BY <1>2, FinalClosed
  <2>2. confUp' = [i \in 1..Len(confUp) |-> IF confUp[i] = "status" THEN "plain" ELSE confUp[i]]
    BY <1>0, <1>2 DEF CloseConf
  <2>3. /\ Len(confUp') = Len(confUp) /\ radio' = radio
        /\ \A i \in 1..Len(confUp) : confUp'[i] = IF confUp[i] = "status" THEN "plain" ELSE confUp[i]
    BY <1>0, <1>2, <2>2
  <2>4. NoTune => NoTune'
    BY <1>0, <2>3 DEF NoTune
  <2> QED BY <2>1, <2>4, Zenon
<1>3. CASE SendInitialConfig /\ UNCHANGED radio
  <2>1. UNCHANGED cfg /\ radio' = radio
    BY <1>3, TuneSteps
  <2>2. /\ FinalIs("tx")' => FinalIs("tx")
        /\ FinalIs("rx") => FinalIs("rx")'
        /\ (\A i \in 1..Len(confUp) : confUp[i] # "tx") => (\A i \in 1..Len(confUp') : confUp'[i] # "tx")
    BY <1>3, <2>1, FinalConfigured
  <2>3. NoTune => NoTune'
    BY <1>0, <2>1, <2>2, Zenon DEF NoTune
  <2> QED BY <2>2, <2>3
<1>4. CASE Switch /\ Shift /\ pc' = "settle"
  BY <1>0, <1>4 DEF NoTune
<1>5. CASE RestoreDone /\ Shift /\ confUp' = Append(confUp, "rx") /\ UNCHANGED radio
  <2>1. \A x : FinalIs(x)' <=> x = "rx"
    BY <1>5, FinalTuned DEF Tunes
  <2>2. FinalIs("rx")' /\ ~FinalIs("tx")'
    BY <2>1
  <2> QED BY <1>0, <1>5, <2>2 DEF NoTune
<1>6. CASE DaemonConf
  <2>1. /\ confUp # <<>> /\ confUp' = Tail(confUp)
        /\ radio' = IF Head(confUp) \in Tunes THEN Head(confUp) ELSE radio
    BY <1>6 DEF DaemonConf, Tunes
  <2>2. \A x : Ends(Tail(confUp), IF Head(confUp) \in Tunes THEN Head(confUp) ELSE radio, x) <=> FinalIs(x)
    BY <1>0, <2>1, EndsTail DEF FinalIs
  <2>3. \A x : FinalIs(x)' <=> FinalIs(x)
    BY <2>1, <2>2 DEF FinalIs, Ends
  <2>4. /\ Len(confUp) > 0 /\ Len(confUp') = Len(confUp) - 1 /\ Head(confUp) = confUp[1]
        /\ \A i \in 1..(Len(confUp) - 1) : confUp'[i] = confUp[i + 1]
    BY <1>0, <2>1, HeadTail
  <2>5. ASSUME NoTune, ~Shift PROVE radio' # "tx" /\ \A i \in 1..Len(confUp') : confUp'[i] # "tx"
    <3>1. radio # "tx" /\ \A i \in 1..Len(confUp) : confUp[i] # "tx"
      BY <2>5 DEF NoTune
    <3>2. 1 \in 1..Len(confUp) /\ \A i \in 1..Len(confUp') : i + 1 \in 1..Len(confUp) /\ confUp'[i] = confUp[i + 1]
      BY <1>0, <2>4
    <3>3. radio' # "tx"
      BY <2>1, <2>4, <3>1, <3>2
    <3> QED BY <3>1, <3>2, <3>3
  <2> QED BY <1>0, <2>3, <2>5 DEF NoTune
<1>7. CASE DaemonClosesConf
  <2>1. confUp' = <<>> /\ radio' = radio
    BY <1>7 DEF DaemonClosesConf, daemonVars
  <2> QED BY <1>0, <1>7, <2>1 DEF NoTune
<1>8. CASE DaemonCrash
  <2>1. confUp' = <<>> /\ radio' = "none"
    BY <1>8 DEF DaemonCrash
  <2>2. ~FinalIs("tx")'
    BY <2>1 DEF FinalIs, Ends
  <2> QED BY <1>0, <1>8, <2>1, <2>2 DEF NoTune
<1> QED BY <1>1, <1>2, <1>3, <1>4, <1>5, <1>6, <1>7, <1>8, TuneSteps

(* The radio may be away from the receive frequency during a transmission  *)
(* with a shift, and when it could not be restored the error says so.      *)
AwayPCs == {"settle", "write"} \union Awaiting \union Ending
Away == Shift /\ pc \in AwayPCs
Leaving == pc = "return" /\ (ReconnectConf \/ ReconnectData)

Configured ==
    /\ conf = "none" => ~config_ok
    /\ config_ok /\ conf = "up" /\ cfg # "nofreq" => FinalIs("rx") \/ Away \/ Leaving

(* Without a fault every transmission brings the radio back. *)
Undisturbed ==
    /\ faults = 0 => conf # "dead" /\ pc # "restore2"
    /\ faults = 0 /\ pc \notin AwayPCs => ~FinalIs("tx")

LEMMA ConfiguredKept ==
    ASSUME TypeOK, Configured, [Next]_vars, UNCHANGED conf, config_ok' => config_ok,
           ~Switch, Away => Away', ~Leaving
    PROVE  Configured'
<1>1. conf' = conf /\ cfg' = cfg
  BY TuneSteps
<1>2. CASE conf = "none"
  BY <1>1, <1>2, Zenon DEF Configured
<1>3. CASE conf # "none"
  <2>1. SUFFICES ASSUME config_ok', conf' = "up", cfg' # "nofreq" PROVE FinalIs("rx")' \/ Away' \/ Leaving'
    BY <1>1, <1>3, Zenon DEF Configured
  <2>2. FinalIs("rx") \/ Away
    BY <1>1, <2>1, Zenon DEF Configured
  <2>3. CASE FinalIs("rx")
    <3>1. ~DaemonClosesConf /\ ~DaemonCrash
      BY <2>1 DEF DaemonClosesConf, DaemonCrash
    <3> QED BY <2>3, <3>1, FinalStep, Zenon
  <2> QED BY <2>2, <2>3
<1> QED BY <1>2, <1>3

LEMMA StepConfigured ==
    ASSUME BaseInv, KnowsDaemon, Configured, [Next]_vars
    PROVE  Configured'
<1> USE DEF linkVars, daemonVars
<1>0. TypeOK /\ Control /\ cfg' = cfg /\ (Shift' <=> Shift)
  BY TuneSteps DEF BaseInv, Shift
<1>1. CASE Start
  <2>1. conf = "none" /\ config_ok' = config_ok
    BY <1>1 DEF Start, KnowsDaemon, Truth
  <2>2. ~config_ok'
    BY <2>1, Zenon DEF Configured
  <2> QED BY <2>2, Zenon DEF Configured
<1>2. CASE StartConfig \/ (Timeout /\ conf # "none" /\ SendInitialConfig)
  <2>1. SendInitialConfig /\ conf' = conf /\ radio' = radio
    BY <1>2 DEF StartConfig, Timeout, ReconnectOrConfigure
  <2>2. config_ok' /\ cfg # "nofreq" => FinalIs("rx")'
    BY <1>0, <2>1, FinalConfigured
  <2>3. conf = "none" => ~config_ok'
    BY <2>1 DEF SendInitialConfig
  <2> QED BY <1>0, <2>1, <2>2, <2>3, Zenon DEF Configured
<1>3. CASE Timeout /\ (conf = "none" \/ ~SendInitialConfig)
  <2>1. /\ config_ok' = config_ok /\ pc = "timeout" /\ ~Switch
        /\ conf = "none" \/ UNCHANGED conf
    BY <1>3 DEF Timeout, ReconnectOrConfigure, Switch
  <2>2. CASE conf = "none"
    <3>1. ~config_ok'
      BY <2>1, <2>2, Zenon DEF Configured
    <3> QED BY <3>1, Zenon DEF Configured
  <2>3. CASE UNCHANGED conf
    <3>1. ~Away /\ ~Leaving
      BY <2>1 DEF Away, AwayPCs, Leaving, Awaiting, Ending
    <3> QED BY <1>0, <2>1, <2>3, <3>1, ConfiguredKept
  <2> QED BY <2>1, <2>2, <2>3
<1>4. CASE StartData \/ Loop \/ DrainEmpty \/ SendNoFreq \/ SelectInterrupted \/ SelectTimeout
           \/ DrainBlocked \/ DrainDisabled \/ DrainDrop \/ DrainWait \/ DrainSend
  <2>1. /\ UNCHANGED <<conf, config_ok>>
        /\ pc \in {"start_data", "loop", "drain", "switch", "select"}
    BY <1>4 DEF StartData, Loop, DrainEmpty, SendNoFreq, SelectInterrupted, SelectTimeout,
       DrainBlocked, DrainDisabled, DrainDrop, DrainWait, DrainSend, DrainReads
  <2>2. ~Away /\ ~Leaving
    BY <2>1 DEF Away, AwayPCs, Leaving, Awaiting, Ending
  <2>3. ~Switch
    BY <1>4 DEF StartData, Loop, DrainEmpty, SendNoFreq, SelectInterrupted, SelectTimeout,
       DrainBlocked, DrainDisabled, DrainDrop, DrainWait, DrainSend, DrainReads, Switch
  <2> QED BY <1>0, <2>1, <2>2, <2>3, ConfiguredKept
<1>5. CASE Switch
  <2>1. UNCHANGED <<conf, config_ok, radio>> /\ pc = "switch"
    BY <1>5 DEF Switch
  <2>2. ~Away /\ ~Leaving
    BY <2>1 DEF Away, AwayPCs, Leaving, Awaiting, Ending
  <2>3. CASE pc' = "settle"
    <3>1. Away'
      BY <1>0, <1>5, <2>3 DEF Switch, Away, AwayPCs
    <3> QED BY <2>1, <3>1, Zenon DEF Configured
  <2>4. CASE pc' # "settle"
    <3>1. UNCHANGED confUp
      BY <1>5, <2>4 DEF Switch
    <3>2. FinalIs("rx")' <=> FinalIs("rx")
      BY <2>1, <3>1, FinalKept
    <3> QED BY <1>0, <2>1, <2>2, <3>2, Zenon DEF Configured
  <2> QED BY <2>3, <2>4
<1>6. CASE Settle \/ Write \/ WaitRead \/ WaitLost \/ ConfirmRead \/ ConfirmTimeout
  <2>1. /\ UNCHANGED <<conf, config_ok>> /\ pc \in AwayPCs
    BY <1>6 DEF Settle, Write, WaitRead, WaitLost, ConfirmRead, ConfirmTimeout, AwayPCs, Awaiting, Ending
  <2>2. pc' \in AwayPCs
    BY <1>6 DEF Settle, Write, WaitRead, WaitLost, ConfirmRead, ConfirmTimeout, Confirmed, AwayPCs, Awaiting, Ending
  <2>3. ~Switch /\ ~Leaving /\ (Away => Away')
    BY <1>0, <2>1, <2>2 DEF Switch, Leaving, AwayPCs, Awaiting, Ending, Away
  <2> QED BY <1>0, <2>1, <2>3, ConfiguredKept
<1>7. CASE RestoreDone
  <2>1. UNCHANGED <<conf, config_ok, radio>> /\ pc \in Ending
    BY <1>7 DEF RestoreDone, Ending
  <2>2. CASE Shift
    <3>1. confUp' = Append(confUp, "rx")
      BY <1>7, <2>2 DEF RestoreDone
    <3>2. FinalIs("rx")'
      BY <1>0, <2>1, <3>1, FinalTuned DEF Tunes
    <3> QED BY <2>1, <3>2, Zenon DEF Configured
  <2>3. CASE ~Shift
    <3>1. ~Away /\ ~Leaving /\ ~Switch
      BY <2>1, <2>3 DEF Away, Leaving, Switch, Ending
    <3> QED BY <1>0, <2>1, <3>1, ConfiguredKept
  <2> QED BY <2>2, <2>3
<1>8. CASE RestoreFail \/ RestoreGiveUp
  <2>1. UNCHANGED <<conf, config_ok>> /\ pc \in Ending
    BY <1>8 DEF RestoreFail, RestoreGiveUp, Ending
  <2>2. CASE pc' = "restore2"
    <3>1. ~Leaving /\ ~Switch /\ (Away => Away')
      BY <1>0, <2>1, <2>2 DEF Away, Leaving, Switch, Ending, AwayPCs
    <3> QED BY <1>0, <2>1, <3>1, ConfiguredKept
  <2>3. CASE pc' # "restore2"
    <3>1. pc' = "return" /\ ret' = ResultOf(FALSE)
      BY <1>8, <2>3, Zenon DEF RestoreFail, RestoreGiveUp
    <3>2. ResultOf(FALSE) \in {"TX_SOCKET", "TX_RESULT", "CONF_SOCKET"}
      BY DEF ResultOf
    <3>3. Leaving'
      BY <3>1, <3>2 DEF Leaving, ReconnectConf, ReconnectData
    <3>4. conf' = "none" => ~config_ok'
      BY <2>1, Zenon DEF Configured
    <3> QED BY <3>3, <3>4, Zenon DEF Configured
  <2> QED BY <2>2, <2>3
<1>9. CASE Return
  <2>1. /\ config_ok' = (config_ok /\ ~ReconnectData /\ ~ReconnectConf)
        /\ pc = "return" /\ pc' = "select" /\ ~Switch
    BY <1>9 DEF Return, Switch
  <2>2. CASE ReconnectData \/ ReconnectConf
    <3>1. ~config_ok'
      BY <2>1, <2>2, Zenon
    <3> QED BY <3>1, Zenon DEF Configured
  <2>3. CASE ~ReconnectData /\ ~ReconnectConf
    <3>1. UNCHANGED conf
      BY <1>9, <2>3, Zenon DEF Return, KeepConf
    <3>2. ~Leaving /\ ~Away /\ (config_ok' => config_ok)
      BY <2>1, <2>3 DEF Leaving, Away, AwayPCs, Awaiting, Ending
    <3> QED BY <1>0, <2>1, <3>1, <3>2, ConfiguredKept
  <2> QED BY <2>2, <2>3
<1>10. CASE SelectReady
  <2>0. PICK lost \in BOOLEAN : config_ok' = (config_ok /\ conf # "dead" /\ ~lost)
    BY <1>10, Zenon DEF SelectReady
  <2>1. pc = "select" /\ HandleConf /\ ~Switch /\ (config_ok' => config_ok) /\ (conf = "dead" => ~config_ok')
    <3>1. pc = "select" /\ HandleConf
      BY <1>10 DEF SelectReady
    <3>2. (config_ok' => config_ok) /\ (conf = "dead" => ~config_ok')
      BY <2>0, Zenon
    <3> QED BY <3>1, <3>2 DEF Switch
  <2>2. CASE conf = "dead"
    <3>1. ~config_ok'
      BY <2>1, <2>2
    <3> QED BY <3>1, Zenon DEF Configured
  <2>3. CASE conf # "dead"
    <3>1. UNCHANGED conf
      BY <2>1, <2>3, Zenon DEF HandleConf, KeepConf
    <3>2. ~Leaving /\ ~Away
      BY <2>1 DEF Leaving, Away, AwayPCs, Awaiting, Ending
    <3> QED BY <1>0, <2>1, <3>1, <3>2, ConfiguredKept
  <2> QED BY <2>2, <2>3
<1>11. CASE Signal \/ DaemonStep \/ UNCHANGED vars
  <2>1. UNCHANGED <<pc, config_ok, ret>>
    BY <1>11 DEF Signal, DaemonStep, vars, bridgeVars
  <2>2. (Away' <=> Away) /\ (Leaving' <=> Leaving)
    BY <1>0, <2>1 DEF Away, Leaving, ReconnectConf, ReconnectData
  <2>3. CASE DaemonClosesConf \/ DaemonCrash
    <3>1. conf' # "up" /\ (conf' = "none" => conf = "none")
      BY <2>3 DEF DaemonClosesConf, DaemonCrash
    <3> QED BY <2>1, <3>1, Zenon DEF Configured
  <2>4. CASE ~DaemonClosesConf /\ ~DaemonCrash
    <3>1. UNCHANGED conf
      BY <1>11, <2>4 DEF Signal, vars, DaemonStep, DaemonConf, DaemonStart, DaemonRefuse, DaemonDone,
         DaemonReceive, DaemonClosesData, DaemonBoot
    <3>2. ~Switch
      BY <1>11, <2>1 DEF Switch
    <3>3. FinalIs("rx") => FinalIs("rx")'
      BY <1>0, <2>4, <3>2, FinalStep
    <3> QED BY <1>0, <2>1, <2>2, <3>1, <3>3, Zenon DEF Configured
  <2> QED BY <2>3, <2>4
<1> QED BY <1>1, <1>2, <1>3, <1>4, <1>5, <1>6, <1>7, <1>8, <1>9, <1>10, <1>11
       DEF Next, BridgeStep, Transmit

(* A configuration that never tunes does not end up tuned. *)
LEMMA NoTuneFinal ==
    ASSUME NoTune, ~Shift
    PROVE  ~FinalIs("tx")
BY DEF NoTune, FinalIs, Ends

(* What counts as a fault, and what only a fault can do. *)
LEMMA FaultSteps ==
    ASSUME TypeOK, [Next]_vars, faults' = 0
    PROVE  /\ faults = 0 /\ ~DaemonClosesConf /\ ~DaemonCrash
           /\ conf' = "dead" => conf = "dead"
           /\ RestoreFail => conf = "dead"
<1> USE DEF linkVars, daemonVars, boundVars
<1>0. faults \in Nat /\ faults + 1 # 0
  BY BoundsAssumption DEF TypeOK
<1>1. ~DaemonClosesConf /\ ~DaemonCrash /\ ~DaemonClosesData
  BY <1>0 DEF DaemonClosesConf, DaemonCrash, DaemonClosesData
<1>2. \A link : WriteFails(link) => link = "dead" /\ faults = 0
  BY <1>0 DEF WriteFails
<1>3. SendInitialConfig => faults = 0
  BY <1>2 DEF SendInitialConfig
<1>4. RestoreFail => conf = "dead" /\ faults = 0
  BY <1>2 DEF RestoreFail
<1>5. CASE BridgeStep
  <2>1. CASE Start \/ StartData \/ Loop \/ DrainEmpty \/ SendNoFreq \/ Settle \/ WaitRead \/ WaitLost
             \/ ConfirmRead \/ ConfirmTimeout \/ RestoreDone \/ RestoreGiveUp
             \/ SelectInterrupted \/ SelectTimeout
    <3>1. UNCHANGED faults /\ conf' \in {conf, "up", "none"}
      BY <2>1 DEF Start, StartData, Loop, DrainEmpty, SendNoFreq, Settle, WaitRead, WaitLost, ConfirmRead,
         ConfirmTimeout, RestoreDone, RestoreGiveUp, SelectInterrupted, SelectTimeout
    <3> QED BY <1>1, <1>4, <3>1
  <2>2. CASE DrainBlocked \/ DrainDisabled \/ DrainDrop \/ DrainWait \/ DrainSend
    <3>1. UNCHANGED <<faults, conf>>
      BY <2>2 DEF DrainBlocked, DrainDisabled, DrainDrop, DrainWait, DrainSend, DrainReads
    <3> QED BY <1>1, <1>4, <3>1
  <2>3. CASE StartConfig
    BY <1>1, <1>3, <1>4, <2>3 DEF StartConfig
  <2>4. CASE Return
    <3>1. UNCHANGED faults /\ (CloseConf \/ KeepConf)
      BY <2>4, Zenon DEF Return
    <3> QED BY <1>1, <1>4, <3>1 DEF CloseConf, KeepConf
  <2>5. CASE Switch
    <3>1. UNCHANGED conf /\ (UNCHANGED faults \/ WriteFails(conf))
      BY <2>5 DEF Switch
    <3> QED BY <1>1, <1>2, <1>4, <3>1
  <2>6. CASE Write
    <3>1. UNCHANGED conf /\ (UNCHANGED faults \/ WriteFails(data))
      BY <2>6 DEF Write
    <3> QED BY <1>1, <1>2, <1>4, <3>1
  <2>7. CASE RestoreFail
    BY <1>1, <1>4, <2>7 DEF RestoreFail
  <2>8. CASE SelectReady
    <3>1. UNCHANGED faults
      BY <2>8 DEF SelectReady
    <3>2. CloseConf \/ UNCHANGED conf
      BY <2>8, Zenon DEF SelectReady, HandleConf, KeepConf
    <3> QED BY <1>1, <1>4, <3>1, <3>2 DEF CloseConf
  <2>9. CASE Timeout
    <3>1. (SendInitialConfig \/ UNCHANGED faults) /\ conf' \in {conf, "up", "none"}
      BY <2>9 DEF Timeout, ReconnectOrConfigure
    <3> QED BY <1>1, <1>3, <1>4, <3>1
  <2> QED BY <1>5, <2>1, <2>2, <2>3, <2>4, <2>5, <2>6, <2>7, <2>8, <2>9 DEF BridgeStep, Transmit
<1>6. CASE Signal \/ UNCHANGED vars \/ DaemonStep
  <2>1. UNCHANGED <<faults, conf>>
    BY <1>1, <1>6 DEF Signal, vars, DaemonStep, DaemonConf, DaemonStart, DaemonRefuse, DaemonDone,
       DaemonReceive, DaemonBoot
  <2> QED BY <1>1, <1>4, <2>1
<1> QED BY <1>5, <1>6 DEF Next

(* The end of a transmission. *)
LEMMA EndSteps ==
    ASSUME [Next]_vars
    PROVE  /\ pc \in AwayPCs /\ pc' \notin AwayPCs => RestoreDone \/ RestoreFail \/ (RestoreGiveUp /\ pc = "restore2")
           /\ pc' = "restore2" => pc = "restore2" \/ RestoreFail
           /\ Switch /\ pc' = "settle" => pc' \in AwayPCs
<1> USE DEF AwayPCs, Awaiting, Ending
<1>1. CASE RestoreDone \/ RestoreFail \/ RestoreGiveUp
  BY <1>1 DEF RestoreDone, RestoreFail, RestoreGiveUp
<1>2. CASE Start \/ StartConfig \/ StartData \/ Loop \/ DrainEmpty \/ DrainBlocked \/ DrainDisabled
           \/ DrainDrop \/ DrainWait \/ DrainSend \/ Return \/ SendNoFreq \/ Switch \/ Settle \/ Write
  BY <1>2 DEF Start, StartConfig, StartData, Loop, DrainEmpty, DrainBlocked, DrainDisabled, DrainDrop,
     DrainWait, DrainSend, DrainReads, Return, SendNoFreq, Switch, Settle, Write
<1>3. CASE WaitRead \/ WaitLost \/ ConfirmRead \/ ConfirmTimeout
           \/ SelectReady \/ SelectInterrupted \/ SelectTimeout \/ Timeout
  BY <1>3 DEF WaitRead, WaitLost, ConfirmRead, ConfirmTimeout, Confirmed, SelectReady,
     SelectInterrupted, SelectTimeout, Timeout
<1>4. CASE Signal \/ DaemonStep \/ UNCHANGED vars
  <2>1. UNCHANGED pc
    BY <1>4 DEF Signal, DaemonStep, vars, bridgeVars
  <2> QED BY <2>1
<1> QED BY <1>1, <1>2, <1>3, <1>4 DEF Next, BridgeStep, Transmit

LEMMA StepUndisturbed ==
    ASSUME TypeOK, NoTune, Undisturbed, [Next]_vars
    PROVE  Undisturbed'
<1>1. SUFFICES ASSUME faults' = 0
               PROVE  /\ conf' # "dead" /\ pc' # "restore2"
                      /\ pc' \notin AwayPCs => ~FinalIs("tx")'
  BY DEF Undisturbed, AwayPCs, Awaiting, Ending
<1>2. /\ faults = 0 /\ ~DaemonClosesConf /\ (conf' = "dead" => conf = "dead") /\ (RestoreFail => conf = "dead")
  BY <1>1, FaultSteps
<1>3. conf # "dead" /\ pc # "restore2" /\ ~RestoreFail /\ conf' # "dead" /\ pc' # "restore2"
  BY <1>2, EndSteps DEF Undisturbed
<1>4. ASSUME pc' \notin AwayPCs, FinalIs("tx")' PROVE FALSE
  <2>1. FinalIs("tx")
    BY <1>2, <1>4, FinalStep, EndSteps
  <2>2. pc \in AwayPCs
    BY <1>2, <2>1 DEF Undisturbed
  <2>3. RestoreDone
    BY <1>3, <1>4, <2>2, EndSteps
  <2>4. CASE Shift
    <3>1. confUp' = Append(confUp, "rx") /\ UNCHANGED radio
      BY <2>3, <2>4 DEF RestoreDone, daemonVars
    <3>2. FinalIs("tx")' <=> "tx" = "rx"
      BY <3>1, FinalTuned DEF Tunes
    <3> QED BY <1>4, <3>2
  <2>5. CASE ~Shift
    BY <2>1, <2>5, NoTuneFinal
  <2> QED BY <2>4, <2>5
<1> QED BY <1>3, <1>4

(* What is known of the frequency. *)
Tuning == NoTune /\ Configured /\ Undisturbed

LEMMA TuningInvariant == Spec => []Tuning
<1>1. Init => Tuning
  <2> SUFFICES ASSUME Init PROVE Tuning
    OBVIOUS
  <2>1. confUp = <<>> /\ radio = "none" /\ config_ok = FALSE /\ conf = "none" /\ pc = "start"
    BY DEF Init, DaemonInit
  <2>2. ~FinalIs("tx")
    BY <2>1 DEF FinalIs, Ends
  <2> QED BY <2>1, <2>2 DEF Tuning, NoTune, Configured, Undisturbed
<1>2. BaseInv /\ KnowsDaemon /\ Tuning /\ [Next]_vars => Tuning'
  <2>1. BaseInv => TypeOK
    BY DEF BaseInv
  <2> QED BY <2>1, FinalStep, StepConfigured, StepUndisturbed DEF Tuning
<1> QED BY <1>1, <1>2, BaseInvariant, KnowsInvariant, PTL DEF Spec

LEMMA FinalFacts ==
    ASSUME TypeOK
    PROVE  /\ FinalIs("rx") => FinalFreq = "rx"
           /\ ~FinalIs("tx") => FinalFreq # "tx"
<1>1. FinalIs(FinalFreq)
  BY FinalFreqEnds DEF FinalIs
<1>2. FinalIs("rx") => ~FinalIs("tx")
  <2>1. Len(confUp) \in Nat
    BY DEF TypeOK
  <2> QED BY <2>1, EndsUnique, Zenon DEF FinalIs
<1>3. FinalIs("rx") /\ FinalFreq \notin {"rx", "tx"} => FALSE
  <2>1. Len(confUp) \in Nat
    BY DEF TypeOK
  <2> HIDE DEF FinalFreq
  <2>2. SUFFICES ASSUME FinalIs("rx"), FinalFreq \notin {"rx", "tx"} PROVE FALSE
    OBVIOUS
  <2>3. radio = FinalFreq /\ \A i \in 1..Len(confUp) : confUp[i] \notin Tunes
    BY <1>1, <2>2 DEF FinalIs, Ends, Tunes
  <2>4. radio = "rx"
    BY <2>2, <2>3 DEF FinalIs, Ends
  <2> QED BY <2>2, <2>3, <2>4
<1> HIDE DEF FinalFreq
<1>4. FinalFreq = "tx" => FinalIs("tx")
  BY <1>1
<1> QED BY <1>2, <1>3, <1>4

(* Between transmissions config_ok means what it says: with a working CONF *)
(* connection the radio is, or is about to be, back on rx_freq.  A failed  *)
(* restore always reaches the main loop as an error that clears config_ok. *)
THEOREM ConfiguredReceives == Spec => []ConfiguredMeansReceiving
<1>1. BaseInv /\ Tuning => ConfiguredMeansReceiving
  <2> SUFFICES ASSUME BaseInv, Tuning, pc \in {"loop", "drain", "select", "timeout"},
                      config_ok, conf = "up", cfg # "nofreq"
               PROVE  FinalFreq = "rx"
    BY DEF ConfiguredMeansReceiving
  <2>1. ~Away /\ ~Leaving
    BY DEF Away, AwayPCs, Leaving, Awaiting, Ending
  <2>2. FinalIs("rx")
    BY <2>1 DEF Tuning, Configured
  <2> QED BY <2>2, FinalFacts DEF BaseInv
<1> QED BY <1>1, BaseInvariant, TuningInvariant, PTL

(* Whenever the stop comes, the bridge does not exit with the radio left   *)
(* on tx_freq, unless a fault has not been made up for.                    *)
THEOREM ExitsReceiving == Spec => []ExitReceiving
<1>1. BaseInv /\ Tuning => ExitReceiving
  <2> SUFFICES ASSUME BaseInv, Tuning, pc = "exit", faults = 0 \/ (config_ok /\ conf = "up")
               PROVE  FinalFreq # "tx"
    BY DEF ExitReceiving
  <2>1. TypeOK
    BY DEF BaseInv
  <2>2. CASE faults = 0
    <3>1. ~FinalIs("tx")
      BY <2>2 DEF Tuning, Undisturbed, AwayPCs, Awaiting, Ending
    <3> QED BY <2>1, <3>1, FinalFacts
  <2>3. CASE config_ok /\ conf = "up" /\ cfg # "nofreq"
    <3>1. ~Away /\ ~Leaving
      BY DEF Away, AwayPCs, Leaving, Awaiting, Ending
    <3>2. FinalIs("rx")
      BY <2>3, <3>1 DEF Tuning, Configured
    <3>3. FinalFreq = "rx"
      BY <2>1, <3>2, FinalFacts
    <3> QED BY <3>3
  <2>4. CASE cfg = "nofreq"
    <3>1. ~FinalIs("tx")
      BY <2>4, NoTuneFinal DEF Tuning, Shift
    <3> QED BY <2>1, <3>1, FinalFacts
  <2> QED BY <2>2, <2>3, <2>4
<1> QED BY <1>1, BaseInvariant, TuningInvariant, PTL

-----------------------------------------------------------------------------
(* The answer that is on its way *)

(* A packet the daemon has still to answer on the open connection, and a   *)
(* result the bridge has still to read.                                    *)
LiveAt(i) == i \in 1..Len(dataUp) /\ dataUp[i].whole /\ dataUp[i].live
ResultAt(i) == i \in 1..Len(dataDown) /\ dataDown[i].type = "result"

NoLive == ~job.live /\ \A i \in 1..Len(dataUp) : ~LiveAt(i)
NoResult == \A i \in 1..Len(dataDown) : ~ResultAt(i)

(* The bridge waits for a result, or gave up waiting and has not closed    *)
(* the connection yet.                                                     *)
Waiting == pc = "wait" \/ (pc \in Ending \union {"return"} /\ outcome = "lost")

(* There is one answer at most, as a packet, a transmission or a result,   *)
(* and it is about p.                                                      *)
Awaited(p) ==
    /\ \A i \in 1..Len(dataUp) : LiveAt(i) => dataUp[i].pkt = p /\ ~job.live /\ NoResult
    /\ \A i, j \in 1..Len(dataUp) : LiveAt(i) /\ LiveAt(j) => i = j
    /\ job.live => job.pkt = p /\ NoResult
    /\ \A i \in 1..Len(dataDown) : ResultAt(i) => dataDown[i].pkt = p
    /\ \A i, j \in 1..Len(dataDown) : ResultAt(i) /\ ResultAt(j) => i = j

Answer ==
    /\ data # "up" => NoLive
    /\ data = "none" => dataDown = <<>>
    /\ ~Waiting => (kind = "110" \/ NoLive) /\ NoResult
    /\ pc = "wait" => Awaited(Head(queue))

(* The steps that touch the DATA connection, the job or the wait. *)
LEMMA DataSteps ==
    ASSUME BaseInv, PartAtEnd, [Next]_vars
    PROVE  \/ CloseData /\ pc' \in {"select", "loop"} /\ UNCHANGED kind
           \/ /\ UNCHANGED <<dataUp, dataDown, job, kind>> /\ data = "none"
              /\ pc \notin AwayPCs \union {"return"} /\ pc' \in {"loop", "exit"}
           \/ Write
           \/ WaitRead
           \/ /\ SelectReady /\ UNCHANGED <<data, dataUp, job, kind>> /\ pc' = "loop"
              /\ \E n \in 1..Len(dataDown) : dataDown' = SubSeq(dataDown, n + 1, Len(dataDown))
           \/ DaemonConf /\ UNCHANGED <<pc, outcome, queue>>
           \/ DaemonStart /\ UNCHANGED <<pc, outcome, queue>>
           \/ DaemonRefuse /\ UNCHANGED <<pc, outcome, queue>>
           \/ DaemonDone /\ UNCHANGED <<pc, outcome, queue>>
           \/ DaemonReceive /\ UNCHANGED <<pc, outcome, queue>>
           \/ DaemonClosesData /\ UNCHANGED <<pc, outcome, queue>>
           \/ DaemonCrash /\ UNCHANGED <<pc, outcome, queue>>
           \/ DaemonBoot /\ UNCHANGED <<pc, outcome, queue>>
           \/ /\ UNCHANGED <<data, dataUp, dataDown, job, kind>>
              /\ Waiting' <=> Waiting
              /\ pc' = "wait" => pc = "wait" /\ UNCHANGED queue
<1> USE DEF linkVars, daemonVars
<1>0. TypeOK /\ Control
  BY DEF BaseInv
<1>1. CASE BridgeStep \/ Signal \/ UNCHANGED vars
  <2>0. UNCHANGED kind
    BY <1>1, BridgeKeeps
  <2>1. CASE Start \/ StartConfig \/ Loop \/ DrainEmpty \/ SendNoFreq \/ Switch \/ Settle
    <3>1. UNCHANGED <<data, dataUp, dataDown, job>> /\ pc \notin Awaiting \union Ending \union {"return"}
      BY <2>1 DEF Start, StartConfig, Loop, DrainEmpty, SendNoFreq, Switch, Settle, Awaiting, Ending
    <3>2. pc' # "wait" /\ (pc' \in Ending \union {"return"} => outcome' # "lost")
      BY <1>0, <2>1 DEF Start, StartConfig, Loop, DrainEmpty, SendNoFreq, Switch, Settle, Ending, Control
    <3> QED BY <2>0, <3>1, <3>2 DEF Waiting, Awaiting
  <2>2. CASE DrainBlocked \/ DrainDisabled \/ DrainDrop \/ DrainWait \/ DrainSend
    <3>1. UNCHANGED <<data, dataUp, dataDown, job>> /\ pc = "drain" /\ pc' # "wait" /\ outcome' = outcome
      BY <2>2 DEF DrainBlocked, DrainDisabled, DrainDrop, DrainWait, DrainSend, DrainReads
    <3>2. outcome' # "lost"
      BY <1>0, <3>1 DEF Control, Ending
    <3> QED BY <2>0, <3>1, <3>2 DEF Waiting, Ending
  <2>3. CASE StartData
    <3>1. /\ UNCHANGED <<dataUp, dataDown, job>> /\ data = "none"
          /\ pc \notin AwayPCs \union {"return"} /\ pc' \in {"loop", "exit"}
      BY <2>3 DEF StartData, PartAtEnd, Starting, AwayPCs, Awaiting, Ending
    <3> QED BY <2>0, <3>1
  <2>4. CASE Return
    <3>1. /\ CloseData \/ (KeepData /\ ~ReconnectData)
          /\ pc = "return" /\ pc' = "select"
      BY <2>4, Zenon DEF Return
    <3>2. CASE KeepData /\ ~ReconnectData
      <4>1. ~Waiting /\ ~Waiting' /\ UNCHANGED <<data, dataUp, dataDown, job>>
        BY <1>0, <3>1, <3>2 DEF Waiting, Control, ReconnectData, KeepData, Ending
      <4> QED BY <2>0, <3>1, <4>1
    <3> QED BY <2>0, <3>1, <3>2
  <2>5. CASE WaitLost
    <3>1. UNCHANGED <<data, dataUp, dataDown, job>> /\ Waiting /\ Waiting' /\ pc' # "wait"
      BY <2>5 DEF WaitLost, Waiting, Ending
    <3> QED BY <2>0, <3>1
  <2>6. CASE ConfirmRead \/ ConfirmTimeout
    <3>1. /\ UNCHANGED <<data, dataUp, dataDown, job>> /\ pc \in {"seek", "busy"} /\ pc' # "wait"
          /\ pc' \notin {"seek", "busy"} => outcome' # "lost"
      BY <2>6 DEF ConfirmRead, ConfirmTimeout, Confirmed
    <3> QED BY <2>0, <3>1 DEF Waiting, Ending
  <2>7. CASE RestoreDone \/ RestoreFail \/ RestoreGiveUp
    <3>1. /\ UNCHANGED <<data, dataUp, dataDown, job, outcome>> /\ pc \in Ending
          /\ pc' \in Ending \union {"return"}
      BY <2>7 DEF RestoreDone, RestoreFail, RestoreGiveUp, Ending
    <3> QED BY <2>0, <3>1 DEF Waiting, Ending
  <2>8. CASE SelectReady
    <3>1. pc = "select" /\ pc' = "loop"
      BY <2>8 DEF SelectReady
    <3>2. \/ CloseData \/ UNCHANGED <<data, dataUp, dataDown, job>>
          \/ /\ UNCHANGED <<data, dataUp, job>>
             /\ \E n \in 1..Len(dataDown) : dataDown' = SubSeq(dataDown, n + 1, Len(dataDown))
      BY <2>8, Zenon DEF SelectReady, HandleData, KeepData
    <3>3. ~Waiting /\ ~Waiting'
      BY <3>1 DEF Waiting, Ending
    <3> QED BY <2>0, <2>8, <3>1, <3>2, <3>3
  <2>9. CASE Timeout
    <3>1. /\ UNCHANGED <<dataUp, dataDown, job>> /\ pc = "timeout" /\ pc' = "loop"
          /\ data = "none" \/ UNCHANGED data
      BY <2>9 DEF Timeout, ReconnectOrConfigure
    <3>2. ~Waiting /\ ~Waiting' /\ pc \notin AwayPCs \union {"return"}
      BY <3>1 DEF Waiting, Ending, AwayPCs, Awaiting
    <3> QED BY <2>0, <3>1, <3>2
  <2>10. CASE SelectInterrupted \/ SelectTimeout
    <3>1. UNCHANGED <<data, dataUp, dataDown, job>> /\ pc = "select" /\ pc' \in {"loop", "timeout"}
      BY <2>10 DEF SelectInterrupted, SelectTimeout
    <3> QED BY <2>0, <3>1 DEF Waiting, Ending
  <2>11. CASE Signal \/ UNCHANGED vars
    <3>1. UNCHANGED <<data, dataUp, dataDown, job, pc, outcome, queue>>
      BY <2>11 DEF Signal, vars, bridgeVars
    <3> QED BY <2>0, <3>1 DEF Waiting
  <2> QED BY <1>1, <2>1, <2>2, <2>3, <2>4, <2>5, <2>6, <2>7, <2>8, <2>9, <2>10, <2>11
         DEF BridgeStep, Transmit
<1>2. CASE DaemonStep
  <2>1. UNCHANGED <<pc, outcome, queue>>
    BY <1>2 DEF DaemonStep, bridgeVars
  <2>2. CASE DaemonClosesConf
    <3>1. UNCHANGED <<data, dataUp, dataDown, job, kind>>
      BY <2>2 DEF DaemonClosesConf
    <3> QED BY <2>1, <3>1 DEF Waiting
  <2> QED BY <1>2, <2>1, <2>2 DEF DaemonStep
<1> QED BY <1>1, <1>2 DEF Next

(* Nothing on its way is an answer about any packet. *)
LEMMA NothingAwaited ==
    ASSUME NoLive, NoResult, NEW p
    PROVE  Awaited(p)
BY Zenon DEF NoLive, NoResult, Awaited

(* The connection ends: what is left is the results already sent. *)
LEMMA AwaitedCut ==
    ASSUME Awaited(Head(queue)), NoLive', UNCHANGED <<dataDown, queue>>
    PROVE  Awaited(Head(queue))'
<1>1. dataDown' = dataDown /\ queue' = queue
  OBVIOUS
<1>2. \A i : ResultAt(i)' <=> ResultAt(i)
  BY <1>1 DEF ResultAt
<1>3. Head(queue)' = Head(queue)
  BY <1>1
<1>4. ~job'.live /\ \A i \in 1..Len(dataUp') : ~LiveAt(i)'
  BY DEF NoLive
<1>5. /\ \A i \in 1..Len(dataDown') : ResultAt(i)' => dataDown'[i].pkt = Head(queue)
      /\ \A i, j \in 1..Len(dataDown') : ResultAt(i)' /\ ResultAt(j)' => i = j
  BY <1>1, <1>2, Zenon DEF Awaited
<1> QED BY <1>3, <1>4, <1>5, Zenon DEF Awaited

(* Neither the packets nor the frames change. *)
LEMMA AnswerParts ==
    ASSUME UNCHANGED <<dataUp, dataDown, job>>
    PROVE  /\ NoLive' <=> NoLive
           /\ NoResult' <=> NoResult
           /\ UNCHANGED queue => (Awaited(Head(queue))' <=> Awaited(Head(queue)))
<1>1. dataUp' = dataUp /\ dataDown' = dataDown /\ job' = job
  OBVIOUS
<1>2. (\A i : LiveAt(i)' <=> LiveAt(i)) /\ (\A i : ResultAt(i)' <=> ResultAt(i))
  BY <1>1 DEF LiveAt, ResultAt
<1>3. (NoLive' <=> NoLive) /\ (NoResult' <=> NoResult)
  BY <1>1, <1>2 DEF NoLive, NoResult
<1>4. ASSUME UNCHANGED queue
      PROVE  Awaited(Head(queue))' <=> Awaited(Head(queue))
  <2>1. Head(queue)' = Head(queue)
    BY <1>4
  <2> QED BY <1>1, <1>2, <1>3, <2>1 DEF Awaited
<1> QED BY <1>3, <1>4

(* CloseData leaves no answer. *)
LEMMA ClosedNoLive ==
    ASSUME TypeOK, CloseData
    PROVE  NoLive' /\ dataDown' = <<>> /\ NoResult'
<1>1. job \in JobType /\ dataUp \in Seq(UpType)
  BY DEF TypeOK, JobType, UpType
<1>2. /\ dataUp' = Orphan(dataUp) /\ dataDown' = <<>> /\ job' = [job EXCEPT !.live = FALSE]
  BY DEF CloseData
<1>3. ~job'.live
  <2>1. job'.live = FALSE
    BY <1>1, <1>2, EndOfJob, Zenon
  <2> QED BY <2>1
<1>4. \A i \in 1..Len(dataUp') : ~dataUp'[i].live
  BY <1>1, <1>2, OrphanElements, Zenon
<1>5. NoLive'
  BY <1>3, <1>4, Zenon DEF NoLive, LiveAt
<1>6. NoResult'
  BY <1>2 DEF NoResult, ResultAt
<1> QED BY <1>2, <1>5, <1>6

(* Some frames are read. *)
LEMMA ReadFrames ==
    ASSUME TypeOK, NEW n \in 1..Len(dataDown), dataDown' = SubSeq(dataDown, n + 1, Len(dataDown))
    PROVE  \A i \in 1..Len(dataDown') :
              i + n \in 1..Len(dataDown) /\ i + n > n /\ dataDown'[i] = dataDown[i + n]
<1>1. dataDown \in Seq(FrameType) /\ Len(dataDown) \in Nat
  BY DEF TypeOK, FrameType
<1>2. Len(dataDown') = Len(dataDown) - n /\ \A i \in 1..(Len(dataDown) - n) : dataDown'[i] = dataDown[n + i]
  BY <1>1
<1> QED BY <1>1, <1>2

(* A frame is sent by the daemon. *)
LEMMA SentFrame ==
    ASSUME TypeOK, NEW f \in FrameType, dataDown' = Append(dataDown, f)
    PROVE  /\ \A i \in 1..Len(dataDown) : i \in 1..Len(dataDown') /\ dataDown'[i] = dataDown[i]
           /\ \A i \in 1..Len(dataDown') :
                 \/ i \in 1..Len(dataDown) /\ dataDown'[i] = dataDown[i]
                 \/ i = Len(dataDown) + 1 /\ dataDown'[i] = f
<1>1. dataDown \in Seq(FrameType) /\ Len(dataDown) \in Nat
  BY DEF TypeOK, FrameType
<1>2. /\ Len(dataDown') = Len(dataDown) + 1 /\ dataDown'[Len(dataDown) + 1] = f
      /\ \A i \in 1..Len(dataDown) : dataDown'[i] = dataDown[i]
  BY <1>1
<1> QED BY <1>1, <1>2

(* A packet is taken by the daemon. *)
LEMMA TakenPacket ==
    ASSUME TypeOK, dataUp # <<>>, dataUp' = Tail(dataUp)
    PROVE  /\ 1 \in 1..Len(dataUp) /\ Head(dataUp) = dataUp[1] /\ dataUp[1] \in UpType
           /\ \A i \in 1..Len(dataUp') :
                 i + 1 \in 1..Len(dataUp) /\ i + 1 # 1 /\ dataUp'[i] = dataUp[i + 1]
<1>1. dataUp \in Seq(UpType)
  BY DEF TypeOK, UpType
<1>2. /\ Len(dataUp) \in Nat /\ Len(dataUp) > 0 /\ Head(dataUp) = dataUp[1] /\ Head(dataUp) \in UpType
      /\ Len(dataUp') = Len(dataUp) - 1
      /\ \A i \in 1..(Len(dataUp) - 1) : dataUp'[i] = dataUp[i + 1]
  BY <1>1, HeadTail
<1> QED BY <1>2

(* The packets and the job after the daemon took the head. *)
LEMMA TakenLive ==
    ASSUME TypeOK, dataUp # <<>>, dataUp' = Tail(dataUp)
    PROVE  /\ \A i \in 1..Len(dataUp') : LiveAt(i)' => LiveAt(i + 1)
           /\ (\A i \in 1..Len(dataUp) : ~LiveAt(i)) => \A i \in 1..Len(dataUp') : ~LiveAt(i)'
<1>1. \A i \in 1..Len(dataUp') : i + 1 \in 1..Len(dataUp) /\ dataUp'[i] = dataUp[i + 1]
  BY TakenPacket
<1> QED BY <1>1, Zenon DEF LiveAt

(* Everything that ends all answers keeps Answer. *)
LEMMA AnswerNone ==
    ASSUME NoLive', NoResult', data' = "none" => dataDown' = <<>>
    PROVE  Answer'
<1>1. Awaited(Head(queue))'
  BY NothingAwaited, Zenon DEF NoLive, NoResult, Awaited
<1> QED BY <1>1 DEF Answer

(* The write of a packet. *)
LEMMA AnswerWrite ==
    ASSUME BaseInv, KnowsDaemon, Answer, Write
    PROVE  Answer'
<1>0. /\ TypeOK /\ Control /\ pc = "write" /\ ~Waiting /\ NoResult /\ (kind = "110" \/ NoLive)
      /\ UNCHANGED <<data, dataDown, job, kind, txresult, queue, status>>
  BY DEF BaseInv, Write, Waiting, Ending, Answer, daemonVars
<1>1. NoResult'
  BY <1>0 DEF NoResult, ResultAt
<1>2. dataUp \in Seq(UpType) /\ Len(dataUp) \in Nat
  BY <1>0 DEF TypeOK, UpType
<1>3. CASE /\ data = "up" /\ UNCHANGED outcome
           /\ dataUp' = Append(dataUp, [pkt |-> Head(queue), live |-> TRUE, whole |-> TRUE])
           /\ pc' = IF status.txresult = "on" THEN "wait"
                    ELSE IF status.tx_busy THEN "busy" ELSE "seek"
  <2>1. /\ Len(dataUp') = Len(dataUp) + 1
        /\ dataUp'[Len(dataUp) + 1] = [pkt |-> Head(queue), live |-> TRUE, whole |-> TRUE]
        /\ \A i \in 1..Len(dataUp) : dataUp'[i] = dataUp[i]
    BY <1>2, <1>3
  <2>2. CASE status.txresult = "on"
    <3>1. kind = "111"
      BY <1>0, <1>3, <2>2 DEF KnowsDaemon, Agreed, Truth, Sending
    <3>2. NoLive
      BY <1>0, <3>1
    <3>3. ASSUME NEW i \in 1..Len(dataUp'), LiveAt(i)'
          PROVE  i = Len(dataUp) + 1 /\ dataUp'[i].pkt = Head(queue)
      <4>1. CASE i \in 1..Len(dataUp)
        BY <2>1, <3>2, <3>3, <4>1, Zenon DEF NoLive, LiveAt
      <4>2. CASE i \notin 1..Len(dataUp)
        <5>1. i = Len(dataUp) + 1
          BY <1>2, <2>1, <4>2
        <5> QED BY <2>1, <5>1
      <4> QED BY <4>1, <4>2
    <3>4. ~job'.live
      BY <1>0, <3>2 DEF NoLive
    <3>5. Head(queue)' = Head(queue)
      BY <1>0
    <3>6. Awaited(Head(queue))'
      <4>1. \A i \in 1..Len(dataUp') : LiveAt(i)' => dataUp'[i].pkt = Head(queue)
        BY <3>3
      <4>2. \A i, j \in 1..Len(dataUp') : LiveAt(i)' /\ LiveAt(j)' => i = j
        BY <3>3
      <4>3. \A i \in 1..Len(dataDown') : ~ResultAt(i)'
        BY <1>1 DEF NoResult
      <4> QED BY <1>1, <3>4, <3>5, <4>1, <4>2, <4>3, Zenon DEF Awaited
    <3>7. pc' = "wait"
      BY <1>3, <2>2
    <3>8. data' = "up" /\ Waiting'
      BY <1>0, <1>3, <3>7 DEF Waiting
    <3> QED BY <3>6, <3>7, <3>8 DEF Answer
  <2>3. CASE status.txresult # "on"
    <3>1. kind' = "110" /\ data' = "up" /\ pc' # "wait"
      BY <1>0, <1>3, <2>3 DEF KnowsDaemon, Agreed, Sending
    <3> QED BY <1>1, <3>1 DEF Answer
  <2> QED BY <2>2, <2>3
<1>4. CASE /\ outcome' = "write" /\ pc' = "restore1"
           /\ \/ UNCHANGED dataUp
              \/ /\ data = "up"
                 /\ dataUp' = Append(dataUp, [pkt |-> Head(queue), live |-> TRUE, whole |-> FALSE])
  <2>1. NoLive => NoLive'
    <3>1. CASE UNCHANGED dataUp
      BY <1>0, <3>1, AnswerParts
    <3>2. CASE dataUp' = Append(dataUp, [pkt |-> Head(queue), live |-> TRUE, whole |-> FALSE])
      <4>1. /\ Len(dataUp') = Len(dataUp) + 1
            /\ dataUp'[Len(dataUp) + 1] = [pkt |-> Head(queue), live |-> TRUE, whole |-> FALSE]
            /\ \A i \in 1..Len(dataUp) : dataUp'[i] = dataUp[i]
        BY <1>2, <3>2
      <4>2. ~dataUp'[Len(dataUp) + 1].whole
        BY <4>1
      <4>3. \A i \in 1..Len(dataUp') : i \in 1..Len(dataUp) \/ i = Len(dataUp) + 1
        BY <1>2, <4>1
      <4>4. job' = job
        BY <1>0
      <4> QED BY <4>1, <4>2, <4>3, <4>4, Zenon DEF NoLive, LiveAt
    <3> QED BY <1>4, <3>1, <3>2
  <2>2. pc' # "wait" /\ ~Waiting' /\ data' = data /\ dataDown' = dataDown /\ kind' = kind
    BY <1>0, <1>4 DEF Waiting
  <2> QED BY <1>0, <1>1, <2>1, <2>2 DEF Answer
<1>5. \/ /\ data = "up" /\ UNCHANGED outcome
         /\ dataUp' = Append(dataUp, [pkt |-> Head(queue), live |-> TRUE, whole |-> TRUE])
         /\ pc' = IF status.txresult = "on" THEN "wait"
                  ELSE IF status.tx_busy THEN "busy" ELSE "seek"
      \/ /\ outcome' = "write" /\ pc' = "restore1"
         /\ \/ UNCHANGED dataUp
            \/ /\ data = "up"
               /\ dataUp' = Append(dataUp, [pkt |-> Head(queue), live |-> TRUE, whole |-> FALSE])
  BY Zenon DEF Write
<1> QED BY <1>3, <1>4, <1>5

(* A turn of wait_tx_result. *)
LEMMA AnswerRead ==
    ASSUME BaseInv, Answer, WaitRead
    PROVE  Answer'
<1>0. /\ TypeOK /\ pc = "wait" /\ Awaited(Head(queue)) /\ queue' = queue /\ dataUp' = dataUp
      /\ job' = job /\ kind' = kind /\ data' = data
  BY DEF BaseInv, WaitRead, Answer, daemonVars
<1>1. PICK n \in 1..Len(dataDown) :
         /\ dataDown' = SubSeq(dataDown, n + 1, Len(dataDown))
         /\ \/ /\ \A i \in 1..n : dataDown[i].type # "result"
               /\ UNCHANGED <<pc, outcome>>
            \/ \E i \in 1..n : FirstResult(n, i) /\ pc' = "restore1" /\ outcome' \in {"ok", "refused"}
  BY Zenon DEF WaitRead
<1>2. \A i \in 1..Len(dataDown') :
         i + n \in 1..Len(dataDown) /\ i + n > n /\ dataDown'[i] = dataDown[i + n]
  BY <1>0, <1>1, ReadFrames
<1>3. \A i \in 1..Len(dataDown') : ResultAt(i)' => ResultAt(i + n)
  BY <1>2 DEF ResultAt
<1>4. data' # "none"
  <2>1. dataDown # <<>>
    BY <1>0, <1>1 DEF TypeOK
  <2> QED BY <1>0, <2>1 DEF Answer
<1>5. \A i : LiveAt(i)' <=> LiveAt(i)
  BY <1>0 DEF LiveAt
<1>6. NoLive' <=> NoLive
  BY <1>0, <1>5 DEF NoLive
<1>7. NoResult => NoResult'
  BY <1>2, <1>3, Zenon DEF NoResult
<1>8. CASE UNCHANGED <<pc, outcome>>
  <2>1. Head(queue)' = Head(queue)
    BY <1>0
  <2>2. \A i \in 1..Len(dataDown') : ResultAt(i)' => dataDown'[i].pkt = Head(queue)
    BY <1>0, <1>2, <1>3, Zenon DEF Awaited
  <2>3. ASSUME NEW i \in 1..Len(dataDown'), NEW j \in 1..Len(dataDown'), ResultAt(i)', ResultAt(j)'
        PROVE  i = j
    <3>1. i + n = j + n
      BY <1>0, <1>2, <1>3, <2>3, Zenon DEF Awaited
    <3> QED BY <3>1
  <2>4. Awaited(Head(queue))'
    BY <1>0, <1>5, <1>7, <2>1, <2>2, <2>3, Zenon DEF Awaited
  <2>5. Waiting'
    BY <1>0, <1>8 DEF Waiting
  <2>6. data' # "up" => NoLive'
    BY <1>0, <1>6 DEF Answer
  <2> QED BY <1>4, <2>4, <2>5, <2>6 DEF Answer
<1>9. CASE \E i \in 1..n : FirstResult(n, i) /\ pc' = "restore1" /\ outcome' \in {"ok", "refused"}
  <2>1. PICK i \in 1..n : FirstResult(n, i) /\ pc' = "restore1" /\ outcome' \in {"ok", "refused"}
    BY <1>9
  <2>2. i \in 1..Len(dataDown) /\ ResultAt(i)
    BY <1>0, <2>1 DEF FirstResult, ResultAt, TypeOK
  <2>3. NoLive
    BY <1>0, <2>2, Zenon DEF Awaited, NoLive, NoResult
  <2>4. ASSUME NEW j \in 1..Len(dataDown'), ResultAt(j)' PROVE FALSE
    <3>1. j + n = i
      BY <1>0, <1>2, <1>3, <2>2, <2>4, Zenon DEF Awaited
    <3> QED BY <1>2, <3>1
  <2>5. NoResult'
    BY <2>4, Zenon DEF NoResult
  <2> QED BY <1>4, <1>6, <2>3, <2>5, AnswerNone
<1> QED BY <1>1, <1>8, <1>9

(* A step of the daemon that leaves the connections alone. *)
LEMMA AnswerServed ==
    ASSUME Answer, UNCHANGED <<pc, outcome, queue, data, kind>>,
           data = "none" => UNCHANGED dataDown,
           NoLive => NoLive',
           NoResult /\ (kind = "110" \/ NoLive) => NoResult',
           Awaited(Head(queue)) => Awaited(Head(queue))'
    PROVE  Answer'
<1>1. Waiting' <=> Waiting
  BY DEF Waiting
<1>2. pc' = pc /\ data' = data /\ kind' = kind
  OBVIOUS
<1> QED BY <1>1, <1>2 DEF Answer

LEMMA AnswerConf ==
    ASSUME BaseInv, Answer, DaemonConf, UNCHANGED <<pc, outcome, queue>>
    PROVE  Answer'
<1>1. /\ UNCHANGED <<data, kind, dataUp, dataDown>>
      /\ job \in JobType
      /\ job' = job \/ job' = [job EXCEPT !.freq = "none"]
  BY DEF BaseInv, TypeOK, JobType, DaemonConf
<1>2. job'.pkt = job.pkt
  BY <1>1 DEF JobType
<1>3. job'.live = job.live
  <2>1. [job EXCEPT !.freq = "none"].live = job.live
    BY <1>1, Zenon DEF JobType
  <2> QED BY <1>1, <2>1, Zenon
<1>4. (\A i : LiveAt(i)' <=> LiveAt(i)) /\ (\A i : ResultAt(i)' <=> ResultAt(i))
  BY <1>1 DEF LiveAt, ResultAt
<1>5. (NoLive => NoLive') /\ (NoResult <=> NoResult')
  BY <1>1, <1>3, <1>4 DEF NoLive, NoResult
<1>6. Awaited(Head(queue)) => Awaited(Head(queue))'
  <2>1. Head(queue)' = Head(queue) /\ dataUp' = dataUp /\ dataDown' = dataDown
    BY <1>1
  <2> QED BY <1>2, <1>3, <1>4, <1>5, <2>1, Zenon DEF Awaited
<1> QED BY <1>1, <1>5, <1>6, AnswerServed

LEMMA AnswerStart ==
    ASSUME BaseInv, Answer, DaemonStart, UNCHANGED <<pc, outcome, queue>>
    PROVE  Answer'
<1>1. /\ UNCHANGED <<data, kind, dataDown>> /\ TypeOK
      /\ dataUp # <<>> /\ dataUp' = Tail(dataUp) /\ Head(dataUp).whole
      /\ job' = [pkt |-> Head(dataUp).pkt, live |-> Head(dataUp).live, freq |-> radio]
  BY DEF BaseInv, DaemonStart
<1>2. /\ 1 \in 1..Len(dataUp) /\ Head(dataUp) = dataUp[1]
      /\ \A i \in 1..Len(dataUp') : i + 1 \in 1..Len(dataUp) /\ i + 1 # 1 /\ dataUp'[i] = dataUp[i + 1]
      /\ \A i \in 1..Len(dataUp') : LiveAt(i)' => LiveAt(i + 1)
      /\ (\A i \in 1..Len(dataUp) : ~LiveAt(i)) => \A i \in 1..Len(dataUp') : ~LiveAt(i)'
  BY <1>1, TakenPacket, TakenLive
<1>3. job'.live <=> LiveAt(1)
  <2>1. job'.live = dataUp[1].live
    BY <1>1, <1>2
  <2> QED BY <1>1, <1>2, <2>1, Zenon DEF LiveAt
<1>4. job'.pkt = dataUp[1].pkt
  BY <1>1, <1>2
<1>5. NoResult' <=> NoResult
  BY <1>1 DEF NoResult, ResultAt
<1>6. NoLive => NoLive'
  BY <1>2, <1>3, Zenon DEF NoLive
<1>7. ASSUME Awaited(Head(queue)) PROVE Awaited(Head(queue))'
  <2> DEFINE p == Head(queue)
  <2>0. Head(queue)' = p
    OBVIOUS
  <2> HIDE DEF p
  <2>a. Awaited(p)
    BY <1>7 DEF p
  <2>1. ASSUME NEW i \in 1..Len(dataUp'), LiveAt(i)'
        PROVE  dataUp'[i].pkt = p /\ ~job'.live /\ NoResult'
    <3>1. i + 1 \in 1..Len(dataUp) /\ LiveAt(i + 1) /\ i + 1 # 1 /\ dataUp'[i] = dataUp[i + 1]
      BY <1>2, <2>1
    <3>2. dataUp[i + 1].pkt = p /\ NoResult /\ (LiveAt(1) => i + 1 = 1)
      BY <1>2, <2>a, <3>1, Zenon DEF Awaited
    <3> QED BY <1>3, <1>5, <3>1, <3>2
  <2>2. ASSUME NEW i \in 1..Len(dataUp'), NEW j \in 1..Len(dataUp'), LiveAt(i)', LiveAt(j)'
        PROVE  i = j
    <3>1. i + 1 = j + 1
      BY <1>2, <2>a, <2>2, Zenon DEF Awaited
    <3> QED BY <3>1
  <2>3. job'.live => job'.pkt = p /\ NoResult'
    BY <1>2, <1>3, <1>4, <1>5, <2>a, Zenon DEF Awaited
  <2>4. dataDown' = dataDown /\ \A i : ResultAt(i)' <=> ResultAt(i)
    BY <1>1 DEF ResultAt
  <2> QED BY <2>0, <2>a, <2>1, <2>2, <2>3, <2>4, Zenon DEF Awaited
<1> QED BY <1>1, <1>5, <1>6, <1>7, AnswerServed

(* A frame that is no result leaves the results as they are. *)
LEMMA OtherFrame ==
    ASSUME TypeOK, NEW f \in FrameType, f.type # "result",
           dataDown' = dataDown \/ dataDown' = Append(dataDown, f)
    PROVE  /\ \A i \in 1..Len(dataDown') :
                 ResultAt(i)' => i \in 1..Len(dataDown) /\ ResultAt(i) /\ dataDown'[i] = dataDown[i]
           /\ NoResult => NoResult'
<1>1. ASSUME NEW i \in 1..Len(dataDown'), ResultAt(i)'
      PROVE  i \in 1..Len(dataDown) /\ ResultAt(i) /\ dataDown'[i] = dataDown[i]
  <2>1. CASE dataDown' = dataDown
    BY <1>1, <2>1 DEF ResultAt
  <2>2. CASE dataDown' = Append(dataDown, f)
    <3>1. (i \in 1..Len(dataDown) /\ dataDown'[i] = dataDown[i]) \/ dataDown'[i] = f
      BY <2>2, SentFrame
    <3> QED BY <1>1, <3>1 DEF ResultAt
  <2> QED BY <2>1, <2>2
<1>2. NoResult => NoResult'
  BY <1>1, Zenon DEF NoResult
<1> QED BY <1>1, <1>2

(* The first result. *)
LEMMA FirstAnswer ==
    ASSUME TypeOK, NEW p, NEW f \in FrameType, f.pkt = p, dataDown' = Append(dataDown, f), NoResult
    PROVE  /\ \A i \in 1..Len(dataDown') : ResultAt(i)' => dataDown'[i].pkt = p
           /\ \A i, j \in 1..Len(dataDown') : ResultAt(i)' /\ ResultAt(j)' => i = j
<1>1. ASSUME NEW i \in 1..Len(dataDown'), ResultAt(i)'
      PROVE  i = Len(dataDown) + 1 /\ dataDown'[i].pkt = p
  <2>1. \/ i \in 1..Len(dataDown) /\ dataDown'[i] = dataDown[i]
        \/ i = Len(dataDown) + 1 /\ dataDown'[i] = f
    BY SentFrame
  <2>2. ~ResultAt(i)
    BY DEF NoResult, ResultAt
  <2> QED BY <1>1, <2>1, <2>2 DEF ResultAt
<1> QED BY <1>1

LEMMA AnswerRefuse ==
    ASSUME BaseInv, KnowsDaemon, Answer, DaemonRefuse, UNCHANGED <<pc, outcome, queue>>
    PROVE  Answer'
<1> DEFINE e == ErrorFrame(dataUp[1].pkt)
           r == ResultFrame(dataUp[1].pkt, FALSE)
<1>1. /\ UNCHANGED <<data, kind, job>> /\ TypeOK
      /\ dataUp # <<>> /\ dataUp' = Tail(dataUp) /\ Head(dataUp).whole
      /\ dataDown' = ToData(Head(dataUp).live, IF txresult THEN ResultFrame(Head(dataUp).pkt, FALSE)
                                               ELSE ErrorFrame(Head(dataUp).pkt))
  BY DEF BaseInv, DaemonRefuse, daemonVars
<1>2. /\ 1 \in 1..Len(dataUp) /\ Head(dataUp) = dataUp[1] /\ dataUp[1] \in UpType
      /\ \A i \in 1..Len(dataUp') : i + 1 \in 1..Len(dataUp) /\ i + 1 # 1 /\ dataUp'[i] = dataUp[i + 1]
      /\ \A i \in 1..Len(dataUp') : LiveAt(i)' => LiveAt(i + 1)
      /\ (\A i \in 1..Len(dataUp) : ~LiveAt(i)) => \A i \in 1..Len(dataUp') : ~LiveAt(i)'
  BY <1>1, TakenPacket, TakenLive
<1>3. e \in FrameType /\ r \in FrameType
  BY <1>2, ConstantTypes DEF UpType
<1>4. e.type # "result" /\ r.pkt = dataUp[1].pkt
  BY DEF ErrorFrame, ResultFrame
<1>5. \/ dataDown' = dataDown \/ dataDown' = Append(dataDown, e)
      \/ dataDown' = Append(dataDown, r) /\ LiveAt(1) /\ txresult /\ data = "up"
  BY <1>1, <1>2, Zenon DEF ToData, LiveAt
<1>a. data = "none" => dataDown' = dataDown
  BY <1>1 DEF ToData
<1>b. txresult => kind # "110"
  BY DEF KnowsDaemon, Truth
<1> HIDE DEF e, r
<1>6. NoLive => NoLive'
  BY <1>1, <1>2, Zenon DEF NoLive
<1>7. CASE dataDown' = dataDown \/ dataDown' = Append(dataDown, e)
  <2>1. /\ \A i \in 1..Len(dataDown') :
              ResultAt(i)' => i \in 1..Len(dataDown) /\ ResultAt(i) /\ dataDown'[i] = dataDown[i]
        /\ NoResult => NoResult'
    BY <1>1, <1>3, <1>4, <1>7, OtherFrame
  <2>2. ASSUME Awaited(Head(queue)) PROVE Awaited(Head(queue))'
    <3> DEFINE p == Head(queue)
    <3>0. Head(queue)' = p /\ job' = job
      BY <1>1
    <3> HIDE DEF p
    <3>a. Awaited(p)
      BY <2>2 DEF p
    <3>1. ASSUME NEW i \in 1..Len(dataUp'), LiveAt(i)'
          PROVE  dataUp'[i].pkt = p /\ ~job'.live /\ NoResult'
      <4>1. i + 1 \in 1..Len(dataUp) /\ LiveAt(i + 1) /\ dataUp'[i] = dataUp[i + 1]
        BY <1>2, <3>1
      <4>2. dataUp[i + 1].pkt = p /\ ~job.live /\ NoResult
        BY <3>a, <4>1, Zenon DEF Awaited
      <4> QED BY <2>1, <3>0, <4>1, <4>2
    <3>2. ASSUME NEW i \in 1..Len(dataUp'), NEW j \in 1..Len(dataUp'), LiveAt(i)', LiveAt(j)'
          PROVE  i = j
      <4>1. i + 1 = j + 1
        BY <1>2, <3>a, <3>2, Zenon DEF Awaited
      <4> QED BY <4>1
    <3>3. job'.live => job'.pkt = p /\ NoResult'
      BY <2>1, <3>0, <3>a, Zenon DEF Awaited
    <3>4. \A i \in 1..Len(dataDown') : ResultAt(i)' => dataDown'[i].pkt = p
      BY <2>1, <3>a, Zenon DEF Awaited
    <3>5. \A i, j \in 1..Len(dataDown') : ResultAt(i)' /\ ResultAt(j)' => i = j
      BY <2>1, <3>a, Zenon DEF Awaited
    <3> QED BY <3>0, <3>1, <3>2, <3>3, <3>4, <3>5, Zenon DEF Awaited
  <2> QED BY <1>1, <1>a, <1>6, <2>1, <2>2, AnswerServed
<1>8. CASE dataDown' = Append(dataDown, r) /\ LiveAt(1) /\ txresult /\ data = "up"
  <2>1. ASSUME Awaited(Head(queue)) PROVE Awaited(Head(queue))'
    <3> DEFINE p == Head(queue)
    <3>0. Head(queue)' = p /\ job' = job
      BY <1>1
    <3> HIDE DEF p
    <3>a. Awaited(p)
      BY <2>1 DEF p
    <3>1. dataUp[1].pkt = p /\ ~job.live /\ NoResult
      BY <1>2, <1>8, <3>a, Zenon DEF Awaited
    <3>2. ASSUME NEW i \in 1..Len(dataUp'), LiveAt(i)' PROVE FALSE
      <4>1. i + 1 = 1
        BY <1>2, <1>8, <3>a, <3>2, Zenon DEF Awaited
      <4> QED BY <1>2, <4>1
    <3>3. /\ \A i \in 1..Len(dataDown') : ResultAt(i)' => dataDown'[i].pkt = p
          /\ \A i, j \in 1..Len(dataDown') : ResultAt(i)' /\ ResultAt(j)' => i = j
      <4>1. r.pkt = p
        BY <1>4, <3>1
      <4>2. NoResult /\ TypeOK /\ r \in FrameType /\ dataDown' = Append(dataDown, r)
        BY <1>1, <1>3, <1>8, <3>1
      <4> QED BY <4>1, <4>2, FirstAnswer
    <3> QED BY <3>0, <3>1, <3>2, <3>3, Zenon DEF Awaited
  <2>2. ~(kind = "110" \/ NoLive)
    BY <1>2, <1>b, <1>8, Zenon DEF NoLive
  <2> QED BY <1>1, <1>a, <1>6, <2>1, <2>2, AnswerServed
<1> QED BY <1>5, <1>7, <1>8

LEMMA AnswerDone ==
    ASSUME BaseInv, KnowsDaemon, Answer, DaemonDone, UNCHANGED <<pc, outcome, queue>>
    PROVE  Answer'
<1> DEFINE r == ResultFrame(job.pkt, TRUE)
<1>1. /\ UNCHANGED <<data, kind, dataUp>> /\ TypeOK /\ job.pkt \in Packets /\ job' = NoJob
      /\ dataDown' = IF txresult THEN ToData(job.live, ResultFrame(job.pkt, TRUE)) ELSE dataDown
  BY DEF BaseInv, JobIsPacket, DaemonDone
<1>2. r \in FrameType /\ r.pkt = job.pkt
  BY <1>1, ConstantTypes DEF ResultFrame
<1>3. \/ dataDown' = dataDown
      \/ dataDown' = Append(dataDown, r) /\ job.live /\ txresult
  BY <1>1, Zenon DEF ToData
<1>a. data = "none" => dataDown' = dataDown
  BY <1>1 DEF ToData
<1>b. txresult => kind # "110"
  BY DEF KnowsDaemon, Truth
<1> HIDE DEF r
<1>4. ~job'.live
  BY <1>1 DEF NoJob
<1>5. dataUp' = dataUp /\ \A i : LiveAt(i)' <=> LiveAt(i)
  BY <1>1 DEF LiveAt
<1>6. NoLive => NoLive'
  BY <1>4, <1>5, Zenon DEF NoLive
<1>7. CASE dataDown' = dataDown
  <2>1. (\A i : ResultAt(i)' <=> ResultAt(i)) /\ (NoResult' <=> NoResult)
    BY <1>7 DEF ResultAt, NoResult
  <2>2. Awaited(Head(queue)) => Awaited(Head(queue))'
    <3>1. Head(queue)' = Head(queue)
      OBVIOUS
    <3> QED BY <1>4, <1>5, <1>7, <2>1, <3>1, Zenon DEF Awaited
  <2> QED BY <1>1, <1>6, <1>7, <2>1, <2>2, AnswerServed
<1>8. CASE dataDown' = Append(dataDown, r) /\ job.live /\ txresult
  <2>1. ASSUME Awaited(Head(queue)) PROVE Awaited(Head(queue))'
    <3> DEFINE p == Head(queue)
    <3>0. Head(queue)' = p
      OBVIOUS
    <3> HIDE DEF p
    <3>a. Awaited(p)
      BY <2>1 DEF p
    <3>1. job.pkt = p /\ NoResult /\ \A i \in 1..Len(dataUp') : ~LiveAt(i)'
      BY <1>5, <1>8, <3>a, Zenon DEF Awaited
    <3>2. /\ \A i \in 1..Len(dataDown') : ResultAt(i)' => dataDown'[i].pkt = p
          /\ \A i, j \in 1..Len(dataDown') : ResultAt(i)' /\ ResultAt(j)' => i = j
      <4>1. NoResult /\ TypeOK /\ r \in FrameType /\ dataDown' = Append(dataDown, r) /\ r.pkt = p
        BY <1>1, <1>2, <1>8, <3>1
      <4> QED BY <4>1, FirstAnswer
    <3> QED BY <1>4, <3>0, <3>1, <3>2, Zenon DEF Awaited
  <2>2. ~(kind = "110" \/ NoLive)
    BY <1>b, <1>8, Zenon DEF NoLive
  <2> QED BY <1>1, <1>a, <1>6, <2>1, <2>2, AnswerServed
<1> QED BY <1>3, <1>7, <1>8

LEMMA AnswerReceive ==
    ASSUME BaseInv, Answer, DaemonReceive, UNCHANGED <<pc, outcome, queue>>
    PROVE  Answer'
<1>1. /\ UNCHANGED <<data, kind, dataUp, job>> /\ TypeOK /\ data = "up"
      /\ dataDown' = Append(dataDown, RxFrame)
  BY DEF BaseInv, DaemonReceive, daemonVars
<1>2. RxFrame \in FrameType /\ RxFrame.type # "result"
  BY ConstantTypes DEF RxFrame
<1>3. /\ \A i \in 1..Len(dataDown') :
            ResultAt(i)' => i \in 1..Len(dataDown) /\ ResultAt(i) /\ dataDown'[i] = dataDown[i]
      /\ NoResult => NoResult'
  BY <1>1, <1>2, OtherFrame
<1>4. dataUp' = dataUp /\ job' = job /\ \A i : LiveAt(i)' <=> LiveAt(i)
  BY <1>1 DEF LiveAt
<1>5. NoLive => NoLive'
  BY <1>4, Zenon DEF NoLive
<1>6. ASSUME Awaited(Head(queue)) PROVE Awaited(Head(queue))'
  <2> DEFINE p == Head(queue)
  <2>0. Head(queue)' = p
    OBVIOUS
  <2> HIDE DEF p
  <2>a. Awaited(p)
    BY <1>6 DEF p
  <2>1. \A i \in 1..Len(dataDown') : ResultAt(i)' => dataDown'[i].pkt = p
    BY <1>3, <2>a, Zenon DEF Awaited
  <2>2. \A i, j \in 1..Len(dataDown') : ResultAt(i)' /\ ResultAt(j)' => i = j
    BY <1>3, <2>a, Zenon DEF Awaited
  <2> QED BY <1>3, <1>4, <2>0, <2>a, <2>1, <2>2, Zenon DEF Awaited
<1> QED BY <1>1, <1>3, <1>5, <1>6, AnswerServed

(* The connection ends on the daemon's side. *)
LEMMA AnswerEnds ==
    ASSUME Answer, NoLive', UNCHANGED <<pc, outcome, queue, dataDown>>,
           data' = "none" => data = "none"
    PROVE  Answer'
<1>1. pc' = pc /\ (Waiting' <=> Waiting) /\ dataDown' = dataDown
  BY DEF Waiting
<1>2. NoResult' <=> NoResult
  BY <1>1 DEF NoResult, ResultAt
<1>3. Awaited(Head(queue)) => Awaited(Head(queue))'
  BY AwaitedCut
<1> QED BY <1>1, <1>2, <1>3 DEF Answer

LEMMA AnswerFault ==
    ASSUME BaseInv, PartAtEnd, KnowsDaemon, Answer, UNCHANGED <<pc, outcome, queue>>,
           DaemonClosesData \/ DaemonCrash \/ DaemonBoot
    PROVE  Answer'
<1>0. TypeOK /\ job \in JobType /\ dataUp \in Seq(UpType)
  BY DEF BaseInv, TypeOK, JobType, UpType
<1>1. CASE DaemonClosesData
  <2>1. /\ data = "up" /\ data' = "dead" /\ dataDown' = dataDown
        /\ job' = [job EXCEPT !.live = FALSE]
    BY <1>1 DEF DaemonClosesData
  <2>2. PICK k \in 0..Len(dataUp) :
           /\ \A i \in DOMAIN dataUp : dataUp[i].live <=> i > k
           /\ dataUp' = SubSeq(dataUp, 1, k)
    BY <1>1 DEF DaemonClosesData
  <2>3. \A i \in 1..Len(dataUp) : ~dataUp[i].whole => dataUp[i].live
    BY DEF PartAtEnd, Parts
  <2>4. Len(dataUp') = k /\ \A i \in 1..k : dataUp'[i] = dataUp[i] /\ ~dataUp[i].live
    BY <1>0, <2>2, <2>3, PartsCut
  <2>5. ~job'.live
    <3>1. job'.live = FALSE
      BY <1>0, <2>1, EndOfJob, Zenon
    <3> QED BY <3>1
  <2>6. NoLive'
    BY <2>4, <2>5, Zenon DEF NoLive, LiveAt
  <2> QED BY <2>1, <2>6, AnswerEnds
<1>2. CASE DaemonCrash
  <2>1. /\ dataUp' = <<>> /\ job' = NoJob /\ dataDown' = dataDown
        /\ data' = IF data = "up" THEN "dead" ELSE data
    BY <1>2 DEF DaemonCrash
  <2>2. NoLive'
    BY <2>1 DEF NoLive, LiveAt, NoJob
  <2> QED BY <2>1, <2>2, AnswerEnds
<1>3. CASE DaemonBoot
  <2>1. UNCHANGED <<data, dataUp, dataDown, job>> /\ data # "up"
    BY <1>3 DEF DaemonBoot, linkVars, KnowsDaemon, Off
  <2>2. NoLive'
    BY <2>1, AnswerParts DEF Answer
  <2> QED BY <2>1, <2>2, AnswerEnds
<1> QED BY <1>1, <1>2, <1>3

LEMMA StepAnswer ==
    ASSUME BaseInv, PartAtEnd, KnowsDaemon, Answer, [Next]_vars
    PROVE  Answer'
<1>0. TypeOK
  BY DEF BaseInv
<1>1. CASE CloseData
  BY <1>0, <1>1, ClosedNoLive, AnswerNone
<1>2. CASE /\ UNCHANGED <<dataUp, dataDown, job, kind>> /\ data = "none"
           /\ pc \notin AwayPCs \union {"return"} /\ pc' \in {"loop", "exit"}
  <2>1. NoLive /\ NoResult /\ dataDown = <<>>
    BY <1>2 DEF Answer, NoResult, ResultAt
  <2> QED BY <1>2, <2>1, AnswerParts, AnswerNone
<1>3. CASE /\ SelectReady /\ UNCHANGED <<data, dataUp, job, kind>> /\ pc' = "loop"
           /\ \E n \in 1..Len(dataDown) : dataDown' = SubSeq(dataDown, n + 1, Len(dataDown))
  <2>1. PICK n \in 1..Len(dataDown) : dataDown' = SubSeq(dataDown, n + 1, Len(dataDown))
    BY <1>3
  <2>2. pc = "select" /\ ~Waiting /\ ~Waiting'
    BY <1>3 DEF SelectReady, Waiting, Ending
  <2>3. \A i \in 1..Len(dataDown') : i + n \in 1..Len(dataDown) /\ dataDown'[i] = dataDown[i + n]
    BY <1>0, <2>1, ReadFrames
  <2>4. NoResult
    BY <2>2 DEF Answer
  <2>5. NoResult'
    BY <2>3, <2>4, Zenon DEF NoResult, ResultAt
  <2>6. NoLive' <=> NoLive
    BY <1>3 DEF NoLive, LiveAt
  <2>7. data # "none"
    <3>1. dataDown # <<>>
      BY <1>0, <2>1 DEF TypeOK
    <3> QED BY <3>1 DEF Answer
  <2> QED BY <1>3, <2>2, <2>5, <2>6, <2>7 DEF Answer
<1>4. CASE /\ UNCHANGED <<data, dataUp, dataDown, job, kind>>
           /\ Waiting' <=> Waiting
           /\ pc' = "wait" => pc = "wait" /\ UNCHANGED queue
  <2>1. /\ NoLive' <=> NoLive
        /\ NoResult' <=> NoResult
        /\ UNCHANGED queue => (Awaited(Head(queue))' <=> Awaited(Head(queue)))
    BY <1>4, AnswerParts
  <2> QED BY <1>4, <2>1 DEF Answer
<1> QED BY <1>1, <1>2, <1>3, <1>4, DataSteps, AnswerWrite, AnswerRead, AnswerConf, AnswerStart,
           AnswerRefuse, AnswerDone, AnswerReceive, AnswerFault

(* While the bridge waits there is one answer at most and it is about the  *)
(* packet at the head; at all other times there is none, but for a daemon  *)
(* without TX_RESULT, that sends none.                                     *)
LEMMA AnswerInvariant == Spec => []Answer
<1>1. ASSUME Init PROVE Answer
  <2>1. /\ dataUp = <<>> /\ dataDown = <<>> /\ job = NoJob /\ pc = "start"
    BY <1>1 DEF Init, DaemonInit
  <2>2. NoLive /\ NoResult
    BY <2>1 DEF NoLive, NoResult, LiveAt, ResultAt, NoJob
  <2> QED BY <2>1, <2>2 DEF Answer
<1>2. BaseInv /\ PartAtEnd /\ KnowsDaemon /\ Answer /\ [Next]_vars => Answer'
  BY StepAnswer
<1> QED BY <1>1, <1>2, BaseInvariant, PartsInvariant, KnowsInvariant, PTL DEF Spec

-----------------------------------------------------------------------------
(* The way of a packet: written, waiting at the daemon, on the air *)

InSent(p) == \E i \in 1..Len(sent) : sent[i] = p
WholeAt(i) == i \in 1..Len(dataUp) /\ dataUp[i].whole
InUp(p) == \E i \in 1..Len(dataUp) : WholeAt(i) /\ dataUp[i].pkt = p
OnAir(p) == \E f \in Freqs : <<p, f>> \in air

(* The packet was written, is not on its way any more and was not sent. *)
Gone(p) == InSent(p) /\ ~InUp(p) /\ job.pkt # p /\ ~OnAir(p)

(* A packet is in one of the places only, and in none before it is written. *)
Passage ==
    /\ \A i, j \in 1..Len(dataUp) : WholeAt(i) /\ WholeAt(j) /\ dataUp[i].pkt = dataUp[j].pkt => i = j
    /\ \A p \in Packets : InUp(p) => InSent(p) /\ job.pkt # p /\ ~OnAir(p)
    /\ \A p \in Packets : job.pkt = p => InSent(p) /\ ~OnAir(p)
    /\ \A p \in Packets : OnAir(p) => InSent(p)

GoneStays == \A p \in Packets : Gone(p) => Gone(p)'

(* Packets are taken off the front or cut off the end, and the job ends,   *)
(* or nothing of this changes.                                             *)
LEMMA PassageServed ==
    ASSUME Passage, NEW d \in Nat,
           \A i \in 1..Len(dataUp') : WholeAt(i)' =>
              i + d \in 1..Len(dataUp) /\ WholeAt(i + d) /\ dataUp'[i].pkt = dataUp[i + d].pkt,
           job'.pkt = job.pkt \/ job'.pkt = 0, UNCHANGED <<sent, air>>
    PROVE  Passage' /\ GoneStays
<1>1. \A p : (InSent(p)' <=> InSent(p)) /\ (OnAir(p)' <=> OnAir(p))
  BY DEF InSent, OnAir
<1>2. \A p \in Packets : p # 0
  BY PacketsAssumption
<1>3. \A p : InUp(p)' => InUp(p)
  BY Zenon DEF InUp
<1>4. ASSUME NEW i \in 1..Len(dataUp'), NEW j \in 1..Len(dataUp'), WholeAt(i)', WholeAt(j)',
             dataUp'[i].pkt = dataUp'[j].pkt
      PROVE  i = j
  <2>1. i + d = j + d
    BY <1>4, Zenon DEF Passage
  <2> QED BY <2>1
<1>5. \A p \in Packets : job'.pkt = p => job.pkt = p
  BY <1>2
<1>6. Passage'
  BY <1>1, <1>3, <1>4, <1>5, Zenon DEF Passage
<1>7. GoneStays
  BY <1>1, <1>3, <1>5, Zenon DEF Gone, GoneStays
<1> QED BY <1>6, <1>7

(* The packet that is written was not written before. *)
LEMMA WriteFacts ==
    ASSUME BaseInv, QueueOrder, Write
    PROVE  /\ Head(queue) \in Packets /\ \A p : p = Head(queue) => ~InSent(p)
           /\ \A p : InSent(p) => InSent(p)'
           /\ \A p : InUp(p)' => InUp(p) \/ (p = Head(queue) /\ pc' \in Awaiting)
           /\ \A p : pc' \in Awaiting /\ p = Head(queue) => InSent(p)'
           /\ \A i \in 1..Len(dataUp') : WholeAt(i)' =>
                 \/ i \in 1..Len(dataUp) /\ WholeAt(i) /\ dataUp'[i].pkt = dataUp[i].pkt
                 \/ i = Len(dataUp) + 1 /\ dataUp'[i].pkt = Head(queue) /\ pc' \in Awaiting
<1> DEFINE h == Head(queue)
<1>0. /\ TypeOK /\ pc = "write" /\ queue # <<>> /\ dataUp \in Seq(UpType) /\ Len(dataUp) \in Nat
  BY DEF BaseInv, Write, Control, Sending, TypeOK, UpType
<1>1. /\ h = queue[1] /\ 1 \in 1..Len(queue) /\ h \in Packets /\ sent \in Seq(Packets)
  BY <1>0, HeadTail DEF TypeOK
<1>2. ~InFlight
  BY <1>0 DEF InFlight, Awaiting, Ending
<1>3. \A i \in 1..Len(sent) : sent[i] < h
  BY <1>1, <1>2 DEF QueueOrder
<1>4. PICK w \in BOOLEAN :
         /\ sent' = IF w THEN Append(sent, h) ELSE sent
         /\ w <=> pc' \in Awaiting
         /\ dataUp' = dataUp \/ dataUp' = Append(dataUp, [pkt |-> h, live |-> TRUE, whole |-> w])
  <2>1. CASE /\ dataUp' = Append(dataUp, [pkt |-> h, live |-> TRUE, whole |-> TRUE])
             /\ sent' = Append(sent, h)
             /\ pc' = IF status.txresult = "on" THEN "wait"
                      ELSE IF status.tx_busy THEN "busy" ELSE "seek"
    <3>1. pc' \in Awaiting
      BY <2>1 DEF Awaiting
    <3> QED BY <2>1, <3>1
  <2>2. CASE /\ UNCHANGED sent /\ pc' = "restore1"
             /\ \/ UNCHANGED dataUp
                \/ dataUp' = Append(dataUp, [pkt |-> h, live |-> TRUE, whole |-> FALSE])
    <3>1. pc' \notin Awaiting
      BY <2>2 DEF Awaiting
    <3> QED BY <2>2, <3>1
  <2> QED BY <2>1, <2>2, Zenon DEF Write
<1>5. \A i \in 1..Len(sent) : sent[i] \in Nat
  BY <1>1, NaturalElements
<1>6. h \in Nat
  BY <1>1, PacketsAssumption
<1> HIDE DEF h
<1>7. \A p : p = h => ~InSent(p)
  BY <1>3, <1>5, <1>6 DEF InSent
<1>8. \A p : InSent(p) => InSent(p)'
  <2>1. \A i \in 1..Len(sent) : i \in 1..Len(sent') /\ sent'[i] = sent[i]
    BY <1>1, <1>4
  <2> QED BY <2>1 DEF InSent
<1>9. \A p : pc' \in Awaiting /\ p = h => InSent(p)'
  <2>1. pc' \in Awaiting => Len(sent) + 1 \in 1..Len(sent') /\ sent'[Len(sent) + 1] = h
    BY <1>1, <1>4
  <2> QED BY <2>1 DEF InSent
<1>10. ASSUME NEW i \in 1..Len(dataUp'), WholeAt(i)'
       PROVE  \/ i \in 1..Len(dataUp) /\ WholeAt(i) /\ dataUp'[i].pkt = dataUp[i].pkt
              \/ i = Len(dataUp) + 1 /\ dataUp'[i].pkt = h /\ pc' \in Awaiting
  <2>1. CASE dataUp' = dataUp
    BY <1>10, <2>1 DEF WholeAt
  <2>2. CASE dataUp' = Append(dataUp, [pkt |-> h, live |-> TRUE, whole |-> w])
    <3>1. /\ Len(dataUp') = Len(dataUp) + 1
          /\ dataUp'[Len(dataUp) + 1] = [pkt |-> h, live |-> TRUE, whole |-> w]
          /\ \A k \in 1..Len(dataUp) : dataUp'[k] = dataUp[k]
      BY <1>0, <2>2
    <3>2. CASE i \in 1..Len(dataUp)
      BY <1>10, <3>1, <3>2, Zenon DEF WholeAt
    <3>3. CASE i \notin 1..Len(dataUp)
      <4>1. i = Len(dataUp) + 1
        BY <1>0, <3>1, <3>3
      <4>2. dataUp'[i].pkt = h /\ dataUp'[i].whole = w
        BY <3>1, <4>1
      <4>3. w
        BY <1>10, <4>2, Zenon DEF WholeAt
      <4> QED BY <1>4, <4>1, <4>2, <4>3, Zenon
    <3> QED BY <3>2, <3>3
  <2> QED BY <1>4, <2>1, <2>2
<1>11. \A p : InUp(p)' => InUp(p) \/ (p = h /\ pc' \in Awaiting)
  BY <1>10, Zenon DEF InUp
<1> QED BY <1>1, <1>7, <1>8, <1>9, <1>10, <1>11, Zenon DEF h

LEMMA PassageWrite ==
    ASSUME BaseInv, QueueOrder, Passage, Write
    PROVE  Passage' /\ GoneStays
<1> DEFINE h == Head(queue)
<1>1. job' = job /\ air' = air
  BY DEF Write, daemonVars
<1>2. /\ h \in Packets /\ \A p : p = h => ~InSent(p)
      /\ \A p : InSent(p) => InSent(p)'
      /\ \A p : InUp(p)' => InUp(p) \/ (p = h /\ pc' \in Awaiting)
      /\ \A p : pc' \in Awaiting /\ p = h => InSent(p)'
      /\ \A i \in 1..Len(dataUp') : WholeAt(i)' =>
            \/ i \in 1..Len(dataUp) /\ WholeAt(i) /\ dataUp'[i].pkt = dataUp[i].pkt
            \/ i = Len(dataUp) + 1 /\ dataUp'[i].pkt = h /\ pc' \in Awaiting
  BY WriteFacts
<1> HIDE DEF h
<1>3. \A p : OnAir(p)' <=> OnAir(p)
  BY <1>1 DEF OnAir
<1>4. \A p : p = h => ~OnAir(p) /\ job.pkt # p /\ ~InUp(p)
  BY <1>2, Zenon DEF Passage
<1>5. \A i \in 1..Len(dataUp) : WholeAt(i) => dataUp[i].pkt # h
  BY <1>4, Zenon DEF InUp
<1>6. \A i, j \in 1..Len(dataUp') :
         WholeAt(i)' /\ WholeAt(j)' /\ dataUp'[i].pkt = dataUp'[j].pkt => i = j
  BY <1>2, <1>5, Zenon DEF Passage
<1>7. Passage'
  BY <1>1, <1>2, <1>3, <1>4, <1>6, Zenon DEF Passage
<1>8. GoneStays
  BY <1>1, <1>2, <1>3, Zenon DEF Gone, GoneStays
<1> QED BY <1>7, <1>8

(* Who writes the histories. *)
LEMMA HistorySteps ==
    ASSUME [Next]_vars
    PROVE  /\ Write \/ UNCHANGED sent
           /\ WaitRead \/ UNCHANGED verdict
           /\ DaemonDone \/ DaemonCrash \/ UNCHANGED air
           /\ WaitRead \/ WaitLost \/ ConfirmRead \/ ConfirmTimeout \/ UNCHANGED rflog
<1> USE DEF daemonVars
<1>1. CASE BridgeStep
  <2>1. UNCHANGED air
    BY <1>1, BridgeKeeps
  <2>2. /\ Write \/ UNCHANGED sent
        /\ WaitRead \/ UNCHANGED verdict
        /\ WaitRead \/ WaitLost \/ ConfirmRead \/ ConfirmTimeout \/ UNCHANGED rflog
    BY <1>1 DEF BridgeStep, Transmit, Start, StartConfig, StartData, Loop, DrainReads,
       DrainEmpty, DrainBlocked, DrainDisabled, DrainDrop, DrainWait, DrainSend, Return,
       SendNoFreq, Switch, Settle, Write, WaitLost, ConfirmRead, ConfirmTimeout,
       RestoreDone, RestoreFail, RestoreGiveUp, SelectReady, SelectInterrupted, SelectTimeout, Timeout,
       WaitRead
  <2> QED BY <2>1, <2>2
<1>2. CASE DaemonStep
  <2>1. UNCHANGED <<sent, verdict, rflog>>
    BY <1>2 DEF DaemonStep, bridgeVars
  <2>2. DaemonDone \/ DaemonCrash \/ UNCHANGED air
    BY <1>2 DEF DaemonStep, DaemonConf, DaemonStart, DaemonRefuse, DaemonReceive, DaemonClosesConf,
       DaemonClosesData, DaemonBoot
  <2> QED BY <2>1, <2>2
<1>3. CASE Signal \/ UNCHANGED vars
  BY <1>3 DEF Signal, vars, bridgeVars
<1> QED BY <1>1, <1>2, <1>3 DEF Next

LEMMA PassageStart ==
    ASSUME BaseInv, Passage, DaemonStart, UNCHANGED sent
    PROVE  Passage' /\ GoneStays
<1>1. /\ UNCHANGED <<air>> /\ TypeOK /\ job = NoJob
      /\ dataUp # <<>> /\ dataUp' = Tail(dataUp) /\ Head(dataUp).whole
      /\ job' = [pkt |-> Head(dataUp).pkt, live |-> Head(dataUp).live, freq |-> radio]
  BY DEF BaseInv, DaemonStart
<1>2. /\ 1 \in 1..Len(dataUp) /\ Head(dataUp) = dataUp[1]
      /\ \A i \in 1..Len(dataUp') : i + 1 \in 1..Len(dataUp) /\ i + 1 # 1 /\ dataUp'[i] = dataUp[i + 1]
  BY <1>1, TakenPacket
<1>3. job'.pkt = dataUp[1].pkt /\ WholeAt(1)
  BY <1>1, <1>2 DEF WholeAt
<1>4. \A p : (InSent(p)' <=> InSent(p)) /\ (OnAir(p)' <=> OnAir(p))
  BY <1>1 DEF InSent, OnAir
<1>5. \A i \in 1..Len(dataUp') : WholeAt(i)' =>
         i + 1 \in 1..Len(dataUp) /\ i + 1 # 1 /\ WholeAt(i + 1) /\ dataUp'[i].pkt = dataUp[i + 1].pkt
  BY <1>2, Zenon DEF WholeAt
<1>6. \A p : job'.pkt = p => InUp(p)
  BY <1>2, <1>3, Zenon DEF InUp
<1>7. ASSUME NEW p, InUp(p)' PROVE InUp(p) /\ job'.pkt # p
  <2>1. PICK i \in 1..Len(dataUp') : WholeAt(i)' /\ dataUp'[i].pkt = p
    BY <1>7 DEF InUp
  <2>2. i + 1 \in 1..Len(dataUp) /\ i + 1 # 1 /\ WholeAt(i + 1) /\ dataUp[i + 1].pkt = p
    BY <1>5, <2>1
  <2>3. dataUp[1].pkt # p
    BY <1>2, <1>3, <2>2, Zenon DEF Passage
  <2>4. InUp(p)
    BY <2>2, Zenon DEF InUp
  <2> QED BY <1>3, <2>3, <2>4
<1>8. ASSUME NEW i \in 1..Len(dataUp'), NEW j \in 1..Len(dataUp'), WholeAt(i)', WholeAt(j)',
             dataUp'[i].pkt = dataUp'[j].pkt
      PROVE  i = j
  <2>1. i + 1 = j + 1
    BY <1>5, <1>8, Zenon DEF Passage
  <2> QED BY <2>1
<1>9. Passage'
  BY <1>4, <1>6, <1>7, <1>8, Zenon DEF Passage
<1>10. GoneStays
  BY <1>4, <1>6, <1>7, Zenon DEF Gone, GoneStays
<1> QED BY <1>9, <1>10

(* The packet on the air has been sent, in full or in part. *)
LEMMA PassageEnds ==
    ASSUME BaseInv, Passage, DaemonDone \/ DaemonCrash, UNCHANGED sent
    PROVE  Passage' /\ GoneStays /\ (\A p \in Packets : OnAir(p) => OnAir(p)')
<1>1. /\ job' = NoJob
      /\ dataUp' = dataUp \/ dataUp' = <<>>
      /\ air' = air \/ (job # NoJob /\ air' = air \union {<<job.pkt, job.freq>>})
  BY DEF DaemonDone, DaemonCrash
<1>2. job'.pkt = 0 /\ \A p \in Packets : job'.pkt # p
  BY <1>1, PacketsAssumption DEF NoJob
<1>3. \A p : InSent(p)' <=> InSent(p)
  BY DEF InSent
<1>4. \A p : OnAir(p) => OnAir(p)'
  BY <1>1 DEF OnAir
<1>5. \A p : OnAir(p)' => OnAir(p) \/ job.pkt = p
  BY <1>1 DEF OnAir
<1>6. /\ \A i \in 1..Len(dataUp') :
            WholeAt(i)' => i \in 1..Len(dataUp) /\ WholeAt(i) /\ dataUp'[i].pkt = dataUp[i].pkt
      /\ \A p : InUp(p)' => InUp(p)
  <2>1. \A i \in 1..Len(dataUp') :
            WholeAt(i)' => i \in 1..Len(dataUp) /\ WholeAt(i) /\ dataUp'[i].pkt = dataUp[i].pkt
    BY <1>1 DEF WholeAt
  <2> QED BY <2>1, Zenon DEF InUp
<1>7. Passage'
  BY <1>2, <1>3, <1>4, <1>5, <1>6, Zenon DEF Passage
<1>8. GoneStays
  BY <1>2, <1>3, <1>5, <1>6, Zenon DEF Gone, GoneStays
<1> QED BY <1>4, <1>7, <1>8

(* A job that is cut off or retuned is about the same packet. *)
LEMMA SamePacket ==
    ASSUME BaseInv, PartAtEnd, [Next]_vars
    PROVE  DaemonStart \/ job'.pkt = job.pkt \/ job'.pkt = 0
<1>0. job \in JobType /\ TypeOK
  BY DEF BaseInv, TypeOK, JobType
<1>1. ([job EXCEPT !.live = FALSE].pkt = job.pkt) /\ ([job EXCEPT !.freq = "none"].pkt = job.pkt)
  BY <1>0 DEF JobType
<1>2. \/ DaemonStart \/ job' = job \/ job' = NoJob
      \/ job' = [job EXCEPT !.live = FALSE] \/ job' = [job EXCEPT !.freq = "none"]
  BY DataSteps DEF CloseData, Write, WaitRead, DaemonConf, DaemonRefuse, DaemonDone, DaemonReceive,
     DaemonClosesData, DaemonCrash, DaemonBoot, daemonVars
<1>3. NoJob.pkt = 0
  BY DEF NoJob
<1> QED BY <1>1, <1>2, <1>3, Zenon

(* Where the packets of a later state were before. *)
LEMMA SamePlace ==
    ASSUME BaseInv, PartAtEnd, [Next]_vars, ~Write
    PROVE  \E d \in {0, 1} : \A i \in 1..Len(dataUp') : WholeAt(i)' =>
              i + d \in 1..Len(dataUp) /\ WholeAt(i + d) /\ dataUp'[i].pkt = dataUp[i + d].pkt
<1>0. dataUp \in Seq(UpType) /\ TypeOK
  BY DEF BaseInv, TypeOK, UpType
<1>1. ASSUME \A i \in 1..Len(dataUp') : WholeAt(i)' =>
                i \in 1..Len(dataUp) /\ WholeAt(i) /\ dataUp'[i].pkt = dataUp[i].pkt
      PROVE  \A i \in 1..Len(dataUp') : WholeAt(i)' =>
                i + 0 \in 1..Len(dataUp) /\ WholeAt(i + 0) /\ dataUp'[i].pkt = dataUp[i + 0].pkt
  <2>1. \A i \in 1..Len(dataUp') : i + 0 = i
    OBVIOUS
  <2> QED BY <1>1, <2>1
<1>2. CASE CloseData
  <2>1. dataUp' = Orphan(dataUp)
    BY <1>2 DEF CloseData
  <2>2. /\ Len(dataUp') <= Len(dataUp) /\ Len(dataUp) \in Nat /\ Len(dataUp') \in Nat
        /\ \A i \in 1..Len(dataUp') :
              dataUp'[i].pkt = dataUp[i].pkt /\ dataUp'[i].whole = dataUp[i].whole
    BY <1>0, <2>1, OrphanElements
  <2>3. \A i \in 1..Len(dataUp') : i \in 1..Len(dataUp)
    BY <2>2
  <2>4. \A i \in 1..Len(dataUp') : WholeAt(i)' =>
           i \in 1..Len(dataUp) /\ WholeAt(i) /\ dataUp'[i].pkt = dataUp[i].pkt
    BY <2>2, <2>3, Zenon DEF WholeAt
  <2> QED BY <1>1, <2>4
<1>3. CASE DaemonClosesData
  <2>1. PICK k \in 0..Len(dataUp) :
           /\ \A i \in DOMAIN dataUp : dataUp[i].live <=> i > k
           /\ dataUp' = SubSeq(dataUp, 1, k)
    BY <1>3 DEF DaemonClosesData
  <2>2. \A i \in 1..Len(dataUp) : ~dataUp[i].whole => dataUp[i].live
    BY DEF PartAtEnd, Parts
  <2>3. Len(dataUp') = k /\ \A i \in 1..k : dataUp'[i] = dataUp[i]
    BY <1>0, <2>1, <2>2, PartsCut
  <2>4. \A i \in 1..Len(dataUp') : i \in 1..Len(dataUp)
    BY <1>0, <2>1, <2>3
  <2>5. \A i \in 1..Len(dataUp') : WholeAt(i)' =>
           i \in 1..Len(dataUp) /\ WholeAt(i) /\ dataUp'[i].pkt = dataUp[i].pkt
    BY <2>3, <2>4, Zenon DEF WholeAt
  <2> QED BY <1>1, <2>5
<1>4. CASE dataUp' = dataUp \/ dataUp' = <<>>
  <2>1. \A i \in 1..Len(dataUp') : WholeAt(i)' =>
           i \in 1..Len(dataUp) /\ WholeAt(i) /\ dataUp'[i].pkt = dataUp[i].pkt
    BY <1>4 DEF WholeAt
  <2> QED BY <1>1, <2>1
<1>5. CASE dataUp # <<>> /\ dataUp' = Tail(dataUp)
  <2>1. \A i \in 1..Len(dataUp') : i + 1 \in 1..Len(dataUp) /\ dataUp'[i] = dataUp[i + 1]
    BY <1>0, <1>5, TakenPacket
  <2>2. \A i \in 1..Len(dataUp') : WholeAt(i)' =>
           i + 1 \in 1..Len(dataUp) /\ WholeAt(i + 1) /\ dataUp'[i].pkt = dataUp[i + 1].pkt
    BY <2>1, Zenon DEF WholeAt
  <2> QED BY <2>2
<1>6. CloseData \/ DaemonClosesData \/ dataUp' = dataUp \/ dataUp' = <<>> \/ (dataUp # <<>> /\ dataUp' = Tail(dataUp))
  BY DataSteps DEF WaitRead, DaemonConf, DaemonStart, DaemonRefuse, DaemonDone, DaemonReceive,
     DaemonCrash, DaemonBoot, linkVars
<1> QED BY <1>2, <1>3, <1>4, <1>5, <1>6

LEMMA StepPassage ==
    ASSUME BaseInv, QueueOrder, PartAtEnd, Passage, [Next]_vars
    PROVE  Passage' /\ GoneStays /\ (\A p \in Packets : OnAir(p) => OnAir(p)')
<1>1. CASE Write
  <2>1. UNCHANGED air
    BY <1>1 DEF Write, daemonVars
  <2> QED BY <1>1, <2>1, PassageWrite DEF OnAir
<1>2. CASE ~Write
  <2>1. UNCHANGED sent
    BY <1>2, HistorySteps
  <2>2. CASE DaemonDone \/ DaemonCrash
    BY <2>1, <2>2, PassageEnds
  <2>3. CASE ~(DaemonDone \/ DaemonCrash)
    <3>1. UNCHANGED air
      BY <2>3, HistorySteps
    <3>2. CASE DaemonStart
      BY <2>1, <3>1, <3>2, PassageStart DEF OnAir
    <3>3. CASE ~DaemonStart
      <4>1. job'.pkt = job.pkt \/ job'.pkt = 0
        BY <3>3, SamePacket
      <4>2. PICK d \in {0, 1} : \A i \in 1..Len(dataUp') : WholeAt(i)' =>
               i + d \in 1..Len(dataUp) /\ WholeAt(i + d) /\ dataUp'[i].pkt = dataUp[i + d].pkt
        BY <1>2, SamePlace
      <4>3. d \in Nat
        OBVIOUS
      <4>4. Passage' /\ GoneStays
        BY <2>1, <3>1, <4>1, <4>2, <4>3, PassageServed
      <4> QED BY <3>1, <4>4 DEF OnAir
    <3> QED BY <3>2, <3>3
  <2> QED BY <2>2, <2>3
<1> QED BY <1>1, <1>2

-----------------------------------------------------------------------------
(* What a result says, and what the bridge makes of it *)

Told ==
    /\ \A p \in Packets : \A i \in 1..Len(dataDown) :
          ResultAt(i) /\ dataDown[i].pkt = p => IF dataDown[i].ok THEN OnAir(p) ELSE Gone(p)
    /\ \A p \in verdict : Gone(p)

(* The frames that are there were there before, but for one perhaps that   *)
(* says what is true.                                                      *)
LEMMA ToldKept ==
    ASSUME Told, GoneStays, \A p \in Packets : OnAir(p) => OnAir(p)',
           \A i \in 1..Len(dataDown') : ResultAt(i)' =>
              \/ \E j \in 1..Len(dataDown) : ResultAt(j) /\ dataDown'[i] = dataDown[j]
              \/ \A p \in Packets : dataDown'[i].pkt = p => IF dataDown'[i].ok THEN OnAir(p)' ELSE Gone(p)',
           verdict \subseteq Packets,
           \A p \in verdict' : p \in verdict \/ (p \in Packets /\ Gone(p))
    PROVE  Told'
<1>1. ASSUME NEW p \in Packets, NEW i \in 1..Len(dataDown'), ResultAt(i)', dataDown'[i].pkt = p
      PROVE  IF dataDown'[i].ok THEN OnAir(p)' ELSE Gone(p)'
  <2>1. CASE \E j \in 1..Len(dataDown) : ResultAt(j) /\ dataDown'[i] = dataDown[j]
    <3>1. PICK j \in 1..Len(dataDown) : ResultAt(j) /\ dataDown'[i] = dataDown[j]
      BY <2>1
    <3>2. IF dataDown[j].ok THEN OnAir(p) ELSE Gone(p)
      BY <1>1, <3>1, Zenon DEF Told
    <3>3. (OnAir(p) => OnAir(p)') /\ (Gone(p) => Gone(p)')
      BY Zenon DEF GoneStays
    <3> QED BY <3>1, <3>2, <3>3, Zenon
  <2>2. CASE ~\E j \in 1..Len(dataDown) : ResultAt(j) /\ dataDown'[i] = dataDown[j]
    BY <1>1, <2>2, Zenon
  <2> QED BY <2>1, <2>2
<1>2. \A p \in verdict' : Gone(p)'
  BY Zenon DEF Told, GoneStays
<1> QED BY <1>1, <1>2, Zenon DEF Told

(* Only the daemon sends, and it sends what is true. *)
LEMMA FramesTrue ==
    ASSUME BaseInv, PartAtEnd, Passage, [Next]_vars, Passage'
    PROVE  \A i \in 1..Len(dataDown') : ResultAt(i)' =>
              \/ \E j \in 1..Len(dataDown) : ResultAt(j) /\ dataDown'[i] = dataDown[j]
              \/ \A p \in Packets : dataDown'[i].pkt = p => IF dataDown'[i].ok THEN OnAir(p)' ELSE Gone(p)'
<1>0. TypeOK /\ dataDown \in Seq(FrameType) /\ Len(dataDown) \in Nat
  BY DEF BaseInv, TypeOK, FrameType
<1> SUFFICES ASSUME NEW i \in 1..Len(dataDown'), ResultAt(i)'
             PROVE  \/ \E j \in 1..Len(dataDown) : ResultAt(j) /\ dataDown'[i] = dataDown[j]
                    \/ \A p \in Packets : dataDown'[i].pkt = p =>
                          IF dataDown'[i].ok THEN OnAir(p)' ELSE Gone(p)'
  OBVIOUS
<1>1. CASE dataDown' = dataDown
  <2>1. i \in 1..Len(dataDown) /\ ResultAt(i) /\ dataDown'[i] = dataDown[i]
    BY <1>1 DEF ResultAt
  <2> QED BY <2>1
<1>2. CASE dataDown' = <<>>
  BY <1>2
<1>3. CASE \E n \in 1..Len(dataDown) : dataDown' = SubSeq(dataDown, n + 1, Len(dataDown))
  <2>1. PICK n \in 1..Len(dataDown) : dataDown' = SubSeq(dataDown, n + 1, Len(dataDown))
    BY <1>3
  <2>2. i + n \in 1..Len(dataDown) /\ dataDown'[i] = dataDown[i + n]
    BY <1>0, <2>1, ReadFrames
  <2>3. ResultAt(i + n)
    BY <2>2 DEF ResultAt
  <2> QED BY <2>2, <2>3
<1>4. ASSUME NEW f \in FrameType, dataDown' = Append(dataDown, f),
             \A p \in Packets : f.type = "result" /\ f.pkt = p => IF f.ok THEN OnAir(p)' ELSE Gone(p)'
      PROVE  \/ \E j \in 1..Len(dataDown) : ResultAt(j) /\ dataDown'[i] = dataDown[j]
             \/ \A p \in Packets : dataDown'[i].pkt = p =>
                   IF dataDown'[i].ok THEN OnAir(p)' ELSE Gone(p)'
  <2>1. (i \in 1..Len(dataDown) /\ dataDown'[i] = dataDown[i]) \/ dataDown'[i] = f
    BY <1>0, <1>4, SentFrame
  <2>2. CASE i \in 1..Len(dataDown) /\ dataDown'[i] = dataDown[i]
    <3>1. ResultAt(i)
      BY <2>2 DEF ResultAt
    <3> QED BY <2>2, <3>1
  <2>3. CASE dataDown'[i] = f
    <3>1. f.type = "result"
      BY <2>3 DEF ResultAt
    <3> QED BY <1>4, <2>3, <3>1, Zenon
  <2> QED BY <2>1, <2>2, <2>3
<1>5. CASE DaemonReceive
  <2>1. dataDown' = Append(dataDown, RxFrame) /\ RxFrame \in FrameType /\ RxFrame.type # "result"
    BY <1>5, ConstantTypes DEF DaemonReceive, RxFrame
  <2> QED BY <1>4, <2>1
<1>6. CASE DaemonDone
  <2> DEFINE r == ResultFrame(job.pkt, TRUE)
  <2>1. /\ job # NoJob /\ air' = air \union {<<job.pkt, job.freq>>} /\ job.freq \in Freqs
        /\ job.pkt \in Packets
        /\ dataDown' = dataDown \/ dataDown' = Append(dataDown, r)
    BY <1>6 DEF DaemonDone, BaseInv, JobIsPacket, TypeOK, ToData
  <2>2. r \in FrameType /\ r.pkt = job.pkt
    BY <2>1, ConstantTypes DEF ResultFrame
  <2>3. r.ok = TRUE
    BY DEF ResultFrame
  <2> HIDE DEF r
  <2>4. \A p \in Packets : r.pkt = p => OnAir(p)'
    BY <2>1, <2>2 DEF OnAir
  <2>5. \A p \in Packets : r.type = "result" /\ r.pkt = p => IF r.ok THEN OnAir(p)' ELSE Gone(p)'
    BY <2>3, <2>4, Zenon
  <2> QED BY <1>1, <1>4, <2>1, <2>2, <2>5
<1>7. CASE DaemonRefuse
  <2> DEFINE x == dataUp[1].pkt
  <2>1. /\ dataUp # <<>> /\ dataUp' = Tail(dataUp) /\ Head(dataUp).whole /\ UNCHANGED <<job, air>>
        /\ \/ dataDown' = dataDown \/ dataDown' = Append(dataDown, ResultFrame(Head(dataUp).pkt, FALSE))
           \/ dataDown' = Append(dataDown, ErrorFrame(Head(dataUp).pkt))
    BY <1>7 DEF DaemonRefuse, ToData, daemonVars
  <2>2. /\ 1 \in 1..Len(dataUp) /\ Head(dataUp) = dataUp[1] /\ dataUp[1] \in UpType
        /\ \A k \in 1..Len(dataUp') : k + 1 \in 1..Len(dataUp) /\ k + 1 # 1 /\ dataUp'[k] = dataUp[k + 1]
    BY <1>0, <2>1, TakenPacket
  <2>3. WholeAt(1) /\ x \in Packets
    BY <2>1, <2>2 DEF WholeAt, UpType
  <2>4. InUp(x) /\ \A p : p = x => InUp(p)
    BY <2>2, <2>3, Zenon DEF InUp
  <2>5. \A p \in Packets : p = x => InSent(p) /\ job.pkt # p /\ ~OnAir(p)
    BY <2>4, Zenon DEF Passage
  <2>6. ASSUME NEW p \in Packets, p = x PROVE ~InUp(p)'
    <3>1. SUFFICES ASSUME NEW k \in 1..Len(dataUp'), WholeAt(k)', dataUp'[k].pkt = p PROVE FALSE
      BY Zenon DEF InUp
    <3>2. k + 1 \in 1..Len(dataUp) /\ k + 1 # 1 /\ dataUp'[k] = dataUp[k + 1]
      BY <2>2
    <3>3. WholeAt(k + 1) /\ dataUp[k + 1].pkt = dataUp[1].pkt
      BY <2>6, <3>1, <3>2, Zenon DEF WholeAt
    <3>4. k + 1 = 1
      BY <2>2, <2>3, <3>2, <3>3, Zenon DEF Passage
    <3> QED BY <3>2, <3>4
  <2>7. sent' = sent
    <3>1. ~Write
      BY <2>1, <2>2, <1>0 DEF Write, TypeOK
    <3> QED BY <3>1, HistorySteps
  <2>8. \A p \in Packets : p = x => Gone(p)'
    <3>1. \A p : (InSent(p)' <=> InSent(p)) /\ (OnAir(p)' <=> OnAir(p)) /\ job' = job
      BY <2>1, <2>7 DEF InSent, OnAir
    <3> QED BY <2>5, <2>6, <3>1, Zenon DEF Gone
  <2>9. ResultFrame(x, FALSE) \in FrameType /\ ErrorFrame(x) \in FrameType
    BY <2>3, ConstantTypes
  <2>10. /\ ResultFrame(x, FALSE).pkt = x /\ ResultFrame(x, FALSE).ok = FALSE
         /\ ErrorFrame(x).type # "result"
    BY DEF ResultFrame, ErrorFrame
  <2> HIDE DEF x
  <2>11. \A p \in Packets : ResultFrame(x, FALSE).type = "result" /\ ResultFrame(x, FALSE).pkt = p =>
            IF ResultFrame(x, FALSE).ok THEN OnAir(p)' ELSE Gone(p)'
    BY <2>8, <2>10, Zenon
  <2>12. \/ dataDown' = dataDown \/ dataDown' = Append(dataDown, ResultFrame(x, FALSE))
         \/ dataDown' = Append(dataDown, ErrorFrame(x))
    BY <2>1, <2>2 DEF x
  <2> QED BY <1>1, <1>4, <2>9, <2>10, <2>11, <2>12
<1>8. \/ dataDown' = dataDown \/ dataDown' = <<>> \/ DaemonReceive \/ DaemonDone \/ DaemonRefuse
      \/ \E n \in 1..Len(dataDown) : dataDown' = SubSeq(dataDown, n + 1, Len(dataDown))
  BY DataSteps DEF CloseData, Write, WaitRead, DaemonConf, DaemonStart,
     DaemonClosesData, DaemonCrash, DaemonBoot, linkVars
<1> QED BY <1>1, <1>2, <1>3, <1>5, <1>6, <1>7, <1>8

(* The result that ends the wait is about the packet at the head. *)
LEMMA ReadOfHead ==
    ASSUME BaseInv, Answer, Told, WaitRead
    PROVE  /\ Head(queue) \in Packets
           /\ \A p \in verdict' : p \in verdict \/ (p \in Packets /\ Gone(p))
           /\ \A p \in Packets : rflog'[p] = "ok" => rflog[p] = "ok" \/ OnAir(p)
<1> DEFINE h == Head(queue)
<1>0. TypeOK /\ pc = "wait" /\ Awaited(h) /\ queue # <<>>
  BY DEF BaseInv, WaitRead, Answer, Control, Awaiting
<1>1. h \in Packets /\ rflog \in [Packets -> LogLines]
  BY <1>0, HeadTail DEF TypeOK
<1>2. PICK n \in 1..Len(dataDown) :
         \/ UNCHANGED <<rflog, verdict>>
         \/ \E i \in 1..n :
               /\ FirstResult(n, i)
               /\ IF dataDown[i].ok
                  THEN rflog' = [rflog EXCEPT ![h] = "ok"] /\ UNCHANGED verdict
                  ELSE verdict' = verdict \union {h} /\ UNCHANGED rflog
  BY Zenon DEF WaitRead
<1> HIDE DEF h
<1>3. CASE UNCHANGED <<rflog, verdict>>
  BY <1>1, <1>3 DEF h
<1>4. ASSUME NEW i \in 1..n, FirstResult(n, i),
             IF dataDown[i].ok
             THEN rflog' = [rflog EXCEPT ![h] = "ok"] /\ UNCHANGED verdict
             ELSE verdict' = verdict \union {h} /\ UNCHANGED rflog
      PROVE  /\ \A p \in verdict' : p \in verdict \/ (p \in Packets /\ Gone(p))
             /\ \A p \in Packets : rflog'[p] = "ok" => rflog[p] = "ok" \/ OnAir(p)
  <2>1. i \in 1..Len(dataDown) /\ ResultAt(i)
    BY <1>0, <1>4 DEF FirstResult, ResultAt, TypeOK
  <2>2. dataDown[i].pkt = h
    BY <1>0, <2>1, Zenon DEF Awaited
  <2>3. \A p \in Packets : p = h => IF dataDown[i].ok THEN OnAir(p) ELSE Gone(p)
    BY <2>1, <2>2, Zenon DEF Told
  <2>4. CASE dataDown[i].ok
    <3>1. rflog' = [rflog EXCEPT ![h] = "ok"] /\ UNCHANGED verdict
      BY <1>4, <2>4, Zenon
    <3>2. \A p \in Packets : p = h => OnAir(p)
      BY <2>3, <2>4, Zenon
    <3>3. \A p \in Packets : p # h => rflog'[p] = rflog[p]
      BY <1>1, <3>1
    <3> QED BY <3>1, <3>2, <3>3
  <2>5. CASE ~dataDown[i].ok
    <3>1. verdict' = verdict \union {h} /\ UNCHANGED rflog
      BY <1>4, <2>5, Zenon
    <3>2. \A p \in Packets : p = h => Gone(p)
      BY <2>3, <2>5, Zenon
    <3> QED BY <1>1, <3>1, <3>2
  <2> QED BY <2>4, <2>5
<1>5. /\ \A p \in verdict' : p \in verdict \/ (p \in Packets /\ Gone(p))
      /\ \A p \in Packets : rflog'[p] = "ok" => rflog[p] = "ok" \/ OnAir(p)
  BY <1>2, <1>3, <1>4, Zenon
<1> QED BY <1>1, <1>5 DEF h

LEMMA StepTold ==
    ASSUME BaseInv, QueueOrder, PartAtEnd, Answer, Passage, Told, [Next]_vars
    PROVE  Told'
<1>1. Passage' /\ GoneStays /\ (\A p \in Packets : OnAir(p) => OnAir(p)')
  BY StepPassage
<1>2. verdict \subseteq Packets
  BY DEF BaseInv, TypeOK
<1>3. \A p \in verdict' : p \in verdict \/ (p \in Packets /\ Gone(p))
  BY HistorySteps, ReadOfHead
<1>4. \A i \in 1..Len(dataDown') : ResultAt(i)' =>
         \/ \E j \in 1..Len(dataDown) : ResultAt(j) /\ dataDown'[i] = dataDown[j]
         \/ \A p \in Packets : dataDown'[i].pkt = p => IF dataDown'[i].ok THEN OnAir(p)' ELSE Gone(p)'
  BY <1>1, FramesTrue
<1> QED BY <1>1, <1>2, <1>3, <1>4, ToldKept

(* Where every packet is, and that every result in flight tells the truth. *)
LEMMA FateInvariant == Spec => [](Passage /\ Told)
<1>1. ASSUME Init PROVE Passage /\ Told
  <2>1. /\ dataUp = <<>> /\ dataDown = <<>> /\ job = NoJob /\ air = {} /\ verdict = {}
    BY <1>1 DEF Init, DaemonInit
  <2>2. \A p \in Packets : job.pkt # p
    BY <2>1, PacketsAssumption DEF NoJob
  <2>3. Passage
    BY <2>1, <2>2 DEF Passage, InUp, OnAir
  <2>4. Told
    BY <2>1 DEF Told
  <2> QED BY <2>3, <2>4
<1>2. BaseInv /\ QueueOrder /\ PartAtEnd /\ Answer /\ Passage /\ Told /\ [Next]_vars => (Passage /\ Told)'
  BY StepPassage, StepTold
<1> QED BY <1>1, <1>2, BaseInvariant, OrderInvariant, PartsInvariant, AnswerInvariant, PTL DEF Spec

(* A TX_RESULT that reports a failure is about the packet wait_tx_result   *)
(* counts it for, although its sequence number is never looked at: that    *)
(* packet was not and will not be on the air, for every daemon, every      *)
(* number of packets and of faults.                                        *)
THEOREM RefusalsAreTrue == Spec => []RefusedNotOnAir
<1>1. Told => RefusedNotOnAir
  BY DEF Told, Gone, OnAir, RefusedNotOnAir
<1> QED BY <1>1, FateInvariant, PTL

-----------------------------------------------------------------------------
(* What the RF log says *)

(* wait_tx_complete runs against daemons without TX_RESULT only. *)
Legacy == pc \in {"seek", "busy"} => "110" \in Kinds

LEMMA StepLegacy ==
    ASSUME BaseInv, KnowsDaemon, Legacy, [Next]_vars
    PROVE  Legacy'
<1>1. CASE Write
  <2>1. pc' \in {"seek", "busy"} => data = "up" /\ status.txresult # "on" /\ pc = "write"
    BY <1>1 DEF Write
  <2>2. pc' \in {"seek", "busy"} => kind = "110"
    BY <2>1 DEF KnowsDaemon, Agreed, Sending
  <2> QED BY <2>2 DEF BaseInv, TypeOK, Legacy
<1>2. CASE BridgeStep /\ ~Write
  <2>1. pc' \in {"seek", "busy"} => pc \in {"seek", "busy"}
    BY <1>2 DEF BridgeStep, Transmit, Start, StartConfig, StartData, Loop,
       DrainEmpty, DrainBlocked, DrainDisabled, DrainDrop, DrainWait, DrainSend, Return,
       SendNoFreq, Switch, Settle, WaitRead, WaitLost, ConfirmRead, ConfirmTimeout, Confirmed,
       RestoreDone, RestoreFail, RestoreGiveUp, SelectReady, SelectInterrupted, SelectTimeout, Timeout
  <2> QED BY <2>1 DEF Legacy
<1>3. CASE DaemonStep \/ Signal \/ UNCHANGED vars
  <2>1. pc' = pc
    BY <1>3 DEF DaemonStep, Signal, vars, bridgeVars
  <2> QED BY <2>1 DEF Legacy
<1> QED BY <1>1, <1>2, <1>3 DEF Next

LEMMA LegacyInvariant == Spec => []Legacy
<1>1. Init => Legacy
  BY DEF Init, Legacy
<1>2. BaseInv /\ KnowsDaemon /\ Legacy /\ [Next]_vars => Legacy'
  BY StepLegacy
<1> QED BY <1>1, <1>2, BaseInvariant, KnowsInvariant, PTL DEF Spec

(* "ok" is written for a packet that was on the air, or by wait_tx_complete. *)
Logged == \A p \in Packets : rflog[p] = "ok" => OnAir(p)

LEMMA StepLogged ==
    ASSUME "110" \notin Kinds,
           BaseInv, QueueOrder, PartAtEnd, Answer, Passage, Told, Legacy, Logged, [Next]_vars
    PROVE  Logged'
<1>1. \A p \in Packets : OnAir(p) => OnAir(p)'
  BY StepPassage
<1>2. CASE UNCHANGED rflog
  BY <1>1, <1>2 DEF Logged
<1>3. CASE WaitRead
  BY <1>1, <1>3, ReadOfHead DEF Logged
<1>4. CASE WaitLost
  <2>1. rflog \in [Packets -> LogLines] /\ rflog' = [rflog EXCEPT ![Head(queue)] = "unconfirmed"]
    BY <1>4 DEF BaseInv, TypeOK, WaitLost
  <2>2. \A p \in Packets : rflog'[p] = "ok" => rflog[p] = "ok"
    BY <2>1
  <2> QED BY <1>1, <2>2 DEF Logged
<1>5. CASE ConfirmRead \/ ConfirmTimeout
  BY <1>5 DEF ConfirmRead, ConfirmTimeout, Legacy
<1> QED BY <1>2, <1>3, <1>4, <1>5, HistorySteps

(* "ok" in the RF log is about the packet it names, with every daemon that *)
(* has TX_RESULT: that packet was on the air.  The daemons without it are  *)
(* left out because there it is not so: wait_tx_complete takes another     *)
(* transmission for this one (MCBridgeLegacy.cfg).                         *)
THEOREM ConfirmationsAreTrue ==
    ASSUME "110" \notin Kinds
    PROVE  Spec => []ConfirmedOnAir
<1>1. Init => Logged
  BY DEF Init, Logged
<1>2. BaseInv /\ QueueOrder /\ PartAtEnd /\ Answer /\ (Passage /\ Told) /\ Legacy /\ Logged /\ [Next]_vars
      => Logged'
  BY StepLogged
<1>3. Logged => ConfirmedOnAir
  BY DEF Logged, OnAir, ConfirmedOnAir
<1> QED BY <1>1, <1>2, <1>3, BaseInvariant, OrderInvariant, PartsInvariant, AnswerInvariant,
           FateInvariant, LegacyInvariant, PTL DEF Spec

-----------------------------------------------------------------------------
(* What became of the packets that are not finished *)

(* The bridge waits for the result of p. *)
AtHand(p) == pc = "wait" /\ Head(queue) = p

(* The daemon has p still to transmit, or does so. *)
Unfinished(p) == InUp(p) \/ job.pkt = p

(* The daemon may transmit a packet long after the bridge stopped to wait  *)
(* for it, but then the RF log calls it unconfirmed.                       *)
GivenUp ==
    \A p \in Packets :
        /\ rflog[p] # "none" => InSent(p)
        /\ AtHand(p) => InSent(p) /\ rflog[p] = "none"
        /\ Unfinished(p) => rflog[p] = "unconfirmed" \/ AtHand(p)

(* Only a write makes a packet unfinished. *)
LEMMA UnfinishedBefore ==
    ASSUME BaseInv, PartAtEnd, [Next]_vars, ~Write, NEW p \in Packets, Unfinished(p)'
    PROVE  Unfinished(p)
<1>1. PICK d \in {0, 1} : \A i \in 1..Len(dataUp') : WholeAt(i)' =>
         i + d \in 1..Len(dataUp) /\ WholeAt(i + d) /\ dataUp'[i].pkt = dataUp[i + d].pkt
  BY SamePlace
<1>2. InUp(p)' => InUp(p)
  BY <1>1, Zenon DEF InUp
<1>3. p # 0
  BY PacketsAssumption
<1>4. CASE DaemonStart
  <2>1. /\ TypeOK /\ dataUp # <<>> /\ dataUp' = Tail(dataUp) /\ Head(dataUp).whole
        /\ job' = [pkt |-> Head(dataUp).pkt, live |-> Head(dataUp).live, freq |-> radio]
    BY <1>4 DEF BaseInv, DaemonStart
  <2>2. 1 \in 1..Len(dataUp) /\ Head(dataUp) = dataUp[1]
    BY <2>1, TakenPacket
  <2>3. job'.pkt = dataUp[1].pkt /\ WholeAt(1)
    BY <2>1, <2>2 DEF WholeAt
  <2>4. job'.pkt = p => InUp(p)
    BY <2>2, <2>3, Zenon DEF InUp
  <2> QED BY <1>2, <2>4 DEF Unfinished
<1>5. CASE ~DaemonStart
  <2>1. job'.pkt = job.pkt \/ job'.pkt = 0
    BY <1>5, SamePacket
  <2> QED BY <1>2, <1>3, <2>1 DEF Unfinished
<1> QED BY <1>4, <1>5

(* The wait begins with a write and ends with WaitRead or WaitLost. *)
LEMMA WaitSteps ==
    ASSUME [Next]_vars, ~Write, ~WaitRead, ~WaitLost
    PROVE  /\ pc' = "wait" <=> pc = "wait"
           /\ pc = "wait" => UNCHANGED queue
<1>1. CASE BridgeStep
  BY <1>1 DEF BridgeStep, Transmit, Start, StartConfig, StartData, Loop,
     DrainEmpty, DrainBlocked, DrainDisabled, DrainDrop, DrainWait, DrainSend, DrainReads, Return,
     SendNoFreq, Switch, Settle, ConfirmRead, ConfirmTimeout, Confirmed,
     RestoreDone, RestoreFail, RestoreGiveUp, SelectReady, SelectInterrupted, SelectTimeout, Timeout
<1>2. CASE DaemonStep \/ Signal \/ UNCHANGED vars
  BY <1>2 DEF DaemonStep, Signal, vars, bridgeVars
<1> QED BY <1>1, <1>2 DEF Next

(* With a daemon that has TX_RESULT a write is followed by the wait. *)
LEMMA GivenUpWrite ==
    ASSUME "110" \notin Kinds, BaseInv, QueueOrder, KnowsDaemon, Legacy, GivenUp, Write
    PROVE  GivenUp'
<1>0. /\ TypeOK /\ pc = "write" /\ UNCHANGED <<queue, rflog, job>> /\ [Next]_vars
  BY DEF BaseInv, Write, daemonVars, Next, BridgeStep, Transmit
<1>1. Legacy'
  BY <1>0, StepLegacy
<1>2. /\ Head(queue) \in Packets /\ \A p : p = Head(queue) => ~InSent(p)
      /\ \A p : InSent(p) => InSent(p)'
      /\ \A p : InUp(p)' => InUp(p) \/ (p = Head(queue) /\ pc' \in Awaiting)
      /\ \A p : pc' \in Awaiting /\ p = Head(queue) => InSent(p)'
  BY WriteFacts
<1>3. pc' \in Awaiting => pc' = "wait"
  BY <1>1 DEF Legacy, Awaiting
<1>4. \A p : ~AtHand(p) /\ (AtHand(p)' <=> pc' = "wait" /\ Head(queue) = p)
  BY <1>0 DEF AtHand
<1>5. rflog' = rflog /\ job' = job
  BY <1>0
<1>6. ASSUME NEW p \in Packets
      PROVE  /\ rflog'[p] # "none" => InSent(p)'
             /\ AtHand(p)' => InSent(p)' /\ rflog'[p] = "none"
             /\ Unfinished(p)' => rflog'[p] = "unconfirmed" \/ AtHand(p)'
  <2>1. (rflog[p] # "none" => InSent(p)) /\ (Unfinished(p) => rflog[p] = "unconfirmed")
    BY <1>4 DEF GivenUp
  <2>2. AtHand(p)' => InSent(p)' /\ ~InSent(p)
    BY <1>2, <1>4 DEF Awaiting
  <2>3. Unfinished(p)' => Unfinished(p) \/ AtHand(p)'
    BY <1>2, <1>3, <1>4, <1>5 DEF Unfinished
  <2> QED BY <1>2, <1>5, <2>1, <2>2, <2>3
<1> QED BY <1>6, Zenon DEF GivenUp

LEMMA GivenUpRead ==
    ASSUME BaseInv, Answer, Passage, Told, GivenUp, WaitRead
    PROVE  GivenUp'
<1> DEFINE h == Head(queue)
<1>0. /\ TypeOK /\ pc = "wait" /\ UNCHANGED <<queue, job, dataUp, sent>> /\ Awaited(h) /\ queue # <<>>
  BY DEF BaseInv, WaitRead, daemonVars, Answer, Control, Awaiting
<1>1. h \in Packets /\ rflog \in [Packets -> LogLines]
  BY <1>0, HeadTail DEF TypeOK
<1>2. \A p : (InSent(p)' <=> InSent(p)) /\ (Unfinished(p)' <=> Unfinished(p))
  BY <1>0 DEF InSent, Unfinished, InUp, WholeAt
<1>3. PICK n \in 1..Len(dataDown) :
         \/ UNCHANGED <<pc, rflog>>
         \/ \E i \in 1..n :
               /\ FirstResult(n, i) /\ pc' = "restore1"
               /\ IF dataDown[i].ok THEN rflog' = [rflog EXCEPT ![h] = "ok"] ELSE UNCHANGED rflog
  BY Zenon DEF WaitRead
<1>4. CASE UNCHANGED <<pc, rflog>>
  <2>1. \A p : AtHand(p)' <=> AtHand(p)
    BY <1>0, <1>4 DEF AtHand
  <2>2. rflog' = rflog
    BY <1>4
  <2> QED BY <1>2, <2>1, <2>2 DEF GivenUp
<1>5. ASSUME NEW i \in 1..n, FirstResult(n, i), pc' = "restore1",
             IF dataDown[i].ok THEN rflog' = [rflog EXCEPT ![h] = "ok"] ELSE UNCHANGED rflog
      PROVE  GivenUp'
  <2>1. i \in 1..Len(dataDown) /\ ResultAt(i)
    BY <1>0, <1>5 DEF FirstResult, ResultAt, TypeOK
  <2>2. dataDown[i].pkt = h
    BY <1>0, <2>1, Zenon DEF Awaited
  <2>3. \A p \in Packets : p = h => OnAir(p) \/ Gone(p)
    BY <2>1, <2>2, Zenon DEF Told
  <2>4. \A p \in Packets : p = h => ~Unfinished(p) /\ InSent(p)
    BY <2>3, Zenon DEF Passage, Gone, Unfinished
  <2>5. \A p \in Packets : p # h => rflog'[p] = rflog[p]
    <3>1. CASE dataDown[i].ok
      <4>1. rflog' = [rflog EXCEPT ![h] = "ok"]
        BY <1>5, <3>1, Zenon
      <4> QED BY <1>1, <4>1
    <3>2. CASE ~dataDown[i].ok
      BY <1>5, <3>2, Zenon
    <3> QED BY <3>1, <3>2
  <2>6. \A p : ~AtHand(p)' /\ (AtHand(p) <=> p = h)
    BY <1>0, <1>5 DEF AtHand
  <2> HIDE DEF h
  <2>7. ASSUME NEW p \in Packets
        PROVE  /\ rflog'[p] # "none" => InSent(p)'
               /\ AtHand(p)' => InSent(p)' /\ rflog'[p] = "none"
               /\ Unfinished(p)' => rflog'[p] = "unconfirmed" \/ AtHand(p)'
    <3>1. CASE p = h
      BY <1>2, <2>4, <2>6, <3>1
    <3>2. CASE p # h
      BY <1>2, <2>5, <2>6, <3>2 DEF GivenUp
    <3> QED BY <3>1, <3>2
  <2> QED BY <2>7, Zenon DEF GivenUp
<1> QED BY <1>3, <1>4, <1>5, Zenon

LEMMA StepGivenUp ==
    ASSUME "110" \notin Kinds, BaseInv, QueueOrder, PartAtEnd, KnowsDaemon, Answer, Passage, Told,
           Legacy, GivenUp, [Next]_vars
    PROVE  GivenUp'
<1>1. CASE Write
  BY <1>1, GivenUpWrite
<1>2. CASE WaitRead
  BY <1>2, GivenUpRead
<1>3. CASE WaitLost
  <2>1. /\ pc = "wait" /\ pc' = "restore1" /\ UNCHANGED <<queue, job, dataUp, sent>>
        /\ rflog \in [Packets -> LogLines] /\ rflog' = [rflog EXCEPT ![Head(queue)] = "unconfirmed"]
    BY <1>3 DEF WaitLost, BaseInv, TypeOK, daemonVars, linkVars
  <2>2. \A p : (InSent(p)' <=> InSent(p)) /\ (Unfinished(p)' <=> Unfinished(p))
    BY <2>1 DEF InSent, Unfinished, InUp, WholeAt
  <2>3. \A p : ~AtHand(p)' /\ (AtHand(p) <=> p = Head(queue))
    BY <2>1 DEF AtHand
  <2>4. \A p \in Packets : rflog'[p] = IF p = Head(queue) THEN "unconfirmed" ELSE rflog[p]
    BY <2>1
  <2> QED BY <2>2, <2>3, <2>4 DEF GivenUp
<1>4. CASE ~Write /\ ~WaitRead /\ ~WaitLost
  <2>1. UNCHANGED <<sent, rflog>>
    <3>1. ~ConfirmRead /\ ~ConfirmTimeout
      BY DEF ConfirmRead, ConfirmTimeout, Legacy
    <3> QED BY <1>4, <3>1, HistorySteps
  <2>2. \A p : AtHand(p)' <=> AtHand(p)
    BY <1>4, WaitSteps DEF AtHand
  <2>3. \A p : InSent(p)' <=> InSent(p)
    BY <2>1 DEF InSent
  <2>4. \A p \in Packets : Unfinished(p)' => Unfinished(p)
    BY <1>4, UnfinishedBefore
  <2>5. rflog' = rflog
    BY <2>1
  <2> QED BY <2>2, <2>3, <2>4, <2>5 DEF GivenUp
<1> QED BY <1>1, <1>2, <1>3, <1>4

-----------------------------------------------------------------------------
(* The frequency a packet goes out on: split frequencies *)

(* On the way to a packet and while its result is awaited the radio is on  *)
(* the transmit frequency, as long as the CONF connection stands.          *)
Tuned ==
    /\ pc \in {"switch"} \union AwayPCs => conf # "none"
    /\ pc = "restore2" => restoreFailed
    /\ Shift /\ conf = "up" =>
          /\ pc = "settle" => FinalIs("tx")
          /\ pc \in {"write", "wait"} => radio = "tx" /\ \A i \in 1..Len(confUp) : confUp[i] \notin Tunes
          /\ \A p \in Packets : AtHand(p) /\ job.pkt = p => job.freq = "tx"

(* The connection is there from the gate of the drain to the return. *)
LEMMA StepConnected ==
    ASSUME [Next]_vars, pc \in {"switch"} \union AwayPCs => conf # "none",
           pc = "restore2" => restoreFailed
    PROVE  /\ pc' \in {"switch"} \union AwayPCs => conf' # "none"
           /\ pc' = "restore2" => restoreFailed'
<1> USE DEF AwayPCs, Awaiting, Ending, linkVars
<1>1. CASE Start \/ StartConfig \/ StartData \/ Loop \/ DrainEmpty \/ Return \/ SelectReady
           \/ SelectInterrupted \/ SelectTimeout \/ Timeout \/ SendNoFreq
  <2>1. pc' \notin {"switch"} \union AwayPCs
    BY <1>1 DEF Start, StartConfig, StartData, Loop, DrainEmpty, Return, SelectReady,
       SelectInterrupted, SelectTimeout, Timeout, SendNoFreq
  <2> QED BY <2>1
<1>2. CASE DrainBlocked \/ DrainDisabled \/ DrainDrop \/ DrainWait
  <2>1. pc' \notin {"switch"} \union AwayPCs
    BY <1>2 DEF DrainBlocked, DrainDisabled, DrainDrop, DrainWait
  <2> QED BY <2>1
<1>3. CASE DrainSend
  BY <1>3 DEF DrainSend, DrainReads
<1>4. CASE Switch \/ Settle \/ Write
  BY <1>4 DEF Switch, Settle, Write
<1>5. CASE WaitRead
  <2>1. UNCHANGED conf /\ pc = "wait" /\ pc' # "restore2"
    BY <1>5 DEF WaitRead
  <2> QED BY <2>1
<1>6. CASE WaitLost \/ ConfirmRead \/ ConfirmTimeout
  BY <1>6 DEF WaitLost, ConfirmRead, ConfirmTimeout, Confirmed
<1>7. CASE RestoreDone \/ RestoreFail \/ RestoreGiveUp
  BY <1>7 DEF RestoreDone, RestoreFail, RestoreGiveUp
<1>8. CASE Signal \/ UNCHANGED vars
  BY <1>8 DEF Signal, vars, bridgeVars
<1>9. CASE DaemonStep
  <2>1. UNCHANGED <<pc, restoreFailed>>
    BY <1>9 DEF DaemonStep, bridgeVars
  <2>2. conf' = conf \/ conf' = "dead"
    BY <1>9 DEF DaemonStep, DaemonConf, DaemonStart, DaemonRefuse, DaemonDone, DaemonReceive,
       DaemonClosesConf, DaemonClosesData, DaemonCrash, DaemonBoot
  <2> QED BY <2>1, <2>2
<1> QED BY <1>1, <1>2, <1>3, <1>4, <1>5, <1>6, <1>7, <1>8, <1>9 DEF Next, BridgeStep, Transmit

(* The steps on the way to a packet and during the wait. *)
LEMMA ApproachSteps ==
    ASSUME BaseInv, [Next]_vars, pc' \in {"settle", "write", "wait"}, conf' = "up"
    PROVE  /\ conf = "up" /\ UNCHANGED cfg
           /\ \/ Switch /\ pc' = "settle" /\ confUp' = Append(confUp, "tx") /\ UNCHANGED radio
              \/ Switch /\ pc' = "write" /\ ~Shift
              \/ Settle /\ pc = "settle" /\ pc' = "write" /\ UNCHANGED <<confUp, radio>>
              \/ Write /\ pc = "write" /\ pc' = "wait" /\ UNCHANGED <<confUp, radio, job, queue>>
              \/ DaemonConf /\ UNCHANGED <<pc, queue>>
              \/ DaemonStart /\ UNCHANGED <<pc, queue, confUp, radio>>
              \/ /\ UNCHANGED <<pc, queue, confUp, radio>>
                 /\ job' = job \/ job' = NoJob \/ job' = [job EXCEPT !.live = FALSE]
<1> USE DEF linkVars, daemonVars
<1>0. UNCHANGED cfg
  BY TuneSteps
<1>1. CASE BridgeStep
  <2>0. UNCHANGED radio
    BY <1>1, BridgeKeeps
  <2>1. CASE Start \/ StartConfig \/ StartData \/ Loop \/ DrainEmpty \/ Return \/ SelectReady
             \/ SelectInterrupted \/ SelectTimeout \/ Timeout \/ SendNoFreq
    BY <2>1 DEF Start, StartConfig, StartData, Loop, DrainEmpty, Return, SelectReady,
       SelectInterrupted, SelectTimeout, Timeout, SendNoFreq
  <2>2. CASE DrainBlocked \/ DrainDisabled \/ DrainDrop \/ DrainWait \/ DrainSend
    BY <2>2 DEF DrainBlocked, DrainDisabled, DrainDrop, DrainWait, DrainSend
  <2>3. CASE Switch
    BY <1>0, <2>0, <2>3 DEF Switch
  <2>4. CASE Settle
    BY <1>0, <2>0, <2>4 DEF Settle
  <2>5. CASE Write
    BY <1>0, <2>0, <2>5 DEF Write
  <2>6. CASE WaitRead
    <3>1. UNCHANGED <<conf, confUp, radio, queue, job>> /\ pc = "wait"
      BY <2>6 DEF WaitRead
    <3>2. pc' = pc
      BY <2>6 DEF WaitRead
    <3> QED BY <1>0, <3>1, <3>2
  <2>7. CASE WaitLost \/ ConfirmRead \/ ConfirmTimeout
    BY <2>7 DEF WaitLost, ConfirmRead, ConfirmTimeout, Confirmed
  <2>8. CASE RestoreDone \/ RestoreFail \/ RestoreGiveUp
    BY <2>8 DEF RestoreDone, RestoreFail, RestoreGiveUp
  <2> QED BY <1>1, <2>1, <2>2, <2>3, <2>4, <2>5, <2>6, <2>7, <2>8 DEF BridgeStep, Transmit
<1>2. CASE DaemonStep
  <2>1. UNCHANGED <<pc, queue>>
    BY <1>2 DEF DaemonStep, bridgeVars
  <2>2. CASE DaemonConf \/ DaemonStart
    BY <1>0, <2>1, <2>2 DEF DaemonConf, DaemonStart
  <2>3. CASE DaemonClosesConf \/ DaemonCrash
    BY <2>3 DEF DaemonClosesConf, DaemonCrash
  <2>4. CASE DaemonRefuse \/ DaemonDone \/ DaemonReceive \/ DaemonClosesData \/ DaemonBoot
    <3>1. UNCHANGED <<conf, confUp, radio>>
      BY <2>4 DEF DaemonRefuse, DaemonDone, DaemonReceive, DaemonClosesData, DaemonBoot
    <3>2. job' = job \/ job' = NoJob \/ job' = [job EXCEPT !.live = FALSE]
      BY <2>4 DEF DaemonRefuse, DaemonDone, DaemonReceive, DaemonClosesData, DaemonBoot
    <3> QED BY <1>0, <2>1, <3>1, <3>2
  <2> QED BY <1>2, <2>2, <2>3, <2>4 DEF DaemonStep
<1>3. CASE Signal \/ UNCHANGED vars
  BY <1>0, <1>3 DEF Signal, vars, bridgeVars
<1> QED BY <1>1, <1>2, <1>3 DEF Next

LEMMA StepTuned ==
    ASSUME SettleCovers, BaseInv, QueueOrder, Passage, Tuned, [Next]_vars
    PROVE  Tuned'
<1>0. TypeOK /\ job \in JobType /\ confUp \in Seq(Commands) /\ Len(confUp) \in Nat /\ (Shift' <=> Shift)
  BY TuneSteps DEF BaseInv, TypeOK, JobType, Shift
<1>1. /\ pc' \in {"switch"} \union AwayPCs => conf' # "none"
      /\ pc' = "restore2" => restoreFailed'
  BY StepConnected DEF Tuned
<1>2. ASSUME Shift, conf' = "up", pc' \in {"settle", "write", "wait"}
      PROVE  /\ pc' = "settle" => FinalIs("tx")'
             /\ pc' \in {"write", "wait"} =>
                   radio' = "tx" /\ \A i \in 1..Len(confUp') : confUp'[i] \notin Tunes
             /\ \A p \in Packets : AtHand(p)' /\ job'.pkt = p => job'.freq = "tx"
  <2>0. /\ conf = "up"
        /\ pc = "settle" => FinalIs("tx")
        /\ pc \in {"write", "wait"} => radio = "tx" /\ \A i \in 1..Len(confUp) : confUp[i] \notin Tunes
        /\ \A p \in Packets : AtHand(p) /\ job.pkt = p => job.freq = "tx"
    BY <1>2, ApproachSteps DEF Tuned
  <2>1. CASE Switch /\ pc' = "settle" /\ confUp' = Append(confUp, "tx") /\ UNCHANGED radio
    <3>1. FinalIs("tx")'
      BY <1>0, <2>1, FinalTuned DEF Tunes
    <3> QED BY <2>1, <3>1 DEF AtHand
  <2>2. CASE Settle /\ pc = "settle" /\ pc' = "write" /\ UNCHANGED <<confUp, radio>>
    <3>1. \A i \in 1..Len(confUp) : confUp[i] # "tx"
      BY <1>0, <2>2 DEF Settle
    <3>2. radio = "tx" /\ \A i \in 1..Len(confUp) : confUp[i] \notin Tunes
      BY <2>0, <2>2, <3>1 DEF FinalIs, Ends
    <3>3. radio' = radio /\ confUp' = confUp
      BY <2>2
    <3> QED BY <2>2, <3>2, <3>3 DEF AtHand
  <2>3. CASE Write /\ pc = "write" /\ pc' = "wait" /\ UNCHANGED <<confUp, radio, job, queue>>
    <3>1. radio' = radio /\ confUp' = confUp /\ job' = job /\ queue' = queue
      BY <2>3
    <3>2. Head(queue) \in Packets /\ \A p : p = Head(queue) => ~InSent(p)
      BY <2>3, WriteFacts
    <3>3. job.pkt # Head(queue)
      BY <3>2, Zenon DEF Passage
    <3> QED BY <2>0, <2>3, <3>1, <3>3 DEF AtHand
  <2>4. CASE DaemonConf /\ UNCHANGED <<pc, queue>>
    <3>1. /\ confUp # <<>> /\ confUp' = Tail(confUp)
          /\ radio' = IF Head(confUp) \in Tunes THEN Head(confUp) ELSE radio
          /\ Head(confUp) \notin Tunes => job' = job
      BY <2>4 DEF DaemonConf, Tunes
    <3>2. \A x : Ends(Tail(confUp), IF Head(confUp) \in Tunes THEN Head(confUp) ELSE radio, x) <=> FinalIs(x)
      BY <1>0, <3>1, EndsTail DEF FinalIs
    <3>3. \A x : FinalIs(x)' <=> FinalIs(x)
      BY <3>1, <3>2 DEF FinalIs, Ends
    <3>4. /\ Len(confUp) > 0 /\ Len(confUp') = Len(confUp) - 1 /\ Head(confUp) = confUp[1]
          /\ \A i \in 1..(Len(confUp) - 1) : confUp'[i] = confUp[i + 1]
      BY <1>0, <3>1, HeadTail
    <3>5. 1 \in 1..Len(confUp) /\ \A i \in 1..Len(confUp') : i + 1 \in 1..Len(confUp) /\ confUp'[i] = confUp[i + 1]
      BY <1>0, <3>4
    <3>6. pc \in {"write", "wait"} => /\ radio' = "tx" /\ job' = job
                                      /\ \A i \in 1..Len(confUp') : confUp'[i] \notin Tunes
      BY <2>0, <3>1, <3>4, <3>5
    <3>7. \A p : AtHand(p)' <=> AtHand(p)
      BY <2>4 DEF AtHand
    <3>8. pc' = pc
      BY <2>4
    <3>9. \A p \in Packets : AtHand(p)' /\ job'.pkt = p => job'.freq = "tx"
      BY <2>0, <3>6, <3>7 DEF AtHand
    <3>10. pc' = "settle" => FinalIs("tx")'
      BY <2>0, <3>3, <3>8
    <3> QED BY <3>6, <3>8, <3>9, <3>10
  <2>5. CASE DaemonStart /\ UNCHANGED <<pc, queue, confUp, radio>>
    <3>1. radio' = radio /\ confUp' = confUp /\ pc' = pc /\ job'.freq = radio
      BY <2>5 DEF DaemonStart
    <3>2. FinalIs("tx")' <=> FinalIs("tx")
      BY <3>1, FinalKept
    <3>3. \A p \in Packets : AtHand(p)' => job'.freq = "tx"
      BY <2>0, <3>1 DEF AtHand
    <3>4. pc \in {"write", "wait"} => radio' = "tx" /\ \A i \in 1..Len(confUp') : confUp'[i] \notin Tunes
      BY <2>0, <3>1
    <3> QED BY <2>0, <3>1, <3>2, <3>3, <3>4
  <2>6. CASE /\ UNCHANGED <<pc, queue, confUp, radio>>
             /\ job' = job \/ job' = NoJob \/ job' = [job EXCEPT !.live = FALSE]
    <3>1. radio' = radio /\ confUp' = confUp /\ pc' = pc /\ queue' = queue
      BY <2>6
    <3>2. FinalIs("tx")' <=> FinalIs("tx")
      BY <3>1, FinalKept
    <3>3. \A p : AtHand(p)' <=> AtHand(p)
      BY <3>1 DEF AtHand
    <3>4. \A p \in Packets : job'.pkt = p => job.pkt = p /\ job'.freq = job.freq
      <4>1. \A p \in Packets : NoJob.pkt # p
        BY PacketsAssumption DEF NoJob
      <4>2. [job EXCEPT !.live = FALSE].pkt = job.pkt /\ [job EXCEPT !.live = FALSE].freq = job.freq
        BY <1>0 DEF JobType
      <4> QED BY <2>6, <4>1, <4>2, Zenon
    <3>5. pc \in {"write", "wait"} => radio' = "tx" /\ \A i \in 1..Len(confUp') : confUp'[i] \notin Tunes
      BY <2>0, <3>1
    <3>6. \A p \in Packets : AtHand(p)' /\ job'.pkt = p => job'.freq = "tx"
      BY <2>0, <3>3, <3>4, Zenon
    <3> QED BY <2>0, <3>1, <3>2, <3>5, <3>6
  <2> QED BY <1>2, <2>1, <2>2, <2>3, <2>4, <2>5, <2>6, ApproachSteps
<1>3. \A p : AtHand(p)' => pc' = "wait"
  BY DEF AtHand
<1> QED BY <1>0, <1>1, <1>2, <1>3 DEF Tuned

(* A transmission on another frequency is on record, or will be as soon as *)
(* the receive frequency is to be restored over a connection that is gone. *)
Reported ==
    Shift => \A p \in Packets : \A f \in Freqs \ {"tx"} : <<p, f>> \in air =>
        \/ rflog[p] = "unconfirmed" \/ restoreFailed
        \/ conf = "dead" /\ pc \in {"wait", "restore1"} /\ Head(queue) = p

(* A record is not taken back. *)
LEMMA RecordStays ==
    ASSUME BaseInv, Legacy, "110" \notin Kinds, GivenUp, Shift, [Next]_vars, NEW p \in Packets,
           \/ rflog[p] = "unconfirmed" \/ restoreFailed
           \/ conf = "dead" /\ pc \in {"wait", "restore1"} /\ Head(queue) = p
    PROVE  \/ rflog'[p] = "unconfirmed" \/ restoreFailed'
           \/ conf' = "dead" /\ pc' \in {"wait", "restore1"} /\ Head(queue)' = p
<1> USE DEF linkVars
<1>0. rflog \in [Packets -> LogLines]
  BY DEF BaseInv, TypeOK
<1>1. CASE rflog[p] = "unconfirmed"
  <2>1. CASE WaitRead \/ WaitLost
    <3>1. pc = "wait" /\ ~AtHand(p)
      BY <1>1, <2>1 DEF WaitRead, WaitLost, GivenUp
    <3>2. Head(queue) # p
      BY <3>1 DEF AtHand
    <3>3. rflog' = rflog \/ \E v : rflog' = [rflog EXCEPT ![Head(queue)] = v]
      BY <2>1 DEF WaitRead, WaitLost
    <3> QED BY <1>0, <1>1, <3>2, <3>3
  <2>2. CASE ~WaitRead /\ ~WaitLost
    <3>1. ~ConfirmRead /\ ~ConfirmTimeout
      BY DEF ConfirmRead, ConfirmTimeout, Legacy
    <3> QED BY <1>1, <2>2, <3>1, HistorySteps
  <2> QED BY <2>1, <2>2
<1>2. CASE restoreFailed
  <2>1. restoreFailed' = restoreFailed \/ restoreFailed' = TRUE
    <3>1. CASE BridgeStep
      BY <3>1 DEF BridgeStep, Transmit, Start, StartConfig, StartData, Loop, DrainReads,
         DrainEmpty, DrainBlocked, DrainDisabled, DrainDrop, DrainWait, DrainSend, Return,
         SendNoFreq, Switch, Settle, Write, WaitLost, ConfirmRead, ConfirmTimeout,
         RestoreDone, RestoreFail, RestoreGiveUp, SelectReady, SelectInterrupted, SelectTimeout, Timeout,
         WaitRead
    <3>2. CASE DaemonStep \/ Signal \/ UNCHANGED vars
      BY <3>2 DEF DaemonStep, Signal, vars, bridgeVars
    <3> QED BY <3>1, <3>2 DEF Next
  <2> QED BY <1>2, <2>1, Zenon
<1>3. CASE conf = "dead" /\ pc \in {"wait", "restore1"} /\ Head(queue) = p
  <2>1. CASE BridgeStep
    <3>1. WaitRead \/ WaitLost \/ RestoreDone \/ RestoreFail
      BY <1>3, <2>1 DEF BridgeStep, Transmit, Start, StartConfig, StartData, Loop, DrainReads,
         DrainEmpty, DrainBlocked, DrainDisabled, DrainDrop, DrainWait, DrainSend, Return,
         SendNoFreq, Switch, Settle, Write, ConfirmRead, ConfirmTimeout,
         RestoreGiveUp, SelectReady, SelectInterrupted, SelectTimeout, Timeout
    <3>2. CASE WaitRead
      <4>1. UNCHANGED <<conf, queue>> /\ pc = "wait"
        BY <3>2 DEF WaitRead
      <4>2. pc' \in {"wait", "restore1"}
        BY <3>2, <4>1 DEF WaitRead
      <4> QED BY <1>3, <4>1, <4>2
    <3>3. CASE WaitLost
      BY <1>3, <3>3 DEF WaitLost
    <3>4. CASE RestoreDone
      BY <1>3, <3>4 DEF RestoreDone
    <3>5. CASE RestoreFail
      <4>1. restoreFailed' = TRUE
        BY <3>5 DEF RestoreFail
      <4> QED BY <4>1
    <3> QED BY <3>1, <3>2, <3>3, <3>4, <3>5
  <2>2. CASE DaemonStep
    <3>1. UNCHANGED <<pc, queue>>
      BY <2>2 DEF DaemonStep, bridgeVars
    <3>2. conf' = conf
      BY <1>3, <2>2 DEF DaemonStep, DaemonConf, DaemonStart, DaemonRefuse, DaemonDone, DaemonReceive,
         DaemonClosesConf, DaemonClosesData, DaemonCrash, DaemonBoot
    <3> QED BY <1>3, <3>1, <3>2
  <2>3. CASE Signal \/ UNCHANGED vars
    BY <1>3, <2>3 DEF Signal, vars, bridgeVars
  <2> QED BY <2>1, <2>2, <2>3 DEF Next
<1> QED BY <1>1, <1>2, <1>3, Zenon

LEMMA StepReported ==
    ASSUME "110" \notin Kinds, BaseInv, Legacy, GivenUp, Tuned, Reported, [Next]_vars
    PROVE  Reported'
<1>1. UNCHANGED cfg
  BY TuneSteps
<1>2. SUFFICES ASSUME Shift, NEW p \in Packets, NEW f \in Freqs \ {"tx"}, <<p, f>> \in air'
               PROVE  \/ rflog'[p] = "unconfirmed" \/ restoreFailed'
                      \/ conf' = "dead" /\ pc' \in {"wait", "restore1"} /\ Head(queue)' = p
  BY <1>1 DEF Reported, Shift
<1>3. CASE <<p, f>> \in air
  <2>1. \/ rflog[p] = "unconfirmed" \/ restoreFailed
        \/ conf = "dead" /\ pc \in {"wait", "restore1"} /\ Head(queue) = p
    BY <1>2, <1>3, Zenon DEF Reported
  <2> QED BY <1>2, <2>1, RecordStays
<1>4. CASE <<p, f>> \notin air
  <2>1. DaemonDone \/ DaemonCrash
    BY <1>2, <1>4, HistorySteps
  <2>2. job.pkt = p /\ job.freq = f
    <3>1. air' \subseteq air \union {<<job.pkt, job.freq>>}
      BY <2>1 DEF DaemonDone, DaemonCrash
    <3>2. <<p, f>> = <<job.pkt, job.freq>>
      BY <1>2, <1>4, <3>1, Zenon
    <3> QED BY <3>2
  <2>3. rflog[p] = "unconfirmed" \/ AtHand(p)
    BY <2>2 DEF GivenUp, Unfinished
  <2>4. CASE rflog[p] = "unconfirmed"
    BY <1>2, <2>4, RecordStays
  <2>5. CASE AtHand(p)
    <3>1. pc = "wait" /\ Head(queue) = p /\ conf \in {"up", "dead"}
      BY <2>5 DEF AtHand, Tuned, AwayPCs, Awaiting, BaseInv, TypeOK, Links
    <3>2. conf = "up" => job.freq = "tx"
      BY <1>2, <2>2, <2>5 DEF Tuned
    <3>3. conf = "dead"
      BY <1>2, <2>2, <3>1, <3>2
    <3> QED BY <1>2, <3>1, <3>3, RecordStays
  <2> QED BY <2>3, <2>4, <2>5
<1> QED BY <1>3, <1>4

-----------------------------------------------------------------------------
(* The frequency a packet goes out on: one frequency for both *)

(* The daemon has reported STATUS, read or not. *)
HasStatus ==
    status.have_status \/ \E i \in 1..Len(confDown) : confDown[i].kind = "STATUS"

(* Every STATUS that is asked for comes after a frequency. *)
Preceded(s, r) ==
    \A i \in 1..Len(s) : s[i] = "status" =>
        r # "none" \/ \E j \in 1..Len(s) : j < i /\ s[j] \in Tunes

(* A daemon that reports STATUS over a connection has been tuned before:   *)
(* the initial configuration asks for STATUS last.                         *)
Started ==
    /\ pc = "settle" => Shift
    /\ pc = "write" => cfg # "nofreq"
    /\ cfg # "nofreq" => Preceded(confUp, radio)
    /\ cfg # "nofreq" /\ conf = "up" /\ HasStatus => radio # "none"

(* Reading the lines does not change what was reported. *)
LEMMA StatusRead ==
    ASSUME TypeOK, status' = ReadConf, confDown' = <<>>
    PROVE  HasStatus' => HasStatus
<1>1. Len(confDown) \in Nat /\ DOMAIN confDown = 1..Len(confDown)
  BY DEF TypeOK
<1>2. ReadConf.have_status <=> \/ status.have_status
                               \/ \E i \in DOMAIN confDown : confDown[i].kind = "STATUS"
  BY Zenon DEF ReadConf
<1>3. status'.have_status <=> HasStatus
  BY <1>1, <1>2, Zenon DEF HasStatus
<1>4. \A i \in 1..Len(confDown') : FALSE
  OBVIOUS
<1> QED BY <1>3, <1>4, Zenon DEF HasStatus

LEMMA StatusKept ==
    ASSUME UNCHANGED <<status, confDown>>
    PROVE  HasStatus' => HasStatus
<1>1. status' = status /\ confDown' = confDown
  OBVIOUS
<1> QED BY <1>1 DEF HasStatus

(* Neither does a configuration, which forgets what was read. *)
LEMMA StatusForgotten ==
    ASSUME TypeOK, SendInitialConfig, UNCHANGED confDown
    PROVE  HasStatus' => HasStatus
<1>1. CASE UNCHANGED status
  BY <1>1, StatusKept
<1>2. CASE status' = [status EXCEPT !.have_status = FALSE, !.txresult = "absent"]
  <2>1. ~status'.have_status /\ confDown' = confDown
    BY <1>2, ForgetTruthful
  <2> QED BY <2>1, Zenon DEF HasStatus
<1> QED BY <1>1, <1>2 DEF SendInitialConfig

(* A new connection has reported nothing. *)
LEMMA StatusNone ==
    ASSUME Truth, conf = "none", UNCHANGED <<status, confDown>>
    PROVE  ~HasStatus'
<1>1. status' = NoStatus /\ confDown' = <<>> /\ ~NoStatus.have_status
  BY DEF Truth, NoStatus
<1>2. \A i \in 1..Len(confDown') : FALSE
  BY <1>1
<1> QED BY <1>1, <1>2, Zenon DEF HasStatus

LEMMA StatusSteps ==
    ASSUME BaseInv, Truth, [Next]_vars, conf' = "up", HasStatus'
    PROVE  conf = "up" /\ (HasStatus \/ (DaemonConf /\ Head(confUp) = "status"))
<1> USE DEF linkVars, daemonVars
<1>0. TypeOK
  BY DEF BaseInv
<1>1. CASE BridgeStep \/ Signal \/ UNCHANGED vars
  <2>1. CASE Start
    <3>1. conf = "none" /\ UNCHANGED <<status, confDown>>
      BY <2>1 DEF Start, Truth
    <3> QED BY <3>1, StatusNone
  <2>2. CASE StartConfig
    BY <1>0, <2>2, StatusForgotten DEF StartConfig
  <2>3. CASE StartData \/ Loop \/ DrainEmpty \/ SendNoFreq \/ Switch \/ Settle
             \/ Write \/ WaitLost \/ ConfirmTimeout
    <3>1. UNCHANGED <<conf, status, confDown>>
      BY <2>3 DEF StartData, Loop, DrainEmpty, SendNoFreq, Switch, Settle, Write, WaitLost,
         ConfirmTimeout
    <3> QED BY <3>1, StatusKept
  <2>4. CASE WaitRead
    BY <2>4, StatusKept DEF WaitRead
  <2>5. CASE RestoreDone \/ RestoreFail \/ RestoreGiveUp \/ SelectInterrupted \/ SelectTimeout
    <3>1. UNCHANGED <<conf, status, confDown>>
      BY <2>5 DEF RestoreDone, RestoreFail, RestoreGiveUp, SelectInterrupted, SelectTimeout
    <3> QED BY <3>1, StatusKept
  <2>6. CASE DrainBlocked \/ DrainDisabled \/ DrainDrop \/ DrainWait \/ DrainSend
    <3>1. status' = Fresh /\ confDown' = <<>> /\ UNCHANGED conf
      BY <2>6 DEF DrainBlocked, DrainDisabled, DrainDrop, DrainWait, DrainSend, DrainReads
    <3>2. conf = "up" /\ status' = ReadConf
      BY <3>1 DEF Fresh
    <3> QED BY <1>0, <3>1, <3>2, StatusRead
  <2>7. CASE Return
    <3>1. CloseConf \/ KeepConf
      BY <2>7, Zenon DEF Return
    <3>2. UNCHANGED <<conf, status, confDown>>
      BY <3>1 DEF CloseConf, KeepConf
    <3> QED BY <3>2, StatusKept
  <2>8. CASE ConfirmRead
    <3>1. status' = ReadConf /\ confDown' = <<>> /\ UNCHANGED conf
      BY <2>8 DEF ConfirmRead
    <3> QED BY <1>0, <3>1, StatusRead
  <2>9. CASE SelectReady
    <3>1. \/ CloseConf \/ KeepConf
          \/ status' = ReadConf /\ confDown' = <<>> /\ UNCHANGED conf
      BY <2>9, Zenon DEF SelectReady, HandleConf
    <3> QED BY <1>0, <3>1, StatusKept, StatusRead DEF CloseConf, KeepConf
  <2>10. CASE Timeout
    <3>1. ReconnectOrConfigure /\ UNCHANGED confDown
      BY <2>10 DEF Timeout
    <3>2. \/ conf = "none" /\ UNCHANGED status
          \/ UNCHANGED <<conf, status>>
          \/ SendInitialConfig /\ UNCHANGED conf
      BY <3>1 DEF ReconnectOrConfigure
    <3> QED BY <1>0, <3>1, <3>2, StatusNone, StatusKept, StatusForgotten
  <2>11. CASE Signal \/ UNCHANGED vars
    <3>1. UNCHANGED <<conf, status, confDown>>
      BY <2>11 DEF Signal, vars, bridgeVars
    <3> QED BY <3>1, StatusKept
  <2> QED BY <1>1, <2>1, <2>2, <2>3, <2>4, <2>5, <2>6, <2>7, <2>8, <2>9, <2>10, <2>11
         DEF BridgeStep, Transmit
<1>2. CASE DaemonStep
  <2>0. UNCHANGED status
    BY <1>2 DEF DaemonStep, bridgeVars
  <2>1. CASE DaemonConf
    <3>1. UNCHANGED conf /\ (Head(confUp) # "status" => UNCHANGED confDown)
      BY <2>1 DEF DaemonConf
    <3> QED BY <2>0, <2>1, <3>1, StatusKept
  <2>2. CASE DaemonStart \/ DaemonDone
    <3>1. UNCHANGED conf /\ \E b \in BOOLEAN : confDown' = ToConf(TxLine(b))
      BY <2>2 DEF DaemonStart, DaemonDone
    <3>2. PICK b \in BOOLEAN : confDown' = ToConf(TxLine(b))
      BY <3>1
    <3>3. TxLine(b) \in LineType /\ TxLine(b).kind = "TX" /\ confDown \in Seq(LineType)
      BY <1>0, ConstantTypes DEF TxLine, TypeOK, LineType
    <3>4. conf = "up" /\ confDown' = Append(confDown, TxLine(b))
      BY <3>1, <3>2 DEF ToConf
    <3> DEFINE l == TxLine(b)
    <3> HIDE DEF l
    <3>5. \A i \in 1..Len(confDown') :
             (i \in 1..Len(confDown) /\ confDown'[i] = confDown[i]) \/ confDown'[i] = l
      <4>1. confDown' = Append(confDown, l)
        BY <3>4 DEF l
      <4> QED BY <3>3, <4>1
    <3>6. l.kind # "STATUS"
      BY <3>3 DEF l
    <3>7. \A i \in 1..Len(confDown') : confDown'[i].kind = "STATUS" =>
             i \in 1..Len(confDown) /\ confDown[i].kind = "STATUS"
      BY <3>5, <3>6
    <3> QED BY <2>0, <3>4, <3>7, Zenon DEF HasStatus
  <2>3. CASE DaemonRefuse \/ DaemonReceive \/ DaemonClosesData \/ DaemonBoot
    <3>1. UNCHANGED <<conf, confDown>>
      BY <2>3 DEF DaemonRefuse, DaemonReceive, DaemonClosesData, DaemonBoot
    <3> QED BY <2>0, <3>1, StatusKept
  <2>4. CASE DaemonClosesConf \/ DaemonCrash
    BY <2>4 DEF DaemonClosesConf, DaemonCrash
  <2> QED BY <1>2, <2>1, <2>2, <2>3, <2>4 DEF DaemonStep
<1> QED BY <1>1, <1>2 DEF Next

LEMMA PrecededConcat ==
    ASSUME NEW s \in Seq(Commands), NEW t \in Seq(Commands), NEW r, Preceded(s, r),
           \A i \in 1..Len(t) : t[i] = "status" => \E j \in 1..Len(t) : j < i /\ t[j] \in Tunes
    PROVE  Preceded(s \o t, r)
<1> DEFINE u == s \o t
           m == Len(s)
<1>1. /\ m \in Nat /\ Len(t) \in Nat /\ Len(u) = m + Len(t)
      /\ \A i \in 1..m : u[i] = s[i]
      /\ \A i \in 1..Len(t) : u[m + i] = t[i]
  BY ConcatProperties
<1> HIDE DEF u, m
<1>2. ASSUME NEW i \in 1..Len(u), u[i] = "status", r = "none"
      PROVE  \E j \in 1..Len(u) : j < i /\ u[j] \in Tunes
  <2>1. CASE i <= m
    <3>1. i \in 1..m /\ s[i] = "status"
      BY <1>1, <1>2, <2>1
    <3>2. PICK j \in 1..m : j < i /\ s[j] \in Tunes
      BY <1>2, <3>1 DEF Preceded, m
    <3>3. j \in 1..Len(u) /\ u[j] \in Tunes
      BY <1>1, <3>2
    <3> QED BY <3>2, <3>3
  <2>2. CASE i > m
    <3>1. PICK k \in 1..Len(t) : i = m + k
      <4>1. i - m \in 1..Len(t) /\ i = m + (i - m)
        BY <1>1, <2>2
      <4> QED BY <4>1
    <3>2. t[k] = "status"
      BY <1>1, <1>2, <3>1
    <3>3. PICK j \in 1..Len(t) : j < k /\ t[j] \in Tunes
      BY <3>2
    <3>4. m + j \in 1..Len(u) /\ m + j < i /\ u[m + j] \in Tunes
      BY <1>1, <3>1, <3>3
    <3> QED BY <3>4
  <2> QED BY <1>1, <2>1, <2>2
<1> QED BY <1>2 DEF Preceded, u

LEMMA PrecededTail ==
    ASSUME NEW s \in Seq(Commands), s # <<>>, NEW r, Preceded(s, r)
    PROVE  /\ Preceded(Tail(s), IF Head(s) \in Tunes THEN Head(s) ELSE r)
           /\ Head(s) = "status" => r # "none"
<1> DEFINE q == IF Head(s) \in Tunes THEN Head(s) ELSE r
<1>1. /\ Len(s) \in Nat /\ Len(s) > 0 /\ Len(Tail(s)) = Len(s) - 1 /\ Head(s) = s[1]
      /\ \A i \in 1..(Len(s) - 1) : Tail(s)[i] = s[i + 1]
  BY HeadTail
<1>2. ASSUME NEW i \in 1..Len(Tail(s)), Tail(s)[i] = "status", q = "none"
      PROVE  \E j \in 1..Len(Tail(s)) : j < i /\ Tail(s)[j] \in Tunes
  <2>1. i + 1 \in 1..Len(s) /\ s[i + 1] = "status"
    BY <1>1, <1>2
  <2>2. r = "none" /\ s[1] \notin Tunes
    BY <1>1, <1>2 DEF Tunes
  <2>3. PICK j \in 1..Len(s) : j < i + 1 /\ s[j] \in Tunes
    BY <2>1, <2>2 DEF Preceded
  <2>4. j # 1
    BY <2>2, <2>3
  <2>5. j - 1 \in 1..Len(Tail(s)) /\ j - 1 < i /\ Tail(s)[j - 1] = s[j]
    BY <1>1, <2>3, <2>4
  <2> QED BY <2>3, <2>5
<1> HIDE DEF q
<1>3. Preceded(Tail(s), q)
  BY <1>2 DEF Preceded
<1>4. Head(s) = "status" => r # "none"
  <2>1. 1 \in 1..Len(s) /\ \A j \in 1..Len(s) : ~(j < 1)
    BY <1>1
  <2> QED BY <1>1, <2>1 DEF Preceded
<1> QED BY <1>3, <1>4 DEF q

LEMMA PrecededConfigured ==
    ASSUME TypeOK, SendInitialConfig, cfg # "nofreq", Preceded(confUp, radio)
    PROVE  Preceded(confUp', radio)
<1>1. /\ InitialConfig \in Seq(Commands) /\ Len(InitialConfig) = 3 /\ confUp \in Seq(Commands)
      /\ InitialConfig[1] = "rx" /\ InitialConfig[2] = "txresult" /\ InitialConfig[3] = "status"
  BY InitialConfigType DEF TypeOK
<1>2. ASSUME NEW n \in 0..3, confUp' = confUp \o SubSeq(InitialConfig, 1, n)
      PROVE  Preceded(confUp', radio)
  <2> DEFINE t == SubSeq(InitialConfig, 1, n)
  <2>1. t \in Seq(Commands) /\ Len(t) = n /\ \A i \in 1..n : t[i] = InitialConfig[i]
    <3>1. ASSUME NEW i \in 1..n PROVE InitialConfig[i] \in Commands
      <4>1. i \in 1..Len(InitialConfig)
        BY <1>1
      <4> QED BY <1>1, <4>1, ElementOfSeq
    <3>2. t \in Seq(Commands) /\ Len(t) = n
      BY <1>1, <3>1, SubSeqProperties
    <3>3. \A i \in 1..n : t[i] = InitialConfig[i]
      BY <1>1
    <3> QED BY <3>2, <3>3
  <2> HIDE DEF t
  <2>2. ASSUME NEW i \in 1..Len(t), t[i] = "status"
        PROVE  \E j \in 1..Len(t) : j < i /\ t[j] \in Tunes
    <3>1. i \in {1, 2, 3} /\ t[i] = InitialConfig[i] /\ 1 \in 1..n
      BY <1>2, <2>1, <2>2
    <3>2. i = 3
      BY <1>1, <2>2, <3>1
    <3>3. 1 \in 1..Len(t) /\ 1 < i /\ t[1] \in Tunes
      BY <1>1, <2>1, <3>1, <3>2 DEF Tunes
    <3> QED BY <3>3
  <2>3. Preceded(confUp \o t, radio)
    BY <1>1, <2>1, <2>2, PrecededConcat
  <2> QED BY <1>2, <2>3 DEF t
<1>3. CASE UNCHANGED confUp
  BY <1>3 DEF Preceded
<1>4. CASE confUp' = confUp \o InitialConfig
  <2>1. InitialConfig = SubSeq(InitialConfig, 1, 3)
    BY <1>1
  <2>2. confUp' = confUp \o SubSeq(InitialConfig, 1, 3)
    BY <1>4, <2>1, Zenon
  <2> QED BY <1>2, <2>2
<1>5. CASE \E n \in 0..2 : confUp' = confUp \o SubSeq(InitialConfig, 1, n)
  <2>1. PICK n \in 0..2 : confUp' = confUp \o SubSeq(InitialConfig, 1, n)
    BY <1>5
  <2> QED BY <1>2, <2>1
<1>6. \/ UNCHANGED confUp
      \/ confUp' = confUp \o InitialConfig
      \/ \E n \in 0..2 : confUp' = confUp \o SubSeq(InitialConfig, 1, n)
  <2>1. (IF conf = "up" THEN 0..2 ELSE {0}) \subseteq 0..2
    OBVIOUS
  <2> QED BY <2>1, Zenon DEF SendInitialConfig
<1> QED BY <1>3, <1>4, <1>5, <1>6

LEMMA StepPreceded ==
    ASSUME TypeOK, cfg # "nofreq", Preceded(confUp, radio), [Next]_vars
    PROVE  Preceded(confUp', radio')
<1>0. confUp \in Seq(Commands) /\ Len(confUp) \in Nat
  BY DEF TypeOK
<1>1. CASE UNCHANGED <<confUp, radio>>
  BY <1>1 DEF Preceded
<1>2. CASE CloseConf /\ UNCHANGED radio
  <2>1. confUp' = [i \in 1..Len(confUp) |-> IF confUp[i] = "status" THEN "plain" ELSE confUp[i]]
    BY <1>0, <1>2 DEF CloseConf
  <2>2. \A i \in 1..Len(confUp') : confUp'[i] # "status"
    BY <1>0, <2>1
  <2> QED BY <2>2 DEF Preceded
<1>3. CASE SendInitialConfig /\ UNCHANGED radio
  BY <1>3, PrecededConfigured
<1>4. ASSUME NEW c \in Tunes, confUp' = Append(confUp, c), UNCHANGED radio
      PROVE  Preceded(confUp', radio')
  <2> DEFINE t == <<c>>
  <2>1. /\ t \in Seq(Commands) /\ confUp' = confUp \o t
        /\ \A i \in 1..Len(t) : t[i] # "status"
    BY <1>0, <1>4, AppendIsConcat DEF Tunes, Commands
  <2> HIDE DEF t
  <2>2. Preceded(confUp \o t, radio)
    BY <1>0, <2>1, PrecededConcat
  <2> QED BY <1>4, <2>1, <2>2
<1>5. CASE DaemonConf
  <2>1. /\ confUp # <<>> /\ confUp' = Tail(confUp)
        /\ radio' = IF Head(confUp) \in Tunes THEN Head(confUp) ELSE radio
    BY <1>5 DEF DaemonConf, Tunes
  <2> QED BY <1>0, <2>1, PrecededTail
<1>6. CASE DaemonClosesConf \/ DaemonCrash
  <2>1. confUp' = <<>>
    BY <1>6 DEF DaemonClosesConf, DaemonCrash
  <2> QED BY <2>1 DEF Preceded
<1>7. "tx" \in Tunes /\ "rx" \in Tunes
  BY DEF Tunes
<1> QED BY <1>1, <1>2, <1>3, <1>4, <1>5, <1>6, <1>7, TuneSteps

(* Once tuned the radio stays tuned until the daemon ends. *)
LEMMA RadioStays ==
    ASSUME TypeOK, [Next]_vars, ~DaemonCrash
    PROVE  /\ radio # "none" => radio' # "none"
           /\ ~Shift /\ NoTune /\ radio = "rx" => radio' = "rx"
<1>1. CASE DaemonConf
  <2>1. confUp # <<>> /\ radio' = IF Head(confUp) \in Tunes THEN Head(confUp) ELSE radio
    BY <1>1 DEF DaemonConf, Tunes
  <2>2. Head(confUp) = confUp[1] /\ 1 \in 1..Len(confUp)
    <3>1. Head(confUp) = confUp[1] /\ Len(confUp) \in Nat /\ Len(confUp) > 0
      BY <2>1, HeadTail DEF TypeOK
    <3> QED BY <3>1
  <2> QED BY <2>1, <2>2 DEF NoTune, Tunes
<1>2. CASE ~DaemonConf
  <2>1. UNCHANGED radio
    BY <1>2, TuneSteps DEF DaemonClosesConf, daemonVars
  <2> QED BY <2>1
<1> QED BY <1>1, <1>2

LEMMA StepStarted ==
    ASSUME BaseInv, Truth, Started, [Next]_vars
    PROVE  Started'
<1>0. TypeOK /\ cfg' = cfg /\ (Shift' <=> Shift)
  BY TuneSteps DEF BaseInv, Shift
<1>1. (pc' = "settle" => Shift) /\ (pc' = "write" => cfg # "nofreq")
  <2>1. CASE BridgeStep
    BY <2>1 DEF Started, Shift, BridgeStep, Transmit, Start, StartConfig, StartData, Loop,
       DrainEmpty, DrainBlocked, DrainDisabled, DrainDrop, DrainWait, DrainSend, Return,
       SendNoFreq, Switch, Settle, Write, WaitRead, WaitLost, ConfirmRead, ConfirmTimeout, Confirmed,
       RestoreDone, RestoreFail, RestoreGiveUp, SelectReady, SelectInterrupted, SelectTimeout, Timeout
  <2>2. CASE DaemonStep \/ Signal \/ UNCHANGED vars
    BY <2>2 DEF Started, DaemonStep, Signal, vars, bridgeVars
  <2> QED BY <2>1, <2>2 DEF Next
<1>2. cfg # "nofreq" => Preceded(confUp', radio')
  BY <1>0, StepPreceded DEF Started
<1>3. ASSUME cfg # "nofreq", conf' = "up", HasStatus'
      PROVE  radio' # "none"
  <2>1. conf = "up" /\ (HasStatus \/ (DaemonConf /\ Head(confUp) = "status"))
    BY <1>3, StatusSteps
  <2>2. radio # "none"
    <3>1. CASE HasStatus
      BY <1>3, <2>1, <3>1 DEF Started
    <3>2. CASE DaemonConf /\ Head(confUp) = "status"
      <4>1. confUp # <<>> /\ confUp \in Seq(Commands)
        BY <1>0, <3>2 DEF DaemonConf, TypeOK
      <4> QED BY <1>3, <3>2, <4>1, PrecededTail DEF Started
    <3> QED BY <2>1, <3>1, <3>2
  <2>3. ~DaemonCrash
    BY <1>3 DEF DaemonCrash
  <2> QED BY <1>0, <2>2, <2>3, RadioStays
<1>4. cfg # "nofreq" => Preceded(confUp, radio)'
  BY <1>2 DEF Preceded
<1> QED BY <1>0, <1>1, <1>3, <1>4 DEF Started

(* With one frequency the radio is on it from the gate of the drain, and   *)
(* as long as the daemon has a packet; another job has never been.         *)
Steady ==
    ~Shift =>
       /\ pc \in {"switch", "write"} /\ data = "up" /\ cfg # "nofreq" => radio = "rx"
       /\ \A p \in Packets : Unfinished(p) => radio = "rx"
       /\ \A p \in Packets : job.pkt = p => job.freq = "rx"
       /\ \A p \in Packets : \A f \in Freqs : <<p, f>> \in air => f = "rx"

(* The gate of the drain and the steps up to the write. *)
LEMMA SteadyGate ==
    ASSUME BaseInv, NoTune, Started, Steady, [Next]_vars, ~Shift,
           pc' \in {"switch", "write"}, data' = "up", cfg # "nofreq"
    PROVE  radio' = "rx"
<1> USE DEF linkVars
<1>0. TypeOK /\ radio \in Freqs
  BY DEF BaseInv, TypeOK
<1>1. CASE DrainSend
  <2>1. conf = "up" /\ Fresh.have_status
    BY <1>1, Zenon DEF DrainSend, GatesOpen
  <2>2. HasStatus
    <3>1. DOMAIN confDown = 1..Len(confDown)
      BY <1>0 DEF TypeOK
    <3>2. ReadConf.have_status
      BY <2>1 DEF Fresh
    <3>3. ReadConf.have_status <=> \/ status.have_status
                                   \/ \E i \in DOMAIN confDown : confDown[i].kind = "STATUS"
      BY Zenon DEF ReadConf
    <3> QED BY <3>1, <3>2, <3>3, Zenon DEF HasStatus
  <2>3. radio = "rx"
    BY <1>0, <2>1, <2>2 DEF Started, NoTune, Freqs
  <2>4. UNCHANGED radio
    BY <1>1, BridgeKeeps DEF BridgeStep
  <2> QED BY <2>3, <2>4
<1>2. CASE BridgeStep /\ ~DrainSend
  <2>1. pc \in {"switch", "write"} /\ UNCHANGED data
    BY <1>2 DEF Started, BridgeStep, Transmit, Start, StartConfig, StartData, Loop,
       DrainEmpty, DrainBlocked, DrainDisabled, DrainDrop, DrainWait, Return,
       SendNoFreq, Switch, Settle, Write, WaitRead, WaitLost, ConfirmRead, ConfirmTimeout, Confirmed,
       RestoreDone, RestoreFail, RestoreGiveUp, SelectReady, SelectInterrupted, SelectTimeout, Timeout
  <2>2. UNCHANGED radio
    BY <1>2, BridgeKeeps
  <2> QED BY <2>1, <2>2 DEF Steady
<1>3. CASE DaemonStep \/ Signal \/ UNCHANGED vars
  <2>1. UNCHANGED pc
    BY <1>3 DEF DaemonStep, Signal, vars, bridgeVars
  <2>2. data = "up" /\ ~DaemonCrash
    <3>1. CASE DaemonStep
      BY <3>1 DEF DaemonStep, DaemonConf, DaemonStart, DaemonRefuse, DaemonDone, DaemonReceive,
         DaemonClosesConf, DaemonClosesData, DaemonCrash, DaemonBoot
    <3>2. CASE Signal \/ UNCHANGED vars
      BY <3>2 DEF Signal, vars, DaemonCrash
    <3> QED BY <1>3, <3>1, <3>2
  <2>3. radio = "rx"
    BY <2>1, <2>2 DEF Steady
  <2> QED BY <1>0, <2>2, <2>3, RadioStays
<1> QED BY <1>1, <1>2, <1>3 DEF Next

LEMMA StepSteady ==
    ASSUME BaseInv, QueueOrder, PartAtEnd, NoTune, Started, Steady, [Next]_vars
    PROVE  Steady'
<1>0. TypeOK /\ cfg' = cfg /\ (Shift' <=> Shift) /\ job \in JobType
  BY TuneSteps DEF BaseInv, TypeOK, JobType, Shift
<1> SUFFICES ASSUME ~Shift
             PROVE  /\ pc' \in {"switch", "write"} /\ data' = "up" /\ cfg' # "nofreq" => radio' = "rx"
                    /\ \A p \in Packets : Unfinished(p)' => radio' = "rx"
                    /\ \A p \in Packets : job'.pkt = p => job'.freq = "rx"
                    /\ \A p \in Packets : \A f \in Freqs : <<p, f>> \in air' => f = "rx"
  BY <1>0 DEF Steady
<1>1. pc' \in {"switch", "write"} /\ data' = "up" /\ cfg' # "nofreq" => radio' = "rx"
  BY <1>0, SteadyGate
<1>2. ASSUME NEW p \in Packets, Unfinished(p)'
      PROVE  radio = "rx" /\ radio' = "rx" /\ (~Write => Unfinished(p))
  <2>1. CASE Write
    <3>1. UNCHANGED <<radio, job>> /\ pc = "write"
      BY <2>1 DEF Write, daemonVars
    <3>2. InUp(p)' => InUp(p) \/ pc' \in Awaiting
      BY <2>1, WriteFacts
    <3>3. pc' \in Awaiting => data = "up"
      BY <2>1 DEF Write, Awaiting
    <3>4. Unfinished(p) \/ data = "up"
      BY <1>2, <3>1, <3>2, <3>3 DEF Unfinished
    <3>5. radio = "rx"
      BY <3>1, <3>4 DEF Steady, Started
    <3> QED BY <2>1, <3>1, <3>5
  <2>2. CASE ~Write
    <3>1. Unfinished(p)
      BY <1>2, <2>2, UnfinishedBefore
    <3>2. ~DaemonCrash
      <4>1. SUFFICES ASSUME DaemonCrash PROVE FALSE
        OBVIOUS
      <4>2. dataUp' = <<>> /\ job' = NoJob
        BY <4>1 DEF DaemonCrash
      <4>3. job'.pkt = 0 /\ p # 0
        BY <4>2, PacketsAssumption DEF NoJob
      <4> QED BY <1>2, <4>2, <4>3 DEF Unfinished, InUp
    <3>3. radio = "rx"
      BY <3>1 DEF Steady
    <3> QED BY <1>0, <3>1, <3>2, <3>3, RadioStays
  <2> QED BY <2>1, <2>2
<1>3. ASSUME NEW p \in Packets, job'.pkt = p
      PROVE  job'.freq = "rx"
  <2>1. Unfinished(p)'
    BY <1>3 DEF Unfinished
  <2>2. CASE DaemonStart
    <3>1. job'.freq = radio
      BY <2>2 DEF DaemonStart
    <3> QED BY <1>2, <2>1, <3>1
  <2>3. CASE DaemonConf
    <3>1. /\ confUp # <<>>
          /\ job' = IF Head(confUp) \in Tunes /\ job # NoJob /\ job.freq # Head(confUp)
                    THEN [job EXCEPT !.freq = "none"] ELSE job
      BY <2>3 DEF DaemonConf, Tunes
    <3>2. Head(confUp) # "tx"
      <4>1. Head(confUp) = confUp[1] /\ Len(confUp) \in Nat /\ Len(confUp) > 0
        BY <1>0, <3>1, HeadTail DEF TypeOK
      <4>2. 1 \in 1..Len(confUp)
        BY <4>1
      <4> QED BY <4>1, <4>2 DEF NoTune
    <3>3. job'.pkt = job.pkt
      BY <1>0, <3>1 DEF JobType
    <3>4. job.freq = "rx"
      BY <1>3, <3>3 DEF Steady
    <3> QED BY <3>1, <3>2, <3>4 DEF Tunes
  <2>4. CASE ~DaemonStart /\ ~DaemonConf
    <3>1. job' = job \/ job' = NoJob \/ job' = [job EXCEPT !.live = FALSE]
      BY <2>4, DataSteps DEF CloseData, Write, WaitRead, DaemonRefuse, DaemonDone, DaemonReceive,
         DaemonClosesData, DaemonCrash, DaemonBoot, daemonVars
    <3>2. [job EXCEPT !.live = FALSE].pkt = job.pkt /\ [job EXCEPT !.live = FALSE].freq = job.freq
      BY <1>0 DEF JobType
    <3>3. NoJob.pkt # p
      BY PacketsAssumption DEF NoJob
    <3>4. job.pkt = p /\ job'.freq = job.freq
      BY <1>3, <3>1, <3>2, <3>3, Zenon
    <3> QED BY <3>4 DEF Steady
  <2> QED BY <2>2, <2>3, <2>4
<1>4. ASSUME NEW p \in Packets, NEW f \in Freqs, <<p, f>> \in air'
      PROVE  f = "rx"
  <2>1. CASE <<p, f>> \in air
    BY <2>1 DEF Steady
  <2>2. CASE <<p, f>> \notin air
    <3>1. DaemonDone \/ DaemonCrash
      BY <1>4, <2>2, HistorySteps
    <3>2. air' \subseteq air \union {<<job.pkt, job.freq>>}
      BY <3>1 DEF DaemonDone, DaemonCrash
    <3>3. <<p, f>> = <<job.pkt, job.freq>>
      BY <1>4, <2>2, <3>2, Zenon
    <3>4. job.pkt = p /\ job.freq = f
      BY <3>3
    <3> QED BY <3>4 DEF Steady
  <2> QED BY <2>1, <2>2
<1> QED BY <1>1, <1>2, <1>3, <1>4

(* With every daemon that has TX_RESULT, a transmission on another         *)
(* frequency than the configured one never goes unnoticed: the RF log      *)
(* calls it unconfirmed, a failed restore is counted, or the CONF          *)
(* connection has just been lost.  The settling time has to cover the      *)
(* retuning (tx_settle_ms is what the operator sets it to): without it the *)
(* packet overtakes the frequency command, and nothing on either socket    *)
(* tells so.  Daemons without TX_RESULT are left out because an "ok" of    *)
(* wait_tx_complete says nothing (MCBridgeLegacy.cfg).                     *)
THEOREM OffFrequencyOnRecord ==
    ASSUME SettleCovers, "110" \notin Kinds
    PROVE  Spec => []OffFrequencyReported
<1> DEFINE Basis == BaseInv /\ QueueOrder /\ PartAtEnd /\ KnowsDaemon /\ Tuning /\ Answer
                    /\ Passage /\ Told /\ Legacy
           Course == GivenUp /\ Tuned /\ Reported /\ Started /\ Steady
<1>1. Spec => []Basis
  BY BaseInvariant, OrderInvariant, PartsInvariant, KnowsInvariant, TuningInvariant,
     AnswerInvariant, FateInvariant, LegacyInvariant, PTL
<1>2. Init => Course
  <2> SUFFICES ASSUME Init PROVE Course
    OBVIOUS
  <2>1. /\ pc = "start" /\ dataUp = <<>> /\ job = NoJob /\ air = {} /\ conf = "none" /\ confUp = <<>>
        /\ \A p \in Packets : rflog[p] = "none"
    BY DEF Init, DaemonInit
  <2>2. \A p \in Packets : job.pkt # p
    BY <2>1, PacketsAssumption DEF NoJob
  <2>3. \A p \in Packets : ~Unfinished(p) /\ ~AtHand(p)
    BY <2>1, <2>2 DEF Unfinished, InUp, AtHand
  <2>4. GivenUp
    BY <2>1, <2>3 DEF GivenUp
  <2>5. Tuned
    BY <2>1 DEF Tuned, AwayPCs, Awaiting, Ending
  <2>6. Reported /\ Steady
    BY <2>1, <2>2, <2>3 DEF Reported, Steady
  <2>7. Started
    BY <2>1 DEF Started, Preceded
  <2> QED BY <2>4, <2>5, <2>6, <2>7
<1>3. Basis /\ Course /\ [Next]_vars => Course'
  <2> SUFFICES ASSUME Basis, Course, [Next]_vars PROVE Course'
    OBVIOUS
  <2>1. GivenUp'
    BY StepGivenUp
  <2>2. Tuned'
    BY StepTuned
  <2>3. Reported'
    BY StepReported
  <2>4. Started'
    BY StepStarted DEF KnowsDaemon
  <2>5. Steady'
    BY StepSteady DEF Tuning
  <2> QED BY <2>1, <2>2, <2>3, <2>4, <2>5
<1>4. Course => OffFrequencyReported
  <2> SUFFICES ASSUME Reported, Steady, NEW p \in Packets, NEW f \in Freqs \ {TxFreq}, <<p, f>> \in air
               PROVE  rflog[p] = "unconfirmed" \/ restoreFailed \/ conf = "dead"
    BY DEF OffFrequencyReported
  <2>1. CASE Shift
    BY <2>1, Zenon DEF TxFreq, Reported
  <2>2. CASE ~Shift
    BY <2>2 DEF TxFreq, Steady
  <2> QED BY <2>1, <2>2
<1> HIDE DEF Basis, Course
<1> QED BY <1>1, <1>2, <1>3, <1>4, PTL DEF Spec
=============================================================================
