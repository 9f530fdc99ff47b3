# A TLA+ model of loraham-kiss-tnc

loraham-kiss-tnc is a single-threaded bridge between one KISS/TCP client (an
APRS program) and the LoRaHAM radio daemon.  The client's AX.25 frames become
LoRa packets that the daemon transmits; packets the daemon receives become KISS
frames for the client.  On split frequencies the bridge itself switches the
radio to the transmit frequency for each packet and back again.

This directory holds the specifications of the parts of the bridge that are
hard to test, the TLC configurations that check them, and TLAPS proofs.
`PROJECT.json` relates every definition to the lines it models, every hazard to
the properties that watch it, and every property to a plausible coding slip
(the operators commented "Slip: ...") that it catches.

    tlc -config MCBridge.cfg MCBridge        # a run
    tlapm TxQueueProofs.tla                  # the proofs of a module

## Inventory

| Part | Source | State | Operations |
|------|--------|-------|------------|
| Main loop | `bridge.c`, `bridge_runtime.c` | sockets, `config_ok`, stop flag, statistics | start-up, drain, select and its handlers, timeout: reconnect or configure, signal |
| Transmit path | `bridge_loraham.c` | none of its own between calls; the radio's frequency at the daemon | switch, settle, write, wait for TX_RESULT or TX=1/TX=0, restore with one retry |
| Outgoing queue | `bridge_tx_queue.c` | ring, head, count, start of the busy wait | push, pop, decision about the head |
| CONF lines | `bridge_conf.c` | line buffer, flags and event counters | feed, handle line, collect CAD statistics |
| Framed DATA decoder | `loraham_sock.c`, `bridge_rx.c` | header and payload collected so far | decode a byte, handle a frame, write to the client |
| KISS link | `kiss.c`, `bridge_kiss.c` | frame collected so far, escape flag | decode a byte, encode a frame, gate on port and command |
| RF log | `rflog.c` | two files | append a line, roll over by copy and truncate |
| LoRaHAM daemon | external | radio, transmission, connections | CONF commands, transmissions, receptions |
| APRS extraction | `loraham_sock.c` | none | scan a received packet, build one to send |
| AX.25 and TNC2 codecs | `ax25.c`, `tnc2.c` | none | conversions |
| Source allow-list, listener | `loraham_kiss_tnc.c`, `tcp_server.c` | none | CIDR match, accept |
| Configuration, command line | `config.c`, `cli.c`, `main.c` | a record | parse, validate |

Interactions.  The main loop owns all the state and calls the rest.  Everything
concurrent is outside of it: the daemon, which serves two independent streams
(CONF: commands up, `STATUS` and `TX=` lines down; DATA: framed packets up,
packets, errors and results down), the KISS client, the signals and the clock.
The DATA stream has two readers, the main loop and `bridge_loraham_wait_tx_result`,
that share one decoder.  The CONF stream has three: the drain, the wait for
`TX=0` and the select.

What is hard.

* Results and events are matched to packets by position alone: the sequence
  number of a TX_RESULT is stored and never compared, and `TX=` lines carry none.
  Timeouts therefore race late answers.
* A transmission is many steps over two sockets, and each can fail or be cut
  short by a stop.  Whatever happens the packet must not be sent twice and the
  radio must come back to the receive frequency.
* The daemon can be restarted, in another version, between any two steps, and
  forgets its frequency and `TXRESULT=1`.
* Reconnecting and configuring happen one at a time, only when the select times
  out.
* Decoders keep state across reads of arbitrary size, across KISS clients, and
  must survive failures in the middle of a buffer.
* Writes to the daemon and to the client can stop half-way.
* A packet passes three formats (KISS/AX.25, TNC2 text, APRS packet), each with
  delimiters of its own that may also occur in what it carries.
* The log is rolled over by several system calls that can fail or be interrupted.

What makes each part correct is stated in the table of properties below.

## Modules

`TxFifo` is the abstract specification of the outgoing queue: a bounded FIFO.

`TxQueue` is the ring of `bridge_tx_queue.c` with `bridge_tx_head_decision` and
the turns of the drain loop that act on its decision.  `items`, `head` and
`count` are the fields of `bridge_tx_queue_t`; a packet is the number of its
submission.  Time is concrete here: lifetimes and busy timeouts are compared as
in the code.  `FifoSpec` instantiates `TxFifo` with the ring read from its head.

`Daemon` is the daemon as the bridge uses it (external).  It assumes that the
daemon serves each stream in order but the two independently; sends one packet
at a time; answers a packet on the connection it came from and nowhere else;
carries out commands that were written before the bridge closed a connection;
and forgets everything at a restart.  Its version may be "111" (TX_RESULT),
"110" (no TX_RESULT) or "off" (knows TX_RESULT and keeps it disabled).

`Bridge` composes the main loop and the transmit path with `Daemon`.  `pc` names
the places where the thread blocks or makes a call whose outcome depends on the
daemon; an action is everything between two of them.  A packet written in part
(`whole` is false) stays at the end of what the daemon has been sent.  `sent`, `rflog` and
`verdict` are history variables.  What a closed connection leaves of the packets on
their way is stated element by element, so that it can be reasoned about.  The queue is the
FIFO that `TxQueue` is proved to implement.  `ImplementsFifo` instantiates `TxFifo`
once more, for the bridge as a whole: the packets that wait (`Unsent`: the head no
longer does from the moment its bytes are with the daemon, although the ring
keeps it until the transmission has ended) and the one written last.

`FramedRx` is the DATA stream byte by byte: `loraham_framed_decode_byte`, what
`bridge_rx_handle_framed_chunk` and `bridge_loraham_wait_tx_result` do with what
it emits, and the changes of reader, client and connection.  `tail` is how the
byte stream to the attached client ends: after a whole frame, inside one whose
write failed ("part"), inside one whose failure was forgotten ("kept"), or after
bytes that followed a part ("glued").

`ConfFeed` is the assembly of CONF lines, the state they set and the CAD
statistics.  Text is a sequence of atoms such as `TX=1`; the line buffer is
measured in atoms.

`KissLink` is the KISS decoder, the gate behind it and the encoder, with real
byte values.

`Ax25`, `Tnc2` and `Aprs` are the conversions as operators, each on top of the
one before.  `Ax25` has frames as the program holds them (`ax25_frame_t`) and as
they are on the wire: address groups with bit 7 and extension bit, control
field, payload.  `Tnc2` has lines of text as sequences of tokens, and the parser
and formatter.  `Aprs` has the byte-wise scan of a packet as a fold of
`ExtractByte`, and the two ways through the program, `ClientToAir` and
`AirToClient`.  `Packets` is the module that puts inputs together piece by piece
and states what holds of the conversions.

`Acl` is the CIDR match and the listen address derived from it, for any word
width; `Startup` takes the program from defaults, file and options through the
checks of `main` to an accepted client.

`RfLog` is the log and its rollover, one action per system call, with short
writes, failing calls and crashes between any two.

Parts that share no state are checked together: `MCParts` composes `TxQueue`,
`ConfFeed` and `RfLog` for one run, `MCEdges` composes `KissLink`, `Packets` and
`Startup` for another.  `MCStartup` holds the settings TLC offers to `Startup`.

`TxQueueProofs`, `BridgeProofs`, `ConfFeedProofs`, `RfLogProofs`, `AirProofs` (about
`FramedRx`, `Ax25`, `Tnc2`, `Aprs` and `Packets`) and `EdgeProofs` (about `KissLink` and
`Startup`) hold the proofs, on top of two modules of lemmas: `SequenceLemmas` (parts
of sequences, `FlattenSeq`, smallest elements) and `FoldLemmas` (`FoldLeft` of any
operator, instantiated per fold).  `MC...` modules give TLC its constants.

## Properties and runs

| Run | Bounds | What is shown |
|-----|--------|---------------|
| `parts`, queue | ring of 3, limit 2, 5 submissions, clock 1..6 | `FifoSpec`: the ring implements the FIFO. `FreshAtLastDecision`: an expired packet never hides behind a younger head although only the head is looked at. `WaitBelongsToHead`: a busy wait is never inherited. |
| `parts`, CONF lines | two connections, all texts of 5 atoms of 9, line buffer 3 | `StateOfWholeLines`: no tail of an over-long line passes for a line; `CountedOnce`: CAD events are counted once across a reconnect. |
| `parts`, log | limit 4, buffer 2, lines of 1, 2 and 5 bytes, 5 lines, 2 faults | `EmptiedIntoCopy`, `Contiguous`, `Bounded`. |
| `bridge` | 2 packets, TX_RESULT daemon, split frequencies, 2 faults, 1 reception, a stop at any time | `SentOnceInOrder`; `PartNotContinued`: nothing is written after a packet the daemon has only a part of, so no later packet is taken for its rest; `ConfirmedOnAir` and `RefusedNotOnAir`: results belong to the packet they are counted for; `OffFrequencyReported`; `ConfiguredMeansReceiving`; `ExitReceiving`. |
| `bridge_kinds` | 2 packets, queue limit 2, all daemon versions and frequency configurations, 1 fault, settling time possibly too short | `ModeAgrees`: the way of confirmation fits the daemon, also across a restart in another version; `ImplementsFifo`: every packet leaves once, written or dropped, in order of submission; `SentOnceInOrder` and `ConfiguredMeansReceiving` for all of them. |
| `bridge_live` | 2 packets, versions 111 and 110, 1 fault, no receptions, fairness | `StopEnds`; `RadioReturns`; `QueueMoves`: with a daemon that answers GET STATUS every queued packet leaves the queue. |
| `bridge_silent` | 1 packet, version 111, no fault, no reception, no stop; fairness without that of answers, but lifetimes end | `LifetimeBounds` is violated, see Findings. |
| `bridge_legacy` | 2 packets, version 110, no fault | `RefusedNotLoggedOk` is violated, see Findings. |
| `framed` | 5 byte values, payloads up to 4, reads up to 6 bytes, 4 frames of 5 kinds | `BufferSafe` for any bytes; `InSyncUnlessSkipped`: in step with the daemon until the main loop skips the rest of a buffer, and again after a reconnect. `TornFrameIsLast`: a client that took part of a KISS frame is written nothing more while that is known. |
| `framed_desync`, `framed_kept` | as `framed` | `InSync` and `KeptWhileInSync` are violated, see Findings. |
| `edges`, KISS | all streams of 6 bytes of 6 values, frames up to 3 bytes | `DecodesStretches`: the decoder agrees with a declarative reading of the stream; `Resyncs`: one FEND brings it back into step whatever came before; `EncodeFits`. |
| `edges`, packets | packets heard of 6 pieces of 7; lines of 5 pieces of 11 after two beginnings; client frames of up to 5 address groups and 2 pieces of payload; 2 repeaters, line buffer 24, packets up to 18 | `ExtractsTexts`: the scan finds exactly the texts a declarative definition names; `NormalForm`: what is read from a line can be written and encoded and reads back the same; `EndToEnd`: a client's frame reaches the client of another bridge with its addresses, marks and text, and on the air neither source nor destination is marked. |
| `edges`, start-up | 4-bit addresses with loopback 01xx, 7 binds (2 malformed), file of 2 lines, 2 options | `LastWins`: every key has its last value, options before file before defaults, and the listen address is that of the last bind or `kiss_host`; `OnlyAllowed`: who is attached agrees bit by bit with the bind that counts; `ExposedIfNeeded`: open beyond loopback exactly if an allowed address needs it. |
| `startup_host` | as start-up, file of 1 line | `HostOverrides` is violated, see Findings. |
| `rflog_previous` | as the log in `parts`, 1 fault | `PreviousKept` is violated, see Findings. |

Why the bounds are enough.  The ring wraps at 3 with a limit of 2, so head and
tail wrap at different times and five submissions go round more than once.  Two
packets are what a late answer needs: one to be late, one to be mistaken for.
Two faults allow the failure of a transmission and of its repair; one suffices
where the question is the daemon's version.  Three frames are enough for a frame
begun before, inside and after a buffer boundary, a fourth for a packet after
the one whose delivery failed and before the result that ends the wait, and reads of up to six bytes
take one frame and the beginning of the next.  A CONF line of three atoms is over-long and its tail a complete line.
Five log lines give two rollovers and a longer line than the limit.
Six pieces are two headers with false starts between them, a line end and a text
of eleven tokens that, given twice, fills the line buffer to its end; a line's second beginning
leaves five pieces for the path and the payload; five groups are one more than
the decoder takes.  Four bits with a loopback prefix of two have a network that
is loopback, one within it, one around it and one outside.  Two lines and two
options are enough for a setting to meet an earlier one in each place.

Deadlock is not checked where the program may end (`pc = "exit"`) or where a
bound on inputs ends the behaviour.

### Fairness

`bridge_live` (`FairSpec`) assumes weak fairness of the bridge as a whole (the
thread runs, and every wait in it has a timeout), of the daemon's taking packets,
of the end of its transmissions and of its restart after a crash (`Fairness`), and
that the daemon carries out the commands on CONF (`Answers`), so that a GET STATUS
is answered on every connection that stands.  It assumes no fairness of faults,
receptions, the client or the signal.  No single branch of the bridge is favoured.
Weak fairness of the disjunction leaves the choice between dropping and sending
open, so `QueueMoves` does not rest on the lifetime of a packet: it would hold with
none configured.  What it rests on is that each gate of the drain opens again: a
lost connection and a failed transmission lead to the timeout branch, which
connects and configures; the transmission that keeps the radio busy ends, and its
`TX=0` arrives or is lost with a connection, whose successor starts afresh.  The one gate nothing in the bridge opens is that of a missing STATUS
on a connection that stands; there `QueueMoves` needs `Answers`.  It also needs a
daemon that can confirm, so the run leaves out the version "off", with which
packets wait until their lifetime ends.  The run has no receptions, which only
delay the timeout: with traffic on every poll the select never times out and the
code promises nothing.

`bridge_silent` (`SilentSpec`) asks what is left without `Answers`.  It has
`Fairness` and, so that the lifetime is not left out of account, strong fairness of
dropping the head (`LifetimesEnd`): a head that is looked at again and again is
dropped.  A packet that still waits for ever is one whose lifetime is not looked at.

## Proofs

TLAPS proves the following for every value of the constants that satisfies the
named assumptions of the modules: sizes are natural numbers, ring and buffers are
not empty, the clock never shows 0, the daemon's frames are what their headers
say.  For the codecs the assumptions say what the alphabet is: the characters
with a meaning, the call signs and the SSID texts are different tokens
(`TokensAssumption`, `SsidTextAssumption`), upper case is idempotent on call signs
(`UpperAssumption`), and inputs are made of tokens (`PiecesAssumption`).  For
`Startup`, that the default bind is well-formed (`BindTextAssumption`).

Every invariant and every action property of the passing runs is stated by a
theorem, and so are both refinements.

* `TxQueueProofs`: `TypeCorrect`, `LifetimeEnforced` (`FreshAtLastDecision`),
  `BusyTimeoutIsOwn` (`WaitBelongsToHead`) and `RingImplementsFifo` (`FifoSpec`).
  The inductive invariant adds to these `Ordered` (packets and queueing times
  increase from head to tail, and everything waiting is newer than what was
  sent) and `TimesPassed`.  `Ordered` is what makes a look at the head enough: if
  the head has not expired, nothing behind it has (`HeadExpiresFirst`).  The
  lemmas `PushAt` and `PopAt` say once what the ring operations do to the i-th
  waiting item; the modulo is dealt with in `RingIndex` and `IndexInjective`.
  The refinement shows that each step of the ring is a step of `TxFifo` or
  leaves it unchanged.
* `AirProofs`, the stream: `TypeCorrect` and `DecoderBufferSafe` (`BufferSafe`), for any
  number of byte values and any payload limit.  `BufferSafe` is inductive with
  `TypeOK`: a decoder that goes on after a byte has either just accepted a
  length or is within a length accepted before (`DecodeSafe`).
  `TornFrameEndsStream` (`TornFrameIsLast`): the invariant says that a part at
  the end of the stream implies that the wait has muted the client.  Outside a
  wait nobody is muted, so there is no part; within one nothing is delivered.
  `StaysInStep` (`InSyncUnlessSkipped`): decoder, buffer and socket hold together
  the frames still owed, flattened to bytes.  `SyncInv` adds that nothing is left
  of a closed connection.  The step that matters is a complete frame: `FirstFrame`
  shows that it is the first frame owed, since both begin with the same header and
  the header gives the length.  `FlattenAppend` and `FlattenHead` say what
  `FlattenSeq` does at either end.
* `AirProofs`, the codecs.  `EncodeThenDecode`: what the AX.25 encoder writes for any
  frame within the limits is accepted by the decoder and is the same frame again,
  destination and source unmarked.  `EncodedGroups` says what each group of the
  address field is; `StationBack` and `RepeaterBack` read it back according to its
  place, because bit 7 means the C bit in the first two and the H bit after.
  `TextsExtracted` (`ExtractsTexts`): the scan is a fold, so the proof is an
  invariant of it (`Scans`, kept by each byte in `ScanStep`).  While the scanner goes on
  (`Going`), its output is the texts that have ended, and what it holds is the text
  behind the last header without the beginning of a header it counts (`Reads`).
  Once it has failed (`Failed`), its output is the texts before the first that
  overflows.  The difficulty is a header that only begins: `BegunAppend` shows that
  starting the count again with the current byte misses none, and `PrefixBack` that
  giving the bytes back to the text loses none.
  `LinesNormal` (`NormalForm`): `PartsBack` shows that joining by commas and splitting
  at commas undo one another, `AddrBack` and `AddrNormal` the same of an address,
  and `LineBack` puts them together for a line.  `ParsedFrame` says what the parser
  accepts: a frame the encoder takes, whose line is no longer than the one that
  was read (`JoinedShorter`), so that it fits the buffer it is written to.
  `ArrivesEndToEnd` (`EndToEnd`): `PacketHeaders` finds the headers in a packet built by
  the bridge, the one in front and those in the client's text; `FirstText` and
  `PacketTexts` say which texts the receiver therefore extracts; `Resent` that the
  first of them is parsed and encoded to the client's frame in normal form; and
  `FirstHanded` that it is the first frame the client gets, and the only one if the
  text holds no header.  `HeadMarks` shows that the packet itself has no mark before
  the path.
* `RfLogProofs`: `TypeCorrect` (`LogTypeOK`), `LogContiguous`, `LogBounded` and
  `EmptiedOnlyIntoCopy`, for every limit, buffer size, number of faults and
  crashes.  The invariant adds to the type: `CopyOfLog` (during a rollover
  `<path>.1` and the copy buffer are together what was read of the log, and
  all of it when the log is truncated), `TailOfAll` (the log, and both files
  while nothing has failed, are the end of what was logged) and `Fits` (what is
  appended without a rollover fits, or the log holds that line only).
  `EmptiedIntoCopy` is an action property: it follows from `CopyOfLog`.
* `ConfFeedProofs`: `TypeCorrect` (`ConfTypeOK`), `CadCountedOnce` (`CountedOnce`) and `LinesAreWhole`
  (`StateOfWholeLines`), for any
  text and number of connections.  The count is not inductive alone: the
  counters start again with each connection, so the invariant says that what was
  collected last is at most what this connection counted, and is forgotten
  before the next one (`CollectedOfThisConnection`).  For `LinesAreWhole` the
  invariant `LineInv` says that the buffer is the line begun (`Current`), or that
  this line is over-long and being dropped; `WholeLinesAppend` says what one atom
  more adds to the whole lines, which is a line exactly if it is a line end.
* `EdgeProofs`, the KISS link: `DecoderInBounds` (`TypeOK`), `StretchesDecoded`
  (`DecodesStretches`), `OneFendResyncs` (`Resyncs`) and `EncoderFits` (`EncodeFits`).
  `KissInv` says that the frames handed on are those of the closed stretches and
  that the decoder follows the open one (`Follows`): it holds the stretch unescaped
  if that can still become a frame, and is out of the frame otherwise.  The encoder is a fold
  that has stored as much as the payload so far needs (`Room`) or has failed
  (`Stored`).
* `EdgeProofs`, start-up: `LastValueCounts` (`LastWins`), `PeerAllowed` (`OnlyAllowed`) and
  `NotExposed` (`ExposedIfNeeded`).  `StartInv` rests on what a fold over lines and
  options leaves in force (`Applied`: each key has the value of its last line, and
  the listen address is that of the last line that gives one, `HostAfter`, whether
  by a bind or by `kiss_host`), and on `Consistent`: net and prefix are always those
  of the bind.  `Part` is an
  address without its last bits; `PartStep` takes one bit more, so that equal
  parts are equal bits (`BitsAgree`) and a mask is a part (`MaskedPart`).
  `ListenNeeded` compares a bind's prefix with that of the loopback network.
* `BridgeProofs`: seven theorems for any number of packets, faults, receptions and
  restarts, any set of daemon versions and configurations.  They share
  `BaseInv` (`TypeCorrect`; where in the code a transmission has an outcome, a head
  and which result), and then rest on one another:
  `QueueOrder` gives `OnceInOrder` (`SentOnceInOrder`): everything queued is newer
  than everything written, but for the head while it is in flight.
  It also gives `BridgeImplementsFifo` (`ImplementsFifo`): `StepFifo` shows of each step
  that it submits, drops the head, writes the head (which is then in flight, and no
  longer waits) or leaves the FIFO as it is; the return of a transmission, which
  takes the packet out of the ring or leaves it for another try, is of the last
  kind because it takes out exactly the packets that were written.
  `PartAtEnd` gives `PartStaysLast` (`PartNotContinued`): only the last packet on
  its way may be incomplete, and only while the interrupted write is dealt with,
  which ends with the connection.
  `KnowsDaemon` gives `ModeOfTheDaemon` (`ModeAgrees`): a dead daemon has no
  connections, STATUS lines read or to be read on an open one are about this
  daemon, and from the gates of the drain to the write the way to confirm is its.
  `Tuning` gives `ConfiguredReceives` (`ConfiguredMeansReceiving`) and
  `ExitsReceiving` (`ExitReceiving`): it says on which frequency the radio will be
  when the commands on their way are carried out (`Ends`), outside and inside a
  transmission.
* `BridgeProofs`, results: what the RF log and the statistics say of a packet is true.
  `RefusalsAreTrue` (`RefusedNotOnAir`) holds without further assumption.  It needs
  `Answer`: on the open connection there is one answer at most, still a packet, a
  transmission or a result, and it is about the head; that is what replaces the
  sequence number the code never compares.  `Passage` says that a packet is in one
  place only, `Told` that a result on its way is true.
  `ConfirmationsAreTrue` (`ConfirmedOnAir`) assumes that no daemon is of version
  110: with it `wait_tx_complete` takes another transmission for this one, which is
  finding 4.  `OffFrequencyOnRecord` (`OffFrequencyReported`) assumes the same and
  `SettleCovers`, without which a packet overtakes the frequency command.  The
  cases are apart: with two frequencies, the radio is tuned from the settling to
  the end of the wait as long as CONF stands (`Tuned`), a packet transmitted later
  is already called unconfirmed (`GivenUp`), and a transmission elsewhere is on
  record or about to be (`Reported`); with one, a daemon that has reported STATUS
  has been tuned before, since the initial configuration asks for it last
  (`Started`), and stays tuned (`Steady`).

Many of these facts need induction over data of any length.  The library's
induction theorems take an operator as parameter, which no prover here can
instantiate; the proofs take a set instead: `UpTo` (a set that contains 0 and with
each number its successor contains all), `Smallest` (a non-empty set has a least
element) and `LastOf`.  `JoinsExists`, `IterExists` and `Pow2Exists` show in the same
way that the recursive functions behind `FlattenSeq`, `FoldLeft` and `Pow2` exist.
`FoldLemmas` has the operator of the fold as a constant operator: each fold gets its
lemmas by an instance of the module.

Only model-checked:

* liveness (`StopEnds`, `RadioReturns`, `QueueMoves`), which needs ENABLED;
* the six properties that runs show violated (see Findings).

## Findings

1. `framed_desync`.  A failing client write ends the decoding of the buffer in
   the main loop.  The rest of the buffer is lost; a frame that began in it
   leaves the decoder out of step, contrary to the comment in `bridge.c` that
   the decoder "stays in sync with the data socket".  The wait for a TX_RESULT
   handles the same case by muting the client and going on.
2. `framed_kept`.  A received packet that cannot be converted for the client
   closes the DATA connection although the stream is in step.  The comment calls
   that branch "stream desync".
3. `rflog_previous`.  `<path>.1` is truncated before the copy, so a copy that
   fails has already lost the previous segment, contrary to "The previous segment
   is replaced only when the copy succeeded".
4. `bridge_legacy`.  With a daemon without TX_RESULT the late `TX=1`/`TX=0` of a
   packet confirm the next one, which the daemon may refuse: the RF log says `ok`
   of a refused packet, where the changelog promises nothing for it.
5. `bridge_silent`.  The drain returns while no STATUS has been read, before it
   looks at the lifetime of the head, and a connection that stands and is
   configured is not asked again.  With a daemon that keeps its connection and
   sends no STATUS, or one the bridge cannot read, packets stay in the queue for
   ever, where the usage text has a "Max queued packet lifetime".  The changelog of
   0.6.3 tells of such a stall; the longer line buffer removed its cause, not the
   gate.
6. `startup_host`.  A `--kiss-host` before `--bind` is replaced by the address
   derived from the bind, although the usage text says that it "overrides the
   address derived from --bind".

Seen while modelling, without a run of their own:

* The failure of a client write during a wait is forgotten if the wait itself
  ends with an error or the receive frequency cannot be restored
  (`bridge_loraham.c`, the returns before the client error is looked at).  The
  client is kept with a torn frame at the end of its stream (`tail = "kept"`); its
  own decoder recovers at the next FEND.
* The first text of a packet that cannot be read ends the handling of the packet:
  readable ones after it are not delivered (`AirToClient`).
* The three header bytes inside a client's payload cut it at the receiver.  This
  is the one exception in `EndToEnd`.
* A relative `rf_log_path` is refused as an option, and from the file only when the
  log is opened.

## Abstractions

* `Bridge` reads frames whole; the bytes are `FramedRx`'s business.  What
  `ConfirmedOnAir` and `RefusedNotOnAir` say therefore holds while the decoder is in
  step, which finding 1 limits.  A DATA packet
  may be written in part; commands on CONF are written whole or not at all.
* The KISS client is projected to the packets it submits.  A client error closes
  the client and changes nothing else in `Bridge`.
* Time in `Bridge` is abstract: a deadline, a lifetime or a busy timeout may strike
  at any moment.  A wait that is cut short by a stop is the same as one whose
  deadline has passed.
* `SettleCovers` says that the settling time outlasts the daemon's retuning.
  Without it a packet can overtake the frequency command, which nothing in the
  program could detect.
* "nofreq" stands for a missing frequency with frequency switching configured.
* Receive-only operation (`rx_only`), in which nothing is queued, a failing
  `select` and a descriptor beyond FD_SETSIZE, which end the program, are left out.
* `RADIO=` tokens of a STATUS line are stored and never used; they are left out.
* The wording of log lines and statistics is left out.
* Call signs are opaque; all have six characters, so that two in a row are too
  long for one.  Texts are sequences of tokens (a call sign, an SSID with its
  dash, a character), and lengths count tokens.
* A frame on the wire is the address groups up to the first with the extension
  bit, so that each byte string the decoder tells apart has one form.
* In `Startup` one key stands for all keys whose values are checked in the same
  way: "number" for the ranged numbers, "rx_only" for the flags.  An empty line or
  a comment in the file is the absence of a line.  One step that may fail stands
  for reading the file, opening the log and setting up the listener.
* `MCParts` and `MCEdges` explore three independent parts each, one at a time: a
  part's variables stay in their initial state while another moves.

## Not modelled

The build and helper scripts; the calls that set sockets up, beyond that they may
fail; usage, version, configuration and statistics printing; the lexing of a
configuration line (comments, spaces, number formats); the KISS modem parameters
and `RADIO=` tokens, which are stored and never used.

## Plan

Done: `TxFifo`, `TxQueue`, `Daemon`, `Bridge`, `FramedRx`, `RfLog`, `ConfFeed`, `KissLink`,
`Ax25`, `Tnc2`, `Aprs`, `Packets`, `Acl` and `Startup`, with their runs; a theorem for every
invariant and action property of the passing runs and for both refinements.

Open:

1. A `TxFifo` with fairness, and that `Bridge` under `Fairness` implements it, with TLC.
2. Receive-only operation and the failing `select` in `Bridge`.
