-------------------------------- MODULE RfLog --------------------------------
(***************************************************************************)
(* The RF log (rflog.c): one line per packet appended to a file, which is  *)
(* rolled over by copying it to <path>.1 and truncating it in place.       *)
(*                                                                         *)
(* A file is a sequence of bytes, a byte being the number of the line it   *)
(* belongs to.  Between two system calls the disk may be full, a call may  *)
(* fail, and the program may be killed and started again.                  *)
(***************************************************************************)
EXTENDS Integers, FiniteSets, Sequences, SequencesExt

CONSTANTS
    MaxBytes,     \* g_max_bytes
    ChunkSize,    \* size of the copy buffer
    LineLengths,  \* lengths of lines
    MaxLines,     \* bound: lines logged
    MaxFaults     \* bound: failed calls and crashes

ASSUME SizesAssumption ==
    /\ MaxBytes \in Nat /\ ChunkSize \in Nat \ {0} /\ LineLengths \subseteq Nat \ {0}
    /\ MaxLines \in Nat /\ MaxFaults \in Nat

VARIABLES
    pc,        \* "closed", "idle", "open" (<path>.1), "copy", "truncate", "append"
    live,      \* the file g_fd
    prev,      \* the file <path>.1
    chunk,     \* bytes read and not yet written to <path>.1
    off,       \* read position of the copy
    unwritten, \* the part of the current line still to be written
    lines,     \* lines so far
    faults,    \* faults so far
    segment,   \* history: the last segment copied completely
    grown,     \* history: a rollover has failed since the last truncation
    all        \* history: every byte ever appended

logVars == <<pc, live, prev, chunk, off, unwritten, lines, faults, segment, grown, all>>
files == <<live, prev, segment, grown, all>>

Bytes == 1..MaxLines

LogTypeOK ==
    /\ pc \in {"closed", "idle", "open", "copy", "truncate", "append"}
    /\ live \in Seq(Bytes) /\ prev \in Seq(Bytes) /\ segment \in Seq(Bytes)
    /\ chunk \in Seq(Bytes) /\ Len(chunk) <= ChunkSize
    /\ off \in Nat /\ unwritten \in Seq(Bytes)
    /\ lines \in 0..MaxLines /\ faults \in 0..MaxFaults
    /\ grown \in BOOLEAN /\ all \in Seq(Bytes)

LogInit ==
    /\ pc = "closed"
    /\ live = <<>> /\ prev = <<>>
    /\ chunk = <<>> /\ off = 0 /\ unwritten = <<>>
    /\ lines = 0 /\ faults = 0
    /\ segment = <<>> /\ grown = FALSE /\ all = <<>>

(* lhkt_rflog_open: existing content is kept. *)
Open ==
    /\ pc = "closed"
    /\ pc' = "idle"
    /\ UNCHANGED <<files, chunk, off, unwritten, lines, faults>>

Fault == faults < MaxFaults /\ faults' = faults + 1

-----------------------------------------------------------------------------
(* rflog_write_line *)

(* Slip: the line itself is not counted. *)
OverLimitWithoutLine(n) == Len(live) > MaxBytes

OverLimit(n) == Len(live) + n > MaxBytes

(* lhkt_rflog_rx and lhkt_rflog_tx; a failing fstat skips the rollover. *)
Log(n) ==
    /\ pc = "idle" /\ lines < MaxLines
    /\ lines' = lines + 1
    /\ unwritten' = [i \in 1..n |-> lines + 1]
    /\ \/ /\ pc' = IF OverLimit(n) THEN "open" ELSE "append"
          /\ UNCHANGED <<faults, grown>>
       \/ /\ Fault
          /\ pc' = "append"
          /\ grown' = TRUE
    /\ UNCHANGED <<live, prev, segment, all, chunk, off>>

(* rflog_copy_to_previous: the open truncates <path>.1. *)
OpenPrevious ==
    /\ pc = "open"
    /\ \/ /\ pc' = "copy"
          /\ prev' = <<>>
          /\ UNCHANGED <<faults, grown>>
       \/ /\ Fault
          /\ pc' = "append"
          /\ grown' = TRUE
          /\ UNCHANGED prev
    /\ off' = 0
    /\ chunk' = <<>>
    /\ UNCHANGED <<live, segment, all, unwritten, lines>>

(* Slip: the read is not limited to the buffer. *)
CopyReadAll ==
    /\ pc = "copy" /\ chunk = <<>>
    /\ chunk' = SubSeq(live, off + 1, Len(live))
    /\ off' = Len(live)
    /\ pc' = IF off = Len(live) THEN "truncate" ELSE "copy"
    /\ segment' = IF off = Len(live) THEN prev ELSE segment
    /\ UNCHANGED <<live, prev, grown, all, unwritten, lines, faults>>

(* pread of the next chunk, or the end of the file. *)
CopyRead ==
    /\ pc = "copy" /\ chunk = <<>>
    /\ LET rest == SubSeq(live, off + 1, Len(live))
           n == IF Len(rest) < ChunkSize THEN Len(rest) ELSE ChunkSize
       IN  /\ chunk' = SubSeq(rest, 1, n)
           /\ off' = off + n
           /\ pc' = IF n = 0 THEN "truncate" ELSE "copy"
           /\ segment' = IF n = 0 THEN prev ELSE segment
    /\ UNCHANGED <<live, prev, grown, all, unwritten, lines, faults>>

(* Slip: a short write is taken for a complete one. *)
CopyWriteShort ==
    /\ pc = "copy" /\ chunk # <<>>
    /\ \E n \in 1..Len(chunk) : prev' = prev \o SubSeq(chunk, 1, n)
    /\ chunk' = <<>>
    /\ UNCHANGED <<pc, live, segment, grown, all, off, unwritten, lines, faults>>

(* write of some of the chunk. *)
CopyWrite ==
    /\ pc = "copy" /\ chunk # <<>>
    /\ \E n \in 1..Len(chunk) :
          /\ prev' = prev \o SubSeq(chunk, 1, n)
          /\ chunk' = SubSeq(chunk, n + 1, Len(chunk))
    /\ UNCHANGED <<pc, live, segment, grown, all, off, unwritten, lines, faults>>

(* Slip: a failed copy ends the loop but is not remembered in ok. *)
CopyFailIgnored ==
    /\ pc = "copy" /\ Fault
    /\ pc' = "truncate"
    /\ chunk' = <<>>
    /\ UNCHANGED <<live, prev, segment, grown, all, off, unwritten, lines>>

(* A read or a write of the copy fails: no truncation. *)
CopyFail ==
    /\ pc = "copy" /\ Fault
    /\ pc' = "append"
    /\ chunk' = <<>>
    /\ grown' = TRUE
    /\ UNCHANGED <<live, prev, segment, all, off, unwritten, lines>>

(* ftruncate, which may fail. *)
Truncate ==
    /\ pc = "truncate"
    /\ \/ /\ live' = <<>>
          /\ grown' = FALSE
          /\ UNCHANGED faults
       \/ /\ Fault
          /\ grown' = TRUE
          /\ UNCHANGED live
    /\ pc' = "append"
    /\ UNCHANGED <<prev, segment, all, chunk, off, unwritten, lines>>

(* write of some of the line; O_APPEND puts it at the end of the file. *)
AppendSome ==
    /\ pc = "append" /\ unwritten # <<>>
    /\ \E n \in 1..Len(unwritten) :
          /\ live' = live \o SubSeq(unwritten, 1, n)
          /\ all' = all \o SubSeq(unwritten, 1, n)
          /\ unwritten' = SubSeq(unwritten, n + 1, Len(unwritten))
    /\ UNCHANGED <<pc, prev, segment, grown, chunk, off, lines, faults>>

(* The line is complete, or its rest is given up after a failed write. *)
AppendEnd ==
    /\ pc = "append"
    /\ \/ unwritten = <<>> /\ UNCHANGED faults
       \/ unwritten # <<>> /\ Fault
    /\ pc' = "idle"
    /\ unwritten' = <<>>
    /\ UNCHANGED <<files, chunk, off, lines>>

(* The program is killed; what is in the files stays. *)
Crash ==
    /\ pc # "closed" /\ Fault
    /\ pc' = "closed"
    /\ chunk' = <<>> /\ off' = 0 /\ unwritten' = <<>>
    /\ grown' = (grown \/ pc \in {"copy", "truncate"})
    /\ UNCHANGED <<live, prev, segment, all, lines>>

LogNext ==
    \/ Open \/ OpenPrevious \/ CopyRead \/ CopyWrite \/ CopyFail \/ Truncate
    \/ AppendSome \/ AppendEnd \/ Crash
    \/ \E n \in LineLengths : Log(n)

LogSpec == LogInit /\ [][LogNext]_logVars

-----------------------------------------------------------------------------
(* Bytes leave the log only into a complete copy: whatever fails or        *)
(* crashes in the middle of a rollover, when the log is emptied <path>.1   *)
(* holds exactly what it held.                                             *)
EmptiedIntoCopy == [][Len(live') < Len(live) => prev = live]_logVars

(* The two files are the end of everything ever logged, without a gap, a   *)
(* repetition or a change of order: the log always, and <path>.1 before it *)
(* unless a rollover has failed since.                                     *)
Contiguous ==
    /\ IsSuffix(live, all)
    /\ pc \in {"closed", "idle", "append"} /\ ~grown => IsSuffix(prev \o live, all)

(* The log outgrows its limit only after a failed rollover, or by a line   *)
(* that alone is longer than the limit.                                    *)
Bounded ==
    Len(live) > MaxBytes => grown \/ Cardinality(ToSet(live)) = 1

(* When a line is appended, <path>.1 still holds the last segment that was *)
(* copied completely: it is replaced only when the copy succeeded (comment *)
(* in rflog_write_line).                                                   *)
PreviousKept == pc = "append" => IsPrefix(segment, prev)
=============================================================================
