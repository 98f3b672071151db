------------------------------ MODULE ScsiPoll ------------------------------
(***************************************************************************)
(* Scsi::poll (usbd-storage/src/subclass/scsi.rs; Ufi::poll in ufi.rs is  *)
(* the same loop) driving BulkOnly, with the command callback of the       *)
(* example firmware examples/stm32/src/bin/stm32f411x_scsi_bbb.rs as the   *)
(* application.                                                            *)
(*                                                                         *)
(* One call of poll is a sequence of steps, pc naming the next one:        *)
(*   "read"     transport.read()            (start of a poll call)         *)
(*   "write"    transport.write()                                          *)
(*   "command"  get_command() / has_status(): return, or parse the block   *)
(*   "callback" callback(Command { kind, .. })                             *)
(*   "after"    transport.write(); FullPacketExpected -> "callback"        *)
(*   "read2"    transport.read(), then poll returns                        *)
(* The host's hardware acts between any two of these steps.               *)
(***************************************************************************)
EXTENDS BulkOnly

CONSTANT Chunk   \* most bytes the Read handler hands to write_data at once

ASSUME Chunk \in Nat \ {0}

VARIABLES pc,      \* next step of poll
          kind,    \* the parsed command the loop passes to the callback
          offset   \* STATE.storage_offset of the example firmware

pvars == <<pc, kind, offset>>

(* A command block is abstracted to the command parse_cb makes of it:    *)
(* op names the ScsiCommand variant and dlen is the number of data bytes  *)
(* the example handles for it (the reply size, or len * BLOCK_SIZE).      *)
Ops == {"TestUnitReady", "Inquiry", "ReadCapacity16", "Read", "Write",
        "Unknown"}

PollInit ==
    /\ pc = "read"
    /\ kind = NoCmd
    /\ offset = 0

---------------------------------------------------------------------------
(* process_command of the example, one invocation.  The Command is        *)
(* consumed by pass()/fail(), which forward to set_status.  An Err from   *)
(* a transport method is returned by `?` and only logged.                 *)

\* Command::pass and Command::fail (subclass/mod.rs) consume the Command and
\* forward to set_status; the UFI impl of Command is the same code.
pass == set_status("Passed")
fail == set_status("Failed")

\* Mutant of FixedReply: the reply is written but command.pass() is missing.
FixedReply_no_pass ==
    /\ buf' = IF CanWriteData THEN TryWriteAllBuf(kind.dlen) ELSE buf
    /\ UNCHANGED <<state, cbw, cs, in_ep, out_ep, in_stalled, out_stalled, ret,
                   panicked, offset>>

\* TestUnitReady: pass.
PassCmd ==
    /\ pass
    /\ UNCHANGED offset

\* Inquiry and the other fixed replies: try_write_data_all(reply)?; pass.
FixedReply ==
    /\ IF CanWriteData
       THEN /\ buf' = TryWriteAllBuf(kind.dlen)
            /\ cs' = IF TryWriteAllFits(kind.dlen) THEN "Passed" ELSE cs
       ELSE UNCHANGED <<buf, cs>>
    /\ UNCHANGED <<state, cbw, in_ep, out_ep, in_stalled, out_stalled, ret,
                   panicked, offset>>

\* ReadCapacity16: data[0..8].copy_from_slice(&u32::to_be_bytes(..)) copies
\* 4 bytes into an 8-byte slice, and copy_from_slice panics on the length
\* mismatch before anything is written.
ReadCapacity16Reply ==
    /\ panicked' = TRUE
    /\ UNCHANGED <<state, buf, cbw, cs, in_ep, out_ep, in_stalled, out_stalled,
                   ret, offset>>

\* Mutant of ReadHandler: storage_offset is not advanced by the count.
ReadHandler_no_advance ==
    IF offset # kind.dlen
    THEN /\ buf' = IF CanWriteData
                   THEN WriteDataBuf(MinNat(kind.dlen - offset, Chunk)) ELSE buf
         /\ UNCHANGED <<state, cbw, cs, in_ep, out_ep, in_stalled,
                        out_stalled, ret, panicked, offset>>
    ELSE /\ pass
         /\ offset' = 0

\* Read: while storage_offset # len * BLOCK_SIZE, write_data the rest (at
\* most Chunk bytes) and advance by the count; then pass and reset.
ReadHandler ==
    IF offset # kind.dlen
    THEN /\ IF CanWriteData
            THEN LET n == MinNat(kind.dlen - offset, Chunk)
                 IN  /\ buf' = WriteDataBuf(n)
                     /\ offset' = offset + WriteDataCount(n)
            ELSE UNCHANGED <<buf, offset>>
         /\ UNCHANGED <<state, cbw, cs, in_ep, out_ep, in_stalled,
                        out_stalled, ret, panicked>>
    ELSE /\ pass
         /\ offset' = 0

\* read_data(dst) panicking in copy_from_slice: the firmware stops.
ReadDataPanic ==
    /\ panicked' = TRUE
    /\ UNCHANGED <<state, buf, cbw, cs, in_ep, out_ep, in_stalled, out_stalled,
                   ret, offset>>

\* Mutant of WriteHandler: pass after the first read_data, whatever it read.
WriteHandler_pass_early ==
    IF offset # kind.dlen
    THEN IF state # "DataTransferFromHost"
         THEN UNCHANGED <<state, buf, cbw, cs, in_ep, out_ep, in_stalled,
                          out_stalled, ret, panicked, offset>>
         ELSE IF ReadDataPanics(kind.dlen - offset) THEN ReadDataPanic
         ELSE /\ buf' = ReadDataBuf(kind.dlen - offset)
              /\ cs' = "Passed" /\ offset' = 0
              /\ UNCHANGED <<state, cbw, in_ep, out_ep, in_stalled,
                             out_stalled, ret, panicked>>
    ELSE /\ pass
         /\ offset' = 0

\* Write: read_data into STORAGE[start..end], the rest of the transfer,
\* advance by the count and pass once the whole transfer is in (or at once
\* when it already is).
WriteHandler ==
    IF offset # kind.dlen
    THEN IF state # "DataTransferFromHost"
         THEN UNCHANGED <<state, buf, cbw, cs, in_ep, out_ep, in_stalled,
                          out_stalled, ret, panicked, offset>>
         ELSE IF ReadDataPanics(kind.dlen - offset) THEN ReadDataPanic
         ELSE LET n == ReadDataCount(kind.dlen - offset)
              IN  /\ buf' = ReadDataBuf(kind.dlen - offset)
                  /\ IF offset + n = kind.dlen
                     THEN cs' = "Passed" /\ offset' = 0
                     ELSE UNCHANGED cs /\ offset' = offset + n
                  /\ UNCHANGED <<state, cbw, in_ep, out_ep, in_stalled,
                                 out_stalled, ret, panicked>>
    ELSE /\ pass
         /\ offset' = 0

\* Mutant of FailCmd: the sense data is set but command.fail() is missing.
FailCmd_no_fail ==
    UNCHANGED <<state, buf, cbw, cs, in_ep, out_ep, in_stalled, out_stalled,
                ret, panicked, offset>>

\* Anything else: set the sense data and fail.
FailCmd ==
    /\ fail
    /\ UNCHANGED offset

process_command ==
    CASE kind.op = "TestUnitReady" -> PassCmd
      [] kind.op = "Inquiry"       -> FixedReply
      [] kind.op = "ReadCapacity16" -> ReadCapacity16Reply
      [] kind.op = "Read"          -> ReadHandler
      [] kind.op = "Write"         -> WriteHandler
      [] OTHER                     -> FailCmd

---------------------------------------------------------------------------
(* The steps of poll.                                                      *)

PollRead ==
    /\ pc \in {"read", "read2"}
    /\ ReadOp
    /\ pc' = IF pc = "read" THEN "write" ELSE "read"
    /\ UNCHANGED <<kind, offset>>

PollWrite ==
    /\ pc = "write"
    /\ WriteOp
    /\ pc' = "command"
    /\ UNCHANGED <<kind, offset>>

\* The callback runs only when a command is parsed and has no status yet.
PollCommand ==
    /\ pc = "command"
    /\ IF HasCommand /\ cs = NoStatus
       THEN pc' = "callback" /\ kind' = cbw.cmd
       ELSE pc' = "read" /\ UNCHANGED kind
    /\ UNCHANGED <<tvars, offset>>

\* callback is the firmware's command handler, one invocation.
PollCallback(callback) ==
    /\ pc = "callback"
    /\ callback
    /\ pc' = "after"
    /\ UNCHANGED kind

\* After the callback: FullPacketExpected calls the callback again.
PollAfter ==
    /\ pc = "after"
    /\ WriteOp
    /\ pc' = IF ret' = "FullPacketExpected" THEN "callback" ELSE "read2"
    /\ UNCHANGED <<kind, offset>>

Poll(callback) ==
    /\ ~panicked
    /\ \/ PollRead \/ PollWrite \/ PollCommand \/ PollCallback(callback)
       \/ PollAfter

=============================================================================
