---------------------------- MODULE Rp2040Example ----------------------------
(***************************************************************************)
(* The rp2040 example firmware, examples/rp2040/src/bin/rp2040_scsi_bbb.rs, *)
(* and its older copy examples-rp2040/src/bin/rp2040_scsi_bbb.rs (static  *)
(* mut instead of critical sections, no READ CAPACITY(16) arm): their     *)
(* process_command as the callback of Scsi::poll.  It differs from the stm32 SCSI example in READ *)
(* (the whole rest of the transfer is handed to write_data) and in WRITE, *)
(* which collects one flash block at a time.  The flash programming and   *)
(* the block contents are left out.                                        *)
(*                                                                         *)
(* Command kinds as in ScsiPoll: "TestUnitReady"; "Inquiry" for the fixed  *)
(* replies (Inquiry, RequestSense, ReadCapacity10, ReadFormatCapacities,  *)
(* ModeSense6/10); "ReadCapacity16"; "Read" and "Write" of dlen =         *)
(* len * BLOCK_SIZE bytes; "Unknown".                                      *)
(***************************************************************************)
EXTENDS UfiExample

\* The WRITE loop on buffer b with storage_offset off: read_data into
\* write_buffer[block_offset..], the rest of the current block, and advance
\* by the count; a read that completes a block programs it and reads on,
\* anything else leaves the loop.  The result is <<buffer, offset, panic>>:
\* a buffer holding more than the rest of the block panics in read_data.
RECURSIVE WriteLoop(_, _)
WriteLoop(b, off) ==
    LET room == Block - (off % Block)
        n == MinNat(room, available_read(b))
    IN  IF available_read(b) > room THEN <<b, off, TRUE>>
        ELSE IF n > 0 /\ (off + n) % Block = 0
        THEN WriteLoop(Read(b, n), off + n)
        ELSE <<Read(b, n), off + n, FALSE>>

\* Mutant of Rp2040Write: the transfer is taken as complete once the
\* offset is a multiple of BLOCK_SIZE, not len * BLOCK_SIZE.
Rp2040Write_pass_at_block ==
    IF offset # kind.dlen
    THEN IF state = "DataTransferFromHost"
         THEN LET r == WriteLoop(buf, offset)
              IN  IF r[3] THEN ReadDataPanic
                  ELSE /\ buf' = r[1]
                       /\ IF r[2] % Block = 0 /\ r[2] > 0
                          THEN cs' = "Passed" /\ offset' = 0
                          ELSE UNCHANGED cs /\ offset' = r[2]
                       /\ UNCHANGED <<state, cbw, in_ep, out_ep, in_stalled,
                                      out_stalled, ret, panicked>>
         ELSE UNCHANGED <<state, buf, cbw, cs, in_ep, out_ep, in_stalled,
                          out_stalled, ret, panicked, offset>>
    ELSE /\ pass
         /\ offset' = 0

\* Write: while storage_offset # len * BLOCK_SIZE, run the loop (read_data
\* fails with InvalidState outside DataTransferFromHost, and `?` returns),
\* then pass and reset once the whole transfer is in; at once when it is.
Rp2040Write ==
    IF offset # kind.dlen
    THEN IF state = "DataTransferFromHost"
         THEN LET r == WriteLoop(buf, offset)
              IN  IF r[3] THEN ReadDataPanic
                  ELSE /\ buf' = r[1]
                       /\ IF r[2] = kind.dlen
                          THEN cs' = "Passed" /\ offset' = 0
                          ELSE UNCHANGED cs /\ offset' = r[2]
                       /\ UNCHANGED <<state, cbw, in_ep, out_ep, in_stalled,
                                      out_stalled, ret, panicked>>
         ELSE UNCHANGED <<state, buf, cbw, cs, in_ep, out_ep, in_stalled,
                          out_stalled, ret, panicked, offset>>
    ELSE /\ pass
         /\ offset' = 0

rp2040_process_command ==
    CASE kind.op = "TestUnitReady"  -> PassCmd
      [] kind.op = "Inquiry"        -> FixedReply
      [] kind.op = "ReadCapacity16" -> ReadCapacity16Reply
      [] kind.op = "Read"           -> ReadDump
      [] kind.op = "Write"          -> Rp2040Write
      [] OTHER                      -> FailCmd

\* examples-rp2040: the same arms, except that READ CAPACITY(16) has none
\* and is failed as an unknown command.
rp2040_static_process_command ==
    CASE kind.op = "TestUnitReady"  -> PassCmd
      [] kind.op = "Inquiry"        -> FixedReply
      [] kind.op = "Read"           -> ReadDump
      [] kind.op = "Write"          -> Rp2040Write
      [] OTHER                      -> FailCmd

=============================================================================
