----------------------------- MODULE UfiExample -----------------------------
(***************************************************************************)
(* The UFI example firmware, examples/stm32/src/bin/stm32f411x_ufi_bbb.rs: *)
(* its process_command as the callback of Ufi::poll, which is the loop of *)
(* ScsiPoll (ufi.rs has the same read / write / callback / write / read   *)
(* sequence as scsi.rs).                                                   *)
(*                                                                         *)
(* The command kinds, the UfiCommand variants as the firmware tells them   *)
(* apart (dlen is the data length it handles for them):                    *)
(*   "Inquiry"       Inquiry, ReadCapacity, RequestSense, ModeSense:       *)
(*                   try_write_data_all(reply)?; pass                      *)
(*   "TestUnitReady" StartStop, TestUnitReady, PreventAllowMediumRemoval:  *)
(*                   pass                                                  *)
(*   "Write"         Write: pass, without reading the data                 *)
(*   "ReadDump"      Read with lba < 0xCE: the image bytes                 *)
(*   "ReadFill"      Read with lba >= 0xCE: blocks of 0xF6                 *)
(*   "Unknown"       anything else: set the sense data and fail           *)
(***************************************************************************)
EXTENDS ScsiPoll

CONSTANT Block   \* BLOCK_SIZE; a Read of len blocks has dlen = len * Block

ASSUME Block \in Nat \ {0}

UfiOps == {"Inquiry", "TestUnitReady", "Write", "ReadDump", "ReadFill",
           "Unknown"}

\* Mutant of ReadDump: storage_offset is not advanced by the count.
ReadDump_no_advance ==
    IF offset # kind.dlen
    THEN /\ buf' = IF CanWriteData THEN WriteDataBuf(kind.dlen - offset) ELSE buf
         /\ UNCHANGED <<state, cbw, cs, in_ep, out_ep, in_stalled,
                        out_stalled, ret, panicked, offset>>
    ELSE /\ pass
         /\ offset' = 0

\* Read of the image (lba < 0xCE): write_data(&FAT[start..end])? hands over
\* all the rest of the transfer at once and advances storage_offset by the
\* count; once storage_offset = len * BLOCK_SIZE, pass and reset it.
ReadDump ==
    IF offset # kind.dlen
    THEN /\ IF CanWriteData
            THEN /\ buf' = WriteDataBuf(kind.dlen - offset)
                 /\ offset' = offset + WriteDataCount(kind.dlen - offset)
            ELSE UNCHANGED <<buf, offset>>
         /\ UNCHANGED <<state, cbw, cs, in_ep, out_ep, in_stalled,
                        out_stalled, ret, panicked>>
    ELSE /\ pass
         /\ offset' = 0

\* The fill loop on buffer b with storage_offset off: write_data of a whole
\* block of 0xF6, advance by the count, until a write_data returns 0.  The
\* cap of write_data is cbw.data_transfer_len, which the loop never lowers.
RECURSIVE FillLoop(_, _)
FillLoop(b, off) ==
    LET src == Run(DevData(cbw.tag), MinNat(Block, cbw.len))
        count == WriteCount(b, src)
    IN  IF count = 0 THEN <<b, off>> ELSE FillLoop(Write(b, src), off + count)

\* Read beyond the image (lba >= 0xCE): the fill loop; once
\* storage_offset = len * BLOCK_SIZE, pass and reset it.
ReadFill ==
    IF offset # kind.dlen
    THEN /\ IF CanWriteData
            THEN LET r == FillLoop(buf, offset)
                 IN  buf' = r[1] /\ offset' = r[2]
            ELSE UNCHANGED <<buf, offset>>
         /\ UNCHANGED <<state, cbw, cs, in_ep, out_ep, in_stalled,
                        out_stalled, ret, panicked>>
    ELSE /\ pass
         /\ offset' = 0

ufi_process_command ==
    CASE kind.op = "Inquiry"       -> FixedReply
      [] kind.op = "TestUnitReady" -> PassCmd
      [] kind.op = "Write"         -> PassCmd
      [] kind.op = "ReadDump"      -> ReadDump
      [] kind.op = "ReadFill"      -> ReadFill
      [] OTHER                     -> FailCmd

\* Ufi::poll with the example's callback.
ufi_poll == Poll(ufi_process_command)

=============================================================================
