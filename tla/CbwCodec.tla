------------------------------ MODULE CbwCodec ------------------------------
(***************************************************************************)
(* The wire formats of the Bulk-Only Transport at byte level: how         *)
(* BulkOnly::try_parse_cbw and CommandBlockWrapper::from_le_bytes turn the *)
(* 31 bytes of a Command Block Wrapper into a CommandBlockWrapper, and how *)
(* BulkOnly::build_csw lays out the 13 bytes of a Command Status Wrapper.  *)
(* BulkOnly abstracts both wrappers to records; this module is what the   *)
(* records stand for.                                                      *)
(*                                                                         *)
(* Bytes and integers are as in CommandBlock: a wrapper is a sequence of  *)
(* bytes whose code index j is position j + 1, and a u32 is a base-256    *)
(* numeral, most significant digit first.                                  *)
(*                                                                         *)
(* The module also gives the reference reading of BOT 1.0 tables 5.1      *)
(* (CBW) and 5.2/5.3 (CSW), field by field, for the checks of             *)
(* MCCommandSets.                                                          *)
(***************************************************************************)
EXTENDS CommandBlock
LOCAL Seq2 == INSTANCE SequencesExt

\* 0x43425355u32.to_le_bytes() and 0x53425355u32.to_le_bytes()
CBW_SIGNATURE_LE == <<\h55, \h53, \h42, \h43>>
CSW_SIGNATURE_LE == <<\h55, \h53, \h42, \h53>>

CBW_LEN == 31
CSW_LEN == 13

\* enum CommandStatus, #[repr(u8)]: the byte "status as u8" gives.
CommandStatus == [Passed |-> 0, Failed |-> 1, PhaseError |-> 2]

\* enum DataDirection
DataDirection == {"Out", "In", "NotExpected"}

\* The error try_parse_cbw returns.
InvalidCbwError == [error |-> "InvalidCbwError"]

\* u32::from_le_bytes: the numeral of the bytes, least significant first.
FromLeBytes(s) == FromBeBytes(Seq2!Reverse(s))

\* u32::to_le_bytes of numeral n: n widened to w digits, least first.
ToLeBytes(n, w) == Seq2!Reverse([i \in 1..(w - Len(n)) |-> 0] \o n)

---------------------------------------------------------------------------
(* Mutant of from_le_bytes: the tag is read most significant byte first.  *)
from_le_bytes_tag_be(value) ==
    LET block_len == B(value, 10)
    IN  IF block_len \notin 1..16 THEN InvalidCbwError
        ELSE [tag |-> FromBeBytes(Slice(value, 0, 3)),
              data_transfer_len |-> FromLeBytes(Slice(value, 4, 7)),
              direction |->
                  IF FromLeBytes(Slice(value, 4, 7)) # <<>>
                  THEN IF (B(value, 8) & 128) > 0 THEN "In" ELSE "Out"
                  ELSE "NotExpected",
              lun |-> B(value, 9) & 15,
              block_len |-> block_len,
              block |-> Slice(value, 11, 26)]

\* CommandBlockWrapper::from_le_bytes, on the 27 bytes after the
\* signature: bCBWCBLength (value[10]) must be MIN_CB_LEN..=MAX_CB_LEN, the
\* direction is bit 7 of bmCBWFlags unless no data is expected, and the LUN
\* is the low nibble of value[9].  The reserved bits are not looked at.
from_le_bytes(value) ==
    LET block_len == B(value, 10)
    IN  IF block_len \notin 1..16 THEN InvalidCbwError
        ELSE [tag |-> FromLeBytes(Slice(value, 0, 3)),
              data_transfer_len |-> FromLeBytes(Slice(value, 4, 7)),
              direction |->
                  IF FromLeBytes(Slice(value, 4, 7)) # <<>>
                  THEN IF (B(value, 8) & 128) > 0 THEN "In" ELSE "Out"
                  ELSE "NotExpected",
              lun |-> B(value, 9) & 15,
              block_len |-> block_len,
              block |-> Slice(value, 11, 26)]

\* try_parse_cbw: the CBW must start with the CBW signature (BOT 6.2.1);
\* the rest is parsed by from_le_bytes.
try_parse_cbw(raw_cbw) ==
    IF SubSeq(raw_cbw, 1, 4) # CBW_SIGNATURE_LE THEN InvalidCbwError
    ELSE from_le_bytes(SubSeq(raw_cbw, 5, CBW_LEN))

\* get_command: the bytes the subclass sees, block[..block_len].
get_command(cbw) == [bytes |-> SubSeq(cbw.block, 1, cbw.block_len), lun |-> cbw.lun]

\* Mutant of build_csw: the residue field carries the tag again.
build_csw_tag_twice(cbw, status) ==
    CSW_SIGNATURE_LE \o ToLeBytes(cbw.tag, 4) \o ToLeBytes(cbw.tag, 4)
        \o <<CommandStatus[status]>>

\* build_csw: signature, the CBW's tag, its data_transfer_len (counted
\* down to the residue by the data phase) and the status byte.
build_csw(cbw, status) ==
    CSW_SIGNATURE_LE \o ToLeBytes(cbw.tag, 4)
        \o ToLeBytes(cbw.data_transfer_len, 4) \o <<CommandStatus[status]>>

---------------------------------------------------------------------------
(* Reference reading of the wrappers (BOT 1.0 section 5).  A dword field  *)
(* is read with byte j most significant, independent of Reverse.          *)

RefLe(w, i, j) == FromBeBytes([k \in 1..(j - i + 1) |-> B(w, j + 1 - k)])

\* Table 5.1: the fields of a CBW and its reserved bits.
RefSignatureOk(raw) == RefLe(raw, 0, 3) = FromBeBytes(<<\h43, \h42, \h53, \h55>>)
RefCbLength(raw) == BitsOf(raw, BitsField(14, 0, 5))
RefReservedClear(raw) ==
    /\ BitsOf(raw, BitsField(12, 0, 7)) = 0
    /\ BitsOf(raw, BitsField(13, 4, 4)) = 0
    /\ BitsOf(raw, BitsField(14, 5, 3)) = 0

\* 6.2.1 / 6.2.2: a valid CBW (31 bytes with the signature) whose reserved
\* bits are clear and whose bCBWCBLength is 1..16 is meaningful.
RefMeaningful(raw) ==
    /\ Len(raw) = CBW_LEN
    /\ RefSignatureOk(raw)
    /\ RefReservedClear(raw)
    /\ RefCbLength(raw) \in 1..16

\* The command a meaningful CBW carries; the direction bit is ignored when
\* dCBWDataTransferLength is zero.
RefCbw(raw) ==
    [tag |-> RefLe(raw, 4, 7),
     data_transfer_len |-> RefLe(raw, 8, 11),
     direction |-> IF RefLe(raw, 8, 11) = <<>> THEN "NotExpected"
                   ELSE IF RefField(raw, FlagField(12, 7)) THEN "In" ELSE "Out",
     lun |-> BitsOf(raw, BitsField(13, 0, 4)),
     cb |-> Slice(raw, 15, 14 + RefCbLength(raw))]

\* Tables 5.2 and 5.3: bCSWStatus of each command status.
RefStatusByte == [Passed |-> \h00, Failed |-> \h01, PhaseError |-> \h02]

\* A CSW as the host reads it: signature 53425355h, dCSWTag,
\* dCSWDataResidue and bCSWStatus.
RefCsw(csw) ==
    [len |-> Len(csw),
     sig |-> RefLe(csw, 0, 3),
     tag |-> RefLe(csw, 4, 7),
     residue |-> RefLe(csw, 8, 11),
     status |-> B(csw, 12)]

=============================================================================
