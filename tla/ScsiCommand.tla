---------------------------- MODULE ScsiCommand ----------------------------
(***************************************************************************)
(* parse_cb of the SCSI subclass (usbd-storage/src/subclass/scsi.rs):     *)
(* Scsi::poll passes it the bytes cbw.block[..block_len], where           *)
(* CommandBlockWrapper::from_le_bytes accepted any block_len in 1..16.    *)
(* The decoding is compared with the CDB layouts of SPC-4 and SBC-3.      *)
(* cb is the command block of one poll; it never changes, so a behaviour  *)
(* is one input.                                                           *)
(***************************************************************************)
EXTENDS CommandBlock

CONSTANT CbInputs   \* the command blocks to check

VARIABLE cb

\* Operation codes (scsi.rs, "SCSI codes").
TEST_UNIT_READY == 0 \* 0x00
REQUEST_SENSE == 3 \* 0x03
INQUIRY == 18 \* 0x12
MODE_SENSE_6 == 26 \* 0x1A
MODE_SENSE_10 == 90 \* 0x5A
READ_10 == 40 \* 0x28
READ_16 == 136 \* 0x88
READ_CAPACITY_10 == 37 \* 0x25
READ_CAPACITY_16 == 158 \* 0x9E
WRITE_10 == 42 \* 0x2A
READ_FORMAT_CAPACITIES == 35 \* 0x23

\* enum PageControl, by discriminant.
PageControls == <<"CurrentValues", "ChangeableValues", "DefaultValues",
                  "SavedValues">>

\* The highest cb index each match arm of parse_cb reads; a shorter block
\* makes the indexing panic.
LastIndexRead(op) ==
    CASE op \in {INQUIRY, REQUEST_SENSE, MODE_SENSE_6} -> 4
      [] op \in {READ_10, WRITE_10, MODE_SENSE_10,
                 READ_FORMAT_CAPACITIES} -> 8
      [] op \in {READ_CAPACITY_16, READ_16} -> 13
      [] OTHER -> 0

\* Mutant: the page code mask keeps bit 6, which belongs to the page control.
ModePage_wide_mask(c) ==
    [dbd |-> (B(c, 1) & 8) # 0,
     page_control |-> PageControls[shiftR(B(c, 2), 6) + 1],
     page_code |-> Num(B(c, 2) & 127),
     subpage_code |-> Num(B(c, 3))]

\* The page fields MODE SENSE (6) and (10) share.
ModePage(c) ==
    [dbd |-> (B(c, 1) & 8) # 0,
     page_control |-> PageControls[shiftR(B(c, 2), 6) + 1],
     page_code |-> Num(B(c, 2) & 63),
     subpage_code |-> Num(B(c, 3))]

parse_cb(c) ==
    IF Len(c) <= LastIndexRead(B(c, 0)) THEN [op |-> "Panic"]
    ELSE LET op == B(c, 0) IN
    CASE op = TEST_UNIT_READY -> [op |-> "TestUnitReady"]
      [] op = INQUIRY ->
            [op |-> "Inquiry", evpd |-> (B(c, 1) & 1) # 0,
             page_code |-> Num(B(c, 2)),
             alloc_len |-> FromBeBytes(<<B(c, 3), B(c, 4)>>)]
      [] op = REQUEST_SENSE ->
            [op |-> "RequestSense", desc |-> (B(c, 1) & 1) # 0,
             alloc_len |-> Num(B(c, 4))]
      [] op = READ_CAPACITY_10 -> [op |-> "ReadCapacity10"]
      [] op = READ_CAPACITY_16 ->
            [op |-> "ReadCapacity16", alloc_len |-> FromBeBytes(Slice(c, 10, 13))]
      [] op \in {READ_10, WRITE_10} ->
            [op |-> IF op = READ_10 THEN "Read" ELSE "Write",
             lba |-> FromBeBytes(Slice(c, 2, 5)),
             len |-> FromBeBytes(Slice(c, 7, 8))]
      [] op = READ_16 ->
            [op |-> "Read", lba |-> FromBeBytes(Slice(c, 2, 9)),
             len |-> FromBeBytes(Slice(c, 10, 13))]
      [] op = MODE_SENSE_6 ->
            [op |-> "ModeSense6", alloc_len |-> Num(B(c, 4))] @@ ModePage(c)
      [] op = MODE_SENSE_10 ->
            [op |-> "ModeSense10", alloc_len |-> FromBeBytes(Slice(c, 7, 8))]
            @@ ModePage(c)
      [] op = READ_FORMAT_CAPACITIES ->
            [op |-> "ReadFormatCapacities", alloc_len |-> FromBeBytes(Slice(c, 7, 8))]
      [] OTHER -> [op |-> "Unknown"]

---------------------------------------------------------------------------
(* The reference: the commands of SPC-4 / SBC-3 / MMC that ScsiCommand    *)
(* names, by operation code and service action (byte 1, bits 4..0), with  *)
(* the CDB fields it carries.                                              *)

AnySa == 0..31
ModeFields == [dbd |-> FlagField(1, 3),
               page_control |-> NameField(2, 6, 2, PageControls),
               page_code |-> BitsField(2, 0, 6),
               subpage_code |-> BitsField(3, 0, 8)]

ScsiSpec ==
  { [code |-> TEST_UNIT_READY, sa |-> AnySa, op |-> "TestUnitReady",
     fields |-> << >>],
    [code |-> INQUIRY, sa |-> AnySa, op |-> "Inquiry",
     fields |-> [evpd |-> FlagField(1, 0), page_code |-> BitsField(2, 0, 8),
                 alloc_len |-> NumField(3, 4)]],
    [code |-> REQUEST_SENSE, sa |-> AnySa, op |-> "RequestSense",
     fields |-> [desc |-> FlagField(1, 0), alloc_len |-> BitsField(4, 0, 8)]],
    [code |-> READ_CAPACITY_10, sa |-> AnySa, op |-> "ReadCapacity10",
     fields |-> << >>],
    [code |-> READ_CAPACITY_16, sa |-> {16}, op |-> "ReadCapacity16",
     fields |-> [alloc_len |-> NumField(10, 13)]],
    [code |-> READ_10, sa |-> AnySa, op |-> "Read",
     fields |-> [lba |-> NumField(2, 5), len |-> NumField(7, 8)]],
    [code |-> READ_16, sa |-> AnySa, op |-> "Read",
     fields |-> [lba |-> NumField(2, 9), len |-> NumField(10, 13)]],
    [code |-> WRITE_10, sa |-> AnySa, op |-> "Write",
     fields |-> [lba |-> NumField(2, 5), len |-> NumField(7, 8)]],
    [code |-> MODE_SENSE_6, sa |-> AnySa, op |-> "ModeSense6",
     fields |-> [alloc_len |-> BitsField(4, 0, 8)] @@ ModeFields],
    [code |-> MODE_SENSE_10, sa |-> AnySa, op |-> "ModeSense10",
     fields |-> [alloc_len |-> NumField(7, 8)] @@ ModeFields],
    [code |-> READ_FORMAT_CAPACITIES, sa |-> AnySa, op |-> "ReadFormatCapacities",
     fields |-> [alloc_len |-> NumField(7, 8)]] }

\* The reference entries a (long enough) command block matches.
SpecEntries(c) ==
    {e \in ScsiSpec : e.code = B(c, 0) /\ B(c, 1) % 32 \in e.sa}

Init == cb \in CbInputs
Next == UNCHANGED cb
Spec == Init /\ [][Next]_cb

---------------------------------------------------------------------------
\* Every command block at least as long as its CDB that the standards
\* define for a command ScsiCommand names is decoded by parse_cb into that
\* command with every field read from the standard's bytes and bits.
DecodesAsSpecified ==
    Len(cb) >= CdbLen(B(cb, 0)) =>
        \A e \in SpecEntries(cb) : parse_cb(cb) = RefDecode(cb, e)

=============================================================================
