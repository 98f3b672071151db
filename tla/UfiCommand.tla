----------------------------- MODULE UfiCommand -----------------------------
(***************************************************************************)
(* parse_cb of the UFI subclass (usbd-storage/src/subclass/ufi.rs), which *)
(* Ufi::poll applies to cbw.block[..block_len].  The decoding is compared  *)
(* with the command descriptions of the USB Mass Storage Class UFI Command *)
(* Specification 1.0, whose commands are all 12 bytes long.  cb is the    *)
(* command block of one poll; a behaviour is one input.                   *)
(***************************************************************************)
EXTENDS CommandBlock

CONSTANT CbInputs   \* the command blocks to check

VARIABLE cb

\* Operation codes (ufi.rs, "UFI codes").
FORMAT_UNIT == 4 \* 0x04
INQUIRY == 18 \* 0x12
MODE_SELECT == 85 \* 0x55
MODE_SENSE == 90 \* 0x5A
PREVENT_ALLOW_MEDIUM_REMOVAL == 30 \* 0x1E
READ_10 == 40 \* 0x28
READ_12 == 168 \* 0xA8
READ_CAPACITY == 37 \* 0x25
READ_FORMAT_CAPACITIES == 35 \* 0x23
REQUEST_SENSE == 3 \* 0x03
REZERO_UNIT == 1 \* 0x01
SEEK_10 == 43 \* 0x2B
SEND_DIAGNOSTIC == 29 \* 0x1D
START_STOP == 27 \* 0x1B
TEST_UNIT_READY == 0 \* 0x00
VERIFY == 47 \* 0x2F
WRITE_10 == 42 \* 0x2A
WRITE_12 == 170 \* 0xAA
WRITE_AND_VERIFY == 46 \* 0x2E

\* The highest cb index each match arm of parse_cb reads; a shorter block
\* makes the indexing panic.
LastIndexRead(op) ==
    CASE op \in {REQUEST_SENSE, INQUIRY, PREVENT_ALLOW_MEDIUM_REMOVAL,
                START_STOP} -> 4
      [] op \in {MODE_SENSE, READ_10, WRITE_10, WRITE_AND_VERIFY, FORMAT_UNIT,
                 MODE_SELECT, READ_FORMAT_CAPACITIES, VERIFY} -> 8
      [] op \in {READ_12, WRITE_12} -> 9
      [] op = SEEK_10 -> 5
      [] op = SEND_DIAGNOSTIC -> 1
      [] OTHER -> 0

\* Mutant: eject tests the LoEj bit alone, so "load" (LoEj and Start) ejects.
start_stop_eject_bit(c) ==
    [op |-> "StartStop", start |-> (B(c, 4) & 1) > 0, eject |-> (B(c, 4) & 2) > 0]

\* The START_STOP arm.
start_stop(c) ==
    [op |-> "StartStop", start |-> (B(c, 4) & 1) > 0, eject |-> B(c, 4) = 2]

\* The arms that read an LBA from cb[2..=5] and a length.
Transfer(op, c, lenLo, lenHi) ==
    [op |-> op, lba |-> FromBeBytes(Slice(c, 2, 5)),
     len |-> FromBeBytes(Slice(c, lenLo, lenHi))]

parse_cb(c) ==
    IF Len(c) <= LastIndexRead(B(c, 0)) THEN [op |-> "Panic"]
    ELSE LET op == B(c, 0) IN
    CASE op = REQUEST_SENSE -> [op |-> "RequestSense", alloc_len |-> Num(B(c, 4))]
      [] op = INQUIRY -> [op |-> "Inquiry", alloc_len |-> Num(B(c, 4))]
      [] op = TEST_UNIT_READY -> [op |-> "TestUnitReady"]
      [] op = READ_CAPACITY -> [op |-> "ReadCapacity"]
      [] op = PREVENT_ALLOW_MEDIUM_REMOVAL ->
            [op |-> "PreventAllowMediumRemoval", prevent |-> B(c, 4) # 0]
      [] op = MODE_SENSE ->
            [op |-> "ModeSense", page_control |-> Num(shiftR(B(c, 2), 6)),
             page_code |-> Num(B(c, 2) & 63),
             param_list_len |-> FromBeBytes(Slice(c, 7, 8))]
      [] op = READ_10 -> Transfer("Read", c, 7, 8)
      [] op = READ_12 -> Transfer("Read", c, 6, 9)
      [] op = WRITE_10 -> Transfer("Write", c, 7, 8) @@ [verify |-> FALSE]
      [] op = WRITE_12 -> Transfer("Write", c, 6, 9) @@ [verify |-> FALSE]
      [] op = WRITE_AND_VERIFY -> Transfer("Write", c, 7, 8) @@ [verify |-> TRUE]
      [] op = FORMAT_UNIT ->
            [op |-> "FormatUnit", track |-> Num(B(c, 2)),
             parameter_list_len |-> FromBeBytes(Slice(c, 7, 8))]
      [] op = MODE_SELECT ->
            [op |-> "ModeSelect", parameter_list_len |-> FromBeBytes(Slice(c, 7, 8))]
      [] op = READ_FORMAT_CAPACITIES ->
            [op |-> "ReadFormatCapacities", alloc_len |-> FromBeBytes(Slice(c, 7, 8))]
      [] op = REZERO_UNIT -> [op |-> "RezeroUnit"]
      [] op = SEEK_10 -> [op |-> "Seek", lba |-> FromBeBytes(Slice(c, 2, 5))]
      [] op = SEND_DIAGNOSTIC ->
            [op |-> "SendDiagnostic", default |-> (B(c, 1) & 4) > 0]
      [] op = START_STOP -> start_stop(c)
      [] op = VERIFY -> Transfer("Verify", c, 7, 8)
      [] OTHER -> [op |-> "Unknown"]

---------------------------------------------------------------------------
(* The reference: the UFI 1.0 commands, their fields, and the reserved     *)
(* bits (byte, mask) of the bytes the code reads as a whole, which a host *)
(* sets to zero.                                                           *)

LbaLen10 == [lba |-> NumField(2, 5), len |-> NumField(7, 8)]
LbaLen12 == [lba |-> NumField(2, 5), len |-> NumField(6, 9)]

Entry(code, op, fields, reserved) ==
    [code |-> code, op |-> op, fields |-> fields, reserved |-> reserved]

UfiSpec ==
  { Entry(FORMAT_UNIT, "FormatUnit",
          [track |-> BitsField(2, 0, 8), parameter_list_len |-> NumField(7, 8)], {}),
    Entry(INQUIRY, "Inquiry", [alloc_len |-> BitsField(4, 0, 8)], {}),
    Entry(MODE_SELECT, "ModeSelect", [parameter_list_len |-> NumField(7, 8)], {}),
    Entry(MODE_SENSE, "ModeSense",
          [page_control |-> BitsField(2, 6, 2), page_code |-> BitsField(2, 0, 6),
           param_list_len |-> NumField(7, 8)], {}),
    Entry(PREVENT_ALLOW_MEDIUM_REMOVAL, "PreventAllowMediumRemoval",
          [prevent |-> FlagField(4, 0)], {<<4, 254>>}),
    Entry(READ_10, "Read", LbaLen10, {}),
    Entry(READ_12, "Read", LbaLen12, {}),
    Entry(READ_CAPACITY, "ReadCapacity", << >>, {}),
    Entry(READ_FORMAT_CAPACITIES, "ReadFormatCapacities",
          [alloc_len |-> NumField(7, 8)], {}),
    Entry(REQUEST_SENSE, "RequestSense", [alloc_len |-> BitsField(4, 0, 8)], {}),
    Entry(REZERO_UNIT, "RezeroUnit", << >>, {}),
    Entry(SEEK_10, "Seek", [lba |-> NumField(2, 5)], {}),
    Entry(SEND_DIAGNOSTIC, "SendDiagnostic", [default |-> FlagField(1, 2)], {}),
    \* LoEj = 1 and Start = 0 ejects the medium.
    Entry(START_STOP, "StartStop",
          [start |-> FlagField(4, 0), eject |-> IsField(4, 0, 2, 2)], {<<4, 252>>}),
    Entry(TEST_UNIT_READY, "TestUnitReady", << >>, {}),
    Entry(VERIFY, "Verify", LbaLen10, {}),
    Entry(WRITE_10, "Write", LbaLen10 @@ [verify |-> ConstField(FALSE)], {}),
    Entry(WRITE_12, "Write", LbaLen12 @@ [verify |-> ConstField(FALSE)], {}),
    Entry(WRITE_AND_VERIFY, "Write", LbaLen10 @@ [verify |-> ConstField(TRUE)], {}) }

UFI_CDB_LEN == 12

\* A well-formed UFI command block of the command e.
WellFormed(c, e) ==
    /\ Len(c) = UFI_CDB_LEN /\ B(c, 0) = e.code
    /\ \A r \in e.reserved : (B(c, r[1]) & r[2]) = 0

Init == cb \in CbInputs
Next == UNCHANGED cb
Spec == Init /\ [][Next]_cb

---------------------------------------------------------------------------
\* parse_cb decodes every well-formed 12-byte UFI command block into the
\* command of the UFI specification, with every field (LBA, transfer
\* length, flags) taken from the bytes and bits the specification assigns.
DecodesAsSpecified ==
    \A e \in UfiSpec : WellFormed(cb, e) => parse_cb(cb) = RefDecode(cb, e)

=============================================================================
