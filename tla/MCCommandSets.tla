--------------------------- MODULE MCCommandSets ---------------------------
(***************************************************************************)
(* The pure parts of the subclasses in one run: SCSI parse_cb, UFI        *)
(* parse_cb, the UFI geometry helpers and the BOT wrapper codec.  A behaviour is one input, drawn *)
(* from the disjoint union of the input sets, and each part's       *)
(* property is checked on the inputs of that part.                        *)
(***************************************************************************)
EXTENDS Naturals, Sequences

VARIABLE input

\* SCSI: each operation code parse_cb knows (0x9E both with service action
\* 0x10 and with others), an opcode it does not know, every block length
\* 1..16, and four fillings of the bytes after the opcode: all zero, all
\* ones, 16 * j (which puts service action 0x10 in byte 1) and 37 * j + 11
\* (mixed bits in every byte).
ScsiFillings == {[j \in 1..15 |-> 0], [j \in 1..15 |-> 255],
                 [j \in 1..15 |-> (16 * j) % 256],
                 [j \in 1..15 |-> (37 * j + 11) % 256]}

\* UFI: 12-byte blocks of every UFI operation code and of one unknown
\* code, with the four fillings above and all 1, 2 or 3 (the Start / LoEj
\* combinations of START STOP and both PREVENT values); and the shorter
\* blocks, zero-filled, that a CBW's bCBWCBLength may also give.
UfiFillings == {[j \in 1..11 |-> 0], [j \in 1..11 |-> 255],
                [j \in 1..11 |-> (16 * j) % 256],
                [j \in 1..11 |-> (37 * j + 11) % 256],
                [j \in 1..11 |-> 1], [j \in 1..11 |-> 2], [j \in 1..11 |-> 3]}

\* Geometry: LBAs 0..MaxLba on disks of 1..MaxGeom sectors and heads, so
\* that every LBA crosses several tracks and cylinders.
MaxLba == 23
MaxGeom == 4

Scsi == INSTANCE ScsiCommand WITH cb <- input.cb, CbInputs <- {}
Ufi == INSTANCE UfiCommand WITH cb <- input.cb, CbInputs <- {}
Codec == INSTANCE CbwCodec
Geom == INSTANCE UfiGeometry
            WITH lba <- input.lba, sec_trk <- input.sec_trk,
                 head_trk <- input.head_trk

\* CBW: 31-byte wrappers with the CBW signature, the CSW signature and the
\* signature byte-reversed; tags and dCBWDataTransferLength values (bytes
\* least significant first) with zero, low, high and top bytes set; flags
\* In, Out, a reserved bit and both; LUNs 0, 1, 15 and one with a reserved
\* bit; bCBWCBLength 0, 1, 6, 16, 17 and 1 with a reserved bit.
CbwSigs == {<<\h55, \h53, \h42, \h43>>, <<\h55, \h53, \h42, \h53>>,
            <<\h43, \h42, \h53, \h55>>}
CbwDwords == {<<1, 2, 3, 4>>, <<0, 0, 0, 0>>, <<0, 2, 0, 0>>, <<255, 0, 0, 128>>}
CbwFlags == {0, \h80, \h40, \h81}
CbwLuns == {0, 1, 15, \h10}
CbwCbLens == {0, 1, 6, 16, 17, \h21}
CbwBlock == [j \in 1..16 |-> (37 * j + 11) % 256]

ScsiOpcodes ==
    {Scsi!TEST_UNIT_READY, Scsi!REQUEST_SENSE, Scsi!INQUIRY, Scsi!MODE_SENSE_6,
     Scsi!MODE_SENSE_10, Scsi!READ_10, Scsi!READ_16, Scsi!READ_CAPACITY_10,
     Scsi!READ_CAPACITY_16, Scsi!WRITE_10, Scsi!READ_FORMAT_CAPACITIES, 255}
UfiOpcodes == {e.code : e \in Ufi!UfiSpec} \cup {255}

Inputs ==
    {[k |-> "scsi", cb |-> <<op>> \o SubSeq(f, 1, n - 1)] :
        op \in ScsiOpcodes, f \in ScsiFillings, n \in 1..16}
    \cup {[k |-> "ufi", cb |-> <<op>> \o f] : op \in UfiOpcodes, f \in UfiFillings}
    \cup {[k |-> "ufi", cb |-> <<op>> \o SubSeq(f, 1, n - 1)] :
            op \in UfiOpcodes, f \in {[j \in 1..11 |-> 0]}, n \in 1..11}
    \cup {[k |-> "geom", lba |-> l, sec_trk |-> s, head_trk |-> h] :
            l \in 0..MaxLba, s \in 1..MaxGeom, h \in 1..MaxGeom}

    \cup {[k |-> "cbw", raw |-> sig \o tag \o len \o <<f, l, n>> \o CbwBlock] :
            sig \in CbwSigs, tag \in CbwDwords, len \in CbwDwords \ {<<1, 2, 3, 4>>},
            f \in CbwFlags, l \in CbwLuns, n \in CbwCbLens}

Init == input \in Inputs
Next == UNCHANGED input
Spec == Init /\ [][Next]_input

\* SCSI parse_cb decodes every CDB at least as long as the standards make
\* it, of a command ScsiCommand names, into that command with every field
\* read from the SPC-4 / SBC-3 bytes and bits (ScsiCommand!DecodesAsSpecified).
ScsiDecodes == input.k = "scsi" => Scsi!DecodesAsSpecified

\* UFI parse_cb decodes every well-formed 12-byte UFI command into the
\* command and fields of the UFI 1.0 specification
\* (UfiCommand!DecodesAsSpecified).
UfiDecodes == input.k = "ufi" => Ufi!DecodesAsSpecified

\* Scsi::poll and Ufi::poll hand parse_cb cbw.block[..block_len], and
\* CommandBlockWrapper::from_le_bytes accepts every bCBWCBLength in 1..16
\* (BOT 6.2.1): parse_cb must turn every such block into a command, known
\* or Unknown, and never index past its end (a panic halts the firmware).
NoParsePanic ==
    input.k \in {"scsi", "ufi"} =>
        LET r == IF input.k = "scsi" THEN Scsi!parse_cb(input.cb)
                 ELSE Ufi!parse_cb(input.cb)
        IN  r.op # "Panic"

\* lba_to_sector / lba_to_head / lba_to_track give a valid CHS address that
\* names the block lba (UfiGeometry!ChsRoundTrip).
ChsRoundTrip == input.k = "geom" => Geom!ChsRoundTrip

\* try_parse_cbw / from_le_bytes: a meaningful CBW (BOT 6.2.2: signature,
\* reserved bits clear, bCBWCBLength 1..16) is accepted, and the tag, the
\* transfer length, the direction (ignored with no data), the LUN and the
\* block get_command hands on are those of BOT table 5.1; a CBW without
\* the signature or with bCBWCBLength outside 1..16 is rejected.
CbwDecodes ==
    input.k = "cbw" =>
        LET r == Codec!try_parse_cbw(input.raw)
        IN  /\ Codec!RefMeaningful(input.raw) =>
                   /\ r # Codec!InvalidCbwError
                   /\ [tag |-> r.tag, data_transfer_len |-> r.data_transfer_len,
                       direction |-> r.direction, lun |-> r.lun,
                       cb |-> Codec!get_command(r).bytes] = Codec!RefCbw(input.raw)
            /\ (\/ ~Codec!RefSignatureOk(input.raw)
                \/ Codec!RefCbLength(input.raw) \notin 1..16) =>
                   r = Codec!InvalidCbwError

\* build_csw on a parsed CBW, whatever the status and whatever residue the
\* data phase left in data_transfer_len (none, one byte, all), is 13 bytes
\* the host reads as the CSW signature, the tag of the CBW's own bytes
\* (BOT 5.2: the device echoes dCBWTag), that residue and the status byte
\* of BOT table 5.3.
CswEncodes ==
    input.k = "cbw" =>
        LET r == Codec!try_parse_cbw(input.raw)
        IN  r # Codec!InvalidCbwError =>
                \A s \in DOMAIN Codec!CommandStatus,
                   res \in {<<>>, <<1>>, r.data_transfer_len} :
                    Codec!RefCsw(Codec!build_csw([r EXCEPT !.data_transfer_len = res], s))
                      = [len |-> 13, sig |-> Codec!FromBeBytes(<<\h53, \h42, \h53, \h55>>),
                         tag |-> Codec!RefLe(input.raw, 4, 7), residue |-> res,
                         status |-> Codec!RefStatusByte[s]]
=============================================================================
