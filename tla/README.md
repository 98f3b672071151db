# TLA+ models of usbd-storage

These modules model the USB Mass Storage Bulk-Only Transport (BOT) of
`usbd-storage`, the SCSI/UFI poll loop that drives it, the command-block
parsers of both subclasses, and four example firmwares (stm32 SCSI, stm32 UFI,
and two versions of rp2040 SCSI) as users of the API. A model of a BOT host drives them. TLC checks
the whole device against that host. The parsers are checked as pure operators
against the command layouts of the standards.

## The system

| Part | Source | What it does |
|---|---|---|
| IO buffer | `usbd-storage/src/buffer.rs` | One linear byte region with a read cursor `rpos` and a write cursor `wpos`. `write`, `write_all` and `read` move the cursors. `shift` moves the unread bytes to the front. `clean` resets both cursors. |
| BOT transport | `src/transport/bbb.rs` | `BulkOnly`: a state machine with the states Idle, CommandTransfer, DataTransfer{ToHost,FromHost,NoData} and StatusTransfer. It reads CBWs, moves data one packet per call of `read()`/`write()`, and builds and writes the CSW. It stalls endpoints on residue and goes Idle on `reset`. The user API is `get_command`, `read_data`, `write_data`, `try_write_data_all` and `set_status`. |
| Subclass poll | `usbd-storage/src/subclass/scsi.rs` (`ufi.rs` is the same) | `poll(callback)` does the following: `read()`, `write()`, then, if a command is present and has no status, the callback. After the callback it calls `write()`, repeats the callback while that returns `FullPacketExpected`, and then calls `read()`. |
| Command wrapper | `src/subclass/mod.rs` | `pass`, `fail`, `read_data` and friends forward to `BulkOnly`. |
| Command parsers | `usbd-storage/src/subclass/scsi.rs`, `ufi.rs` | `parse_cb` turns `cbw.block[..block_len]` (any `block_len` in 1..16) into a `ScsiCommand`/`UfiCommand` by the opcode in byte 0. It indexes bytes without a length check. `ufi.rs` also has `lba_to_sector/head/track`. |
| Example firmware | `examples/stm32/src/bin/stm32f411x_scsi_bbb.rs` | The main loop calls `usb_device.poll`, which delivers bus resets, clears `STATE` in the Default state, and then calls `scsi.poll`. `process_command` handles each command: TEST UNIT READY passes, fixed replies use `try_write_data_all` then pass, READ sends chunks with `write_data` tracked by `storage_offset`, WRITE uses `read_data`, and anything else fails. |
| UFI example | `examples/stm32/src/bin/stm32f411x_ufi_bbb.rs` | Same main loop over `Ufi::poll`. READ of an LBA below 0xCE hands the whole rest of the transfer to `write_data`. Beyond it, a loop writes blocks of 0xF6 until `write_data` returns 0. WRITE passes without reading the data. |
| rp2040 example | `examples/rp2040/src/bin/rp2040_scsi_bbb.rs`, and its older copy `examples-rp2040/src/bin/rp2040_scsi_bbb.rs` | READ hands the whole rest to `write_data`. WRITE reads into the rest of a one-block buffer and loops while a read ends exactly on a block boundary. READ CAPACITY(16) copies 4 bytes into an 8-byte slice. The older copy keeps its state in `static mut`, has no READ CAPACITY(16) arm, and reads the image through a `from_raw_parts` slice of 1 MiB over a 32 KiB static. |
| Host | (not in this repository) | A BOT host as the spec and Linux usb-storage describe it. It sends a CBW, moves the data, reads 13 CSW bytes, clears halts, and on babble, an invalid CSW or a timeout does reset recovery (a bus reset). |

The parts interact as follows:
- The transport and the host share two endpoint FIFOs. The host fills the OUT FIFO and the transport reads it; the transport fills the IN FIFO and the host empties it.
- Each FIFO has a halt feature.
- The poll loop interleaves transport steps with user callbacks. The host's hardware acts between any two steps.

## Modules

- **`Buffer`**: the buffer as a record `[rpos, wpos, segs]`.
  - `segs` abstracts the live bytes `inner[rpos..wpos]` as *runs*: `len` bytes of one wire object (a CBW, host data, device data or a CSW, each tagged with its command). So a CBW parsed from a mixture of runs is garbage, and "13 bytes of one CSW" is a well-formed CSW.
  - The operators are `write`, `write_all`, `read`, `clean` and `shift`, with the code's capping and shifting.
- **`BulkOnly`**: the transport's fields (`state`, `buf`, `cbw`, `cs`), the FIFOs `in_ep`/`out_ep` (at most `EpSlots` packets) and their halt bits.
  - `ret` is what the last `read()`/`write()` returned, and `panicked` is set when `set_status` unwraps an error.
  - Each handler (`handle_read_cbw`, `handle_read_from_host`, `handle_write_to_host`, `handle_no_data_transfer`, `handle_write_csw`, `check_end_data_transfer`, `end_data_transfer`) is one operator. Each includes every call it makes, such as the CSW flush inside `end_data_transfer` and the shift inside a failing `read_packet`.
  - `ReadOp` and `WriteOp` are `BulkOnly::read` and `BulkOnly::write`.
  - `read_data` hands the whole readable slice to `copy_from_slice` into `dst[..min(dst.len(), available)]`. So it reads everything buffered when that fits in `dst`, and panics otherwise (`ReadDataPanics`). The stm32 WRITE and the rp2040 WRITE take the panic as `ReadDataPanic`.
- **`ScsiPoll`**: `Scsi::poll` as steps named by `pc`: read, write, command, callback, after and read2. The callback is a parameter, `Poll(callback)`; `process_command` is the stm32 SCSI example's. `pass` and `fail` are `Command::pass` and `Command::fail` of `subclass/mod.rs`, which forward to `set_status`; every callback uses them.
  - A command block is abstracted to `[op, dlen]`: the `ScsiCommand` variant and the byte count the example handles for it.
  - `offset` is `STATE.storage_offset`.
- **`MassStorage`**: the host and the composition. Host actions:
  - `HostIssue`: send a CBW.
  - `HostSend`: one OUT packet.
  - `HostOutHalted`: STALL on OUT, then clear the halt.
  - `HostReceive`: one IN packet, with data-stage and status-stage rules.
  - `HostInHalted`: STALL on IN.
  - `HostTimeout`.
  - `BusReset`: `BulkOnly::reset`, flush the FIFOs, clear the example `STATE`; taken only between two `poll` calls.
  - The device step is `Device == Poll /\ UNCHANGED hvars`.
  - `Device` is `Poll(callback)` with the callback of the firmware `fw` names: `process_command` ("scsi"), `ufi_process_command` ("ufi"), `rp2040_process_command` ("rp2040"), `rp2040_static_process_command` ("rp2040_static", the copy under `examples-rp2040/`) or `user_process_command` ("user").
  - `fw` is chosen in `Init` from the domain of the constant `HostCbws` and never changes: one firmware is flashed per behaviour. `HostCbws[f]` is the set of CBWs the host sends to firmware `f`, so one run can check several firmwares, each with its own commands.
- **`UfiExample`** (EXTENDS `ScsiPoll`): the UFI example's callback. `ReadDump` is the image branch of READ. `FillLoop` (RECURSIVE) is the 0xF6 loop, run to its end inside one callback, as the code does. `Block` is `BLOCK_SIZE`.
- **`Rp2040Example`** (EXTENDS `UfiExample`): the callbacks of both rp2040 programs. `examples-rp2040/` is an older copy of `examples/rp2040/` with `static mut` state instead of critical sections and without a READ CAPACITY(16) arm; `rp2040_static_process_command` therefore fails that command as unknown. `WriteLoop` (RECURSIVE) is the WRITE loop: each `read_data` gets the rest of the current block as `dst`, and the loop goes on only after a read that completes a block. Its result says whether a read panicked: `read_data` panics when the buffer holds more than `dst.len()` bytes. `ReadCapacity16Reply` (in `ScsiPoll`) is the panicking copy.
- **`GenericUser`**: a callback that is not in the repository, in the environment like the host. Its READ writes its data and then calls `fail()`, a use that the doc of `set_status` describes.
- **`CommandBlock`**: command blocks as byte sequences. `FromBeBytes` gives big-endian numbers as base-256 numerals, so u32/u64 fields need no integers beyond TLC's range. It also has the reference decoder: a command is a table of fields (byte ranges, bits, bit ranges), read by `\div` and `%` independently of the code's masks and shifts.
- **`ScsiCommand`**, **`UfiCommand`**: the opcode constants and `parse_cb`. An arm reading past the block yields `[op |-> "Panic"]` (`LastIndexRead`). `ScsiSpec` and `UfiSpec` are the reference tables from SPC-4/SBC-3 and UFI 1.0.
- **`CbwCodec`** (EXTENDS `CommandBlock`): the wire layout that `BulkOnly`'s CBW and CSW records stand for. `try_parse_cbw` checks the signature and hands the 27 remaining bytes to `from_le_bytes`, which rejects a `bCBWCBLength` outside 1..16, reads tag and transfer length little-endian (`FromLeBytes`, `Reverse` of SequencesExt), takes the direction from bit 7 of the flags unless no data is expected, and keeps the low nibble of the LUN. `get_command` is `block[..block_len]`. `build_csw` lays out signature, tag, residue (`ToLeBytes`) and the `CommandStatus` byte. `RefCbw` and `RefCsw` read the same bytes by the field tables of BOT 5.1-5.3, with `RefLe` taking byte j as the most significant digit, independently of `Reverse`.
- **`UfiGeometry`**: `lba_to_sector`, `lba_to_head` and `lba_to_track`.
- **`BotCycle`**: the abstract command cycle that `BulkOnly` refines (see the properties).
- **`MCMassStorage`**: the host's CBWs for each run, as functions from firmware to CBW set.
- **`MCCommandSets`**: one run for the four pure modules. It INSTANCEs them with `cb` (or `lba`, `sec_trk`, `head_trk`) taken from one input drawn from the disjoint union of their input sets.

### Properties (in `MassStorage`)

- `TypeOK`: the buffer cursors satisfy `0 <= rpos <= wpos <= BufCap`, the runs add up to `wpos - rpos`, no FIFO holds more than `EpSlots` packets, and every packet has 1..PacketSize bytes.
- `NoBabble`: the host never receives more data-in bytes than dCBWDataTransferLength.
- `CswValid`: every status stage yields exactly one 13-byte CSW with the CBW's tag.
- `ResidueAgrees`: on data-in the residue equals Hi minus the bytes received. On data-out it lies between Hi minus the bytes sent and Hi.
- `CommandPhaseClean`: in Idle and CommandTransfer the buffer holds only CBW bytes.
- `CommandCompletes` (liveness): a command in a data or status stage ends in a CSW or in reset recovery without a host timeout.
- `NoPanic`: the firmware never panics.
- `ImplementsBotCycle` (refinement): `BotCycle!Spec` under the mapping `phase <- PhaseOf(state)`, `tag <- cbw.tag`, `status <- cs`, `epoch <- resets`.
  - `BotCycle` is the abstract command cycle of the BOT spec: Accept a CBW, Pass, Conclude or Abort the data stage, Complete the CSW, and Reset. It also has the one-step forms (ConcludeAndComplete, AbortAndComplete) for a CSW that fits in one packet.
  - The refinement says the data stage starts only from a CBW and keeps its tag, the status is set once and not changed before the CSW is sent, and a data stage ends only in the status stage or by a bus reset.
  - It is safety only. Its liveness counterpart is `CommandCompletes`: once the host has used its last reset, a host in Recover serves nobody, so "the status stage ends" does not hold in the bounded model.

### Properties (in `MCCommandSets`)

- `ScsiDecodes`: every SCSI command block at least as long as its CDB (by group code), whose opcode and service action are those of a command in the table, is decoded into that command, with every field taken from the standard's bytes and bits.
- `UfiDecodes`: the same for every 12-byte UFI command whose reserved bits are zero.
- `NoParsePanic`: `parse_cb` (SCSI or UFI) never indexes past the block, for every block length 1..16 that `from_le_bytes` accepts. Checked only by the violation run below.
- `CbwDecodes`: every meaningful CBW (signature, reserved bits clear, `bCBWCBLength` 1..16; BOT 6.2.2) is accepted, and its tag, transfer length, direction, LUN and the block `get_command` hands on are those of table 5.1. Every CBW without the signature, or with a length outside 1..16, is rejected. A wrong byte order, a wrong direction bit or a dropped signature check breaks it.
- `CswEncodes`: for every accepted CBW, every status and the residues 0, 1 and the full length, `build_csw` gives 13 bytes that the host reads as the CSW signature, the tag of the CBW's own bytes (the echo the host matches commands by), that residue and the status byte of table 5.3.
- `ChsRoundTrip`: the CHS address of an LBA has a sector in 1..sec_trk and a head below head_trk, and the standard CHS-to-LBA formula gives the LBA back.

## Runs

| Run | cfg | Expect | Shows |
|---|---|---|---|
| example_hi_eq_di | `MCMassStorage.cfg` | pass | The SCSI and the UFI example, each with Hi = Di commands of every kind it handles, timeouts and one reset. For both firmwares all six properties and the refinement hold (about 18k states, about a minute). |
| fail_data_out | `MCStallOut.cfg` | pass | An unsupported data-out command. The OUT stall ends the host's data stage, the residue is right and the CSW arrives (`ResidueAgrees`, `CommandCompletes`). |
| hi_lt_di_babble | `MCHiLtDi.cfg` | violation of `NoBabble` | READ with Hi 12 < Di 16. `write_data` caps at the residue not yet sent, ignoring what is already buffered (bbb.rs:240). |
| hi_gt_di_bad_csw | `MCHiGtDi.cfg` | violation of `CswValid` | READ with Hi 16 > Di 8. The IN stall comes before the last data packet has left the FIFO (bbb.rs:373), and the host reads that packet as the CSW. |
| invalid_cbw_hang | `MCInvalidCbw.cfg` | violation of `CommandCompletes` | An invalid CBW is stalled and then at once unstalled by `reset()` (bbb.rs:291-292). The host waits for a CSW until it times out. |
| fail_data_out_stale | `MCStaleOut.cfg` | violation of `CommandPhaseClean` | A data packet already in the OUT FIFO when the command fails is parsed as part of the next CBW. |
| command_sets | `MCCommandSets.cfg` | pass | SCSI and UFI `parse_cb` agree with the standards' layouts, and the geometry helpers round-trip, and the CBW parser and CSW builder agree with BOT tables 5.1-5.3 (4932 inputs). |
| parse_short_block_panic | `MCParsePanic.cfg` | violation of `NoParsePanic` | `from_le_bytes` accepts any bCBWCBLength in 1..16 and `Scsi::poll` hands `parse_cb` the block of that length. The 1-byte REQUEST SENSE block `<<0x03>>` makes `parse_cb` read `cb[1]` and panic (scsi.rs:118). UFI `parse_cb` has the same flaw (ufi.rs:133). |
| ufi_fill_overrun | `MCUfiFill.cfg` | violation of `CswValid` | A READ beyond LBA 0xCE with Hi = Di = 64 and `BLOCK_SIZE` 32. Once packets leave between two callbacks, the fill loop's `write_data` calls, each capped only at the unsent residue, queue more than 64 bytes. `storage_offset` passes 64, so the command never passes, and the host reads the extra data as the CSW. |
| rp2040_hi_eq_di | `MCRp2040.cfg` | pass | Both rp2040 programs (READ of a block, WRITE of two, INQUIRY, unknown; `examples-rp2040` also gets READ CAPACITY(16)) with `BLOCK_SIZE` = `BufCap` = 32, and the user callback whose READ fails after 8 of 16 bytes. Up to the panics these firmwares reach, no data byte is left for the next CBW and every CSW is valid (`CommandPhaseClean`, `CswValid`; about 52k states, seconds). A panicked firmware stops for good, so deadlock is not checked, and `CommandCompletes` is not claimed: the next row shows a WRITE that never completes. |
| rp2040_write_panic | `MCRp2040Panic.cfg` | violation of `NoPanic` | The `examples/rp2040` WRITE of two 32-byte blocks. At offset 24 the host has streamed 16 bytes into the buffer. `read_data(&mut write_buffer[24..])` then panics in `copy_from_slice` (bbb.rs:217), where its doc promises the number of bytes actually read. |
| read_error_panic | `MCReadError.cfg` | violation of `NoPanic` | The same READ. When `fail()` runs while the IN FIFO still holds a data packet, `set_status` unwraps the CSW flush's WouldBlock (bbb.rs:184). Its doc says the buffer is sent first and the status later. |

`MCUfi.cfg` is the UFI half of the main configuration on its own, and `MCUserFail.cfg` the user callback on its own (its checks are part of `rp2040_hi_eq_di`). They are for a quicker look at one firmware; no run in `PROJECT.json` uses them.

Each property of a passing run has a mutant in `PROJECT.json`, a plausible bug that TLC then catches:
- `shift` forgets `rpos = 0`;
- `FixedReply` does not pass;
- the full-packet rule is dropped;
- the residue is not counted down;
- `WriteHandler` passes early;
- `FailCmd` does not fail;
- `build_csw` leaves the residue zero;
- the UFI/rp2040 READ does not advance `storage_offset`;
- the rp2040 WRITE passes at a block boundary before the last block;
- the mode page code keeps bit 6;
- UFI `eject` tests the LoEj bit alone;
- sectors are counted from 0;
- `check_end_data_transfer` ends a transfer's data stage without a status (caught by the refinement).

### Bounds

- `PacketSize = 8` and `BufCap = 32` keep the code's relation between them: the buffer holds a CBW (31 bytes), which needs 4 packets, and a CSW (13 bytes) needs 2. So multi-packet CBWs, CSWs split over two packets, buffer shifts and the full-packet rule all occur. The firmware uses 64 and 512 bytes.
- `Chunk = 5 < PacketSize` makes the example's READ hand over less than a packet, which exercises `FullPacketExpected`. It is the code path the example's commented-out line enables.
- `EpSlots = 1` is a single hardware packet buffer per endpoint, the worst case for WouldBlock.
- `MaxCmds = 2` lets a second command see what the first one left behind. `MaxResets = 1` allows one recovery.
- Transfer lengths of 0, 8, 12 and 16 cover no data, exactly one packet, a short last packet and two full packets.
- The main run uses `Block = 8`, so a UFI READ is two blocks. The fill run uses `Block = 32`, so one `write_data` can cover several packets. The rp2040 run uses `Block = 32 = BufCap`, so a WRITE of 64 bytes is two blocks, each arriving in several packets over several polls.
- Parser inputs:
  - every opcode each parser knows, plus one it does not;
  - for SCSI, every block length 1..16; for UFI, every length 1..11 (zero-filled) besides the 12-byte blocks;
  - fillings of 0, 255, 16·j (which puts the service action 0x10 into byte 1), 37·j+11 (mixed bits), and for UFI 1, 2 and 3 (the START STOP and PREVENT bit combinations).
- CBWs: 3456 wrappers of 31 bytes. The signature is right, the CSW's, or byte-reversed. Tags and lengths have zero, low, middle and top bytes set, so a byte-order error shows. Flags are In, Out, a reserved bit, and In with a reserved bit. LUNs are 0, 1, 15 and one with a reserved bit. `bCBWCBLength` is 0, 1, 6, 16, 17, and 1 with a reserved bit.
- Geometry: LBAs 0..23 on disks with 1..4 sectors and heads, so that addresses cross several tracks and cylinders.

### Fairness

- `WF` on the device step: the firmware's main loop calls `poll` forever.
- `WF` on the host's packet moves and halt clearing: a host controller keeps polling the bulk endpoints.
- `SF` on `BusReset`: it is enabled only between two `poll` calls, so it is enabled intermittently.
- No fairness on `HostIssue` or `HostTimeout`: whether the host issues a command or times out is the host's choice. This is why `CommandCompletes` fails when only a timeout can end a command.

## Not modelled

- Descriptors and `control_in`: GET_MAX_LUN and the class-specific reset request. GET_MAX_LUN only answers on ep0 and changes no state. The reset request is handled in `control_in` although it is an OUT request, so usb-device never routes it there, and the arm is empty anyway. The request is stalled and changes nothing in the device, so the host model goes straight to the bus reset a host falls back to.
- LBAs. A command is its data length, so READ/WRITE past the last block (a slice panic in the examples; in `examples-rp2040`, a read past the 32 KiB image through `from_raw_parts`) are hazards without a property.
- In the device runs `parse_cb` is abstracted to `[op, dlen]`. `parse_cb` itself is checked on its own in `command_sets`.
- The LUN: `from_le_bytes` masks `bCBWLUN` to 4 bits and never compares it with `max_lun`, and it ignores the reserved bits. BOT leaves the device's response to a CBW that is not meaningful unspecified, and every example ignores `lun`, so no property bounds it. `CbwDecodes` checks only that the callback sees the nibble the host sent.
- The link between `CbwCodec` and the records of `BulkOnly` is by construction: the host model sends records whose `valid` flag is what `CbwDecodes` shows `try_parse_cbw` accepts.
- Block contents, flash programming and sense data.
- USB errors other than WouldBlock.
- These are modelled and were seen to fail, but no run checks them:
  - 0x9E is decoded as READ CAPACITY(16) whatever its service action is.
  - READ CAPACITY(16) panics in the stm32 SCSI and the `examples/rp2040` firmware (`copy_from_slice` of 4 bytes into 8).
  - A fixed reply longer than Hi babbles, because `try_write_data_all` has no residue cap.
  - The stm32 WRITE with Ho > Do panics in `read_data` once the buffer holds more than the rest of the transfer. Otherwise the last read empties the buffer and the CSW reports the unread bytes as residue.
  - `fail()` in the middle of a data-in stage drops the buffered data (`buf.clean()`, bbb.rs:384) and reports it as residue. `tests/scsi_bbb.rs:129-155`, the doc of `set_status` and scenario 4 of the spec expect the 256 bytes written before `fail()` to reach the host, with residue 256 instead of 512. `ResidueAgrees` holds in both readings, so no passing run tells them apart. The model's user callback writes and fails in separate invocations, where the data has already left.

  `PROJECT.json` lists them as hazards.

## Possible extensions

1. An abstract FIFO spec for `Buffer`, and a refinement mapping from the run abstraction.
2. Data and residue in the abstract BOT spec (bytes moved per command), so that the refinement also covers the Hi = Di data stage.
3. GET_MAX_LUN as a host request on ep0, so that a host that sends only LUNs up to `max_lun` can be told apart from one that does not.
