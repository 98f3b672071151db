---------------------------- MODULE UfiGeometry ----------------------------
(***************************************************************************)
(* The floppy geometry helpers of ufi.rs: lba_to_sector, lba_to_head and  *)
(* lba_to_track turn a logical block address into the cylinder-head-     *)
(* sector address of a disk with sec_trk sectors per track and head_trk   *)
(* heads.  Rust's / and % on u32 are \div and % on naturals; the results  *)
(* stay below lba + 2, so no u32 arithmetic wraps.  A behaviour is one    *)
(* input.                                                                  *)
(***************************************************************************)
EXTENDS Naturals

CONSTANTS MaxLba,    \* LBAs 0..MaxLba are checked
          MaxGeom    \* sec_trk and head_trk range over 1..MaxGeom

VARIABLES lba, sec_trk, head_trk

\* Mutant: sectors counted from 0, although CHS sectors start at 1.
lba_to_sector_from_zero(l, s) == l % s

lba_to_sector(l, s) == (l % s) + 1

lba_to_head(l, s, h) == (l \div s) % h

lba_to_track(l, s, h) == (l \div s) \div h

Init ==
    /\ lba \in 0..MaxLba
    /\ sec_trk \in 1..MaxGeom
    /\ head_trk \in 1..MaxGeom
Next == UNCHANGED <<lba, sec_trk, head_trk>>
Spec == Init /\ [][Next]_<<lba, sec_trk, head_trk>>

\* The CHS address the helpers compute is a valid one (sector 1..sec_trk,
\* head 0..head_trk - 1) and names the block lba: the standard CHS-to-LBA
\* formula (track * heads + head) * sectors + sector - 1 gives lba back.
ChsRoundTrip ==
    LET sector == lba_to_sector(lba, sec_trk)
        head == lba_to_head(lba, sec_trk, head_trk)
        track == lba_to_track(lba, sec_trk, head_trk)
    IN  /\ sector \in 1..sec_trk
        /\ head \in 0..(head_trk - 1)
        /\ (track * head_trk + head) * sec_trk + sector - 1 = lba
=============================================================================
