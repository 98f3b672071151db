---------------------------- MODULE CommandBlock ----------------------------
(***************************************************************************)
(* Command blocks as the subclasses see them: the bytes                   *)
(* cbw.block[..block_len] that BulkOnly::get_command hands to parse_cb.   *)
(*                                                                         *)
(* A command block is a sequence of bytes (0..255); the code's index j is  *)
(* the sequence's position j + 1.  Decoded integers are kept as base-256   *)
(* numerals, most significant digit first with no leading zero digit      *)
(* (zero is <<>>).  That is the value of u16/u32/u64::from_be_bytes       *)
(* whatever its width, without the 32-bit limit of TLC's integers, and a  *)
(* widening "as u64" leaves it unchanged.                                  *)
(*                                                                         *)
(* The module also gives the reference decoding of the command set        *)
(* standards: a command is described by its fields, each a byte range, a  *)
(* bit or a bit range of the CDB, and the reference decoder reads a field *)
(* by arithmetic on the bytes, independent of the code's masks and        *)
(* shifts.                                                                 *)
(***************************************************************************)
EXTENDS Naturals, Sequences, Bitwise, TLC

Bytes == 0..255

\* Byte j (0-based, as in the code) of command block cb.
B(cb, j) == cb[j + 1]

\* The numeral of a big-endian byte string: drop the leading zero bytes.
RECURSIVE FromBeBytes(_)
FromBeBytes(s) ==
    IF s # <<>> /\ Head(s) = 0 THEN FromBeBytes(Tail(s)) ELSE s

\* The numeral of a single byte value (a u8 field).
Num(v) == FromBeBytes(<<v>>)

\* The code's cb[i..=j] (bytes i to j, both included).
Slice(cb, i, j) == SubSeq(cb, i + 1, j + 1)

---------------------------------------------------------------------------
(* Reference decoding.  A field is one of                                  *)
(*   [k |-> "num",  lo |-> i, hi |-> j]           bytes i..j, big-endian; *)
(*   [k |-> "flag", at |-> i, bit |-> b]          bit b of byte i;        *)
(*   [k |-> "bits", at |-> i, bit |-> b, w |-> n] bits b..b+n-1 of byte i;*)
(*   [k |-> "name", at |-> i, bit |-> b, w |-> n, names |-> t]            *)
(*                                     the same bits naming t[value + 1]; *)
(*   [k |-> "is", at |-> i, bit |-> b, w |-> n, v |-> v]                  *)
(*                                     whether those bits hold v;         *)
(*   [k |-> "const", v |-> v]          a value the command itself fixes.  *)

NumField(i, j) == [k |-> "num", lo |-> i, hi |-> j]
FlagField(i, b) == [k |-> "flag", at |-> i, bit |-> b]
BitsField(i, b, n) == [k |-> "bits", at |-> i, bit |-> b, w |-> n]
NameField(i, b, n, t) == [k |-> "name", at |-> i, bit |-> b, w |-> n, names |-> t]
IsField(i, b, n, v) == [k |-> "is", at |-> i, bit |-> b, w |-> n, v |-> v]
ConstField(v) == [k |-> "const", v |-> v]

BitsOf(cb, f) == (B(cb, f.at) \div 2^f.bit) % 2^f.w

RefField(cb, f) ==
    CASE f.k = "num"  -> FromBeBytes(Slice(cb, f.lo, f.hi))
      [] f.k = "flag" -> (B(cb, f.at) \div 2^f.bit) % 2 = 1
      [] f.k = "bits" -> Num(BitsOf(cb, f))
      [] f.k = "name" -> f.names[BitsOf(cb, f) + 1]
      [] f.k = "is"   -> BitsOf(cb, f) = f.v
      [] f.k = "const" -> f.v

\* The command a standard's table entry e = [op, fields] describes.
RefDecode(cb, e) ==
    [x \in {"op"} \cup DOMAIN e.fields |->
        IF x = "op" THEN e.op ELSE RefField(cb, e.fields[x])]

\* The CDB length of an operation code (SPC-4 4.2.5.1, group code in bits
\* 7..5): groups 0, 1, 2, 4 and 5 are 6, 10, 10, 16 and 12 bytes long.
CdbLen(opcode) ==
    CASE opcode \div 32 = 0 -> 6
      [] opcode \div 32 \in {1, 2} -> 10
      [] opcode \div 32 = 4 -> 16
      [] opcode \div 32 = 5 -> 12
      [] OTHER -> 16

=============================================================================
