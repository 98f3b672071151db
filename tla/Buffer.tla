------------------------------ MODULE Buffer ------------------------------
(***************************************************************************)
(* The transport's IO buffer (usbd-storage/src/buffer.rs): one linear      *)
(* region of BufCap bytes with a read cursor rpos and a write cursor wpos. *)
(*                                                                         *)
(* Bytes are not modelled one by one.  The live bytes inner[rpos..wpos]    *)
(* are a sequence of runs ("segments"): a run is len consecutive bytes of  *)
(* one wire object (a CBW, a block of host data, a block of device data,   *)
(* a CSW).  Every object carries the tag of the command it belongs to, so  *)
(* a run of 31 bytes of one CBW object is that whole CBW, and a CBW parsed *)
(* from a mixture of runs is garbage.  The stale bytes in inner[0..rpos]   *)
(* are never read again by the code and are not kept.                      *)
(***************************************************************************)
EXTENDS Naturals, Sequences, SequencesExt

CONSTANT BufCap   \* len() of the byte slice handed to BulkOnly::new

ASSUME BufCap \in Nat \ {0}

MinNat(a, b) == IF a < b THEN a ELSE b

\* Number of bytes in a sequence of runs.
SegsLen(s) == FoldLeft(LAMBDA acc, x : acc + x.len, 0, s)

\* Append one run, merging it with the last run when it continues the
\* same object (bytes are moved in order, so same object = contiguous).
AddSeg(s, x) ==
    IF x.len = 0 THEN s
    ELSE IF s # <<>> /\ Last(s).obj = x.obj
         THEN [s EXCEPT ![Len(s)].len = @ + x.len]
         ELSE Append(s, x)

Concat(s, t) == FoldLeft(AddSeg, s, t)

\* The first n bytes of s, and s without its first n bytes.
RECURSIVE TakeBytes(_, _), DropBytes(_, _)
TakeBytes(s, n) ==
    IF n = 0 \/ s = <<>> THEN <<>>
    ELSE IF Head(s).len <= n
         THEN <<Head(s)>> \o TakeBytes(Tail(s), n - Head(s).len)
         ELSE <<[Head(s) EXCEPT !.len = n]>>
DropBytes(s, n) ==
    IF n = 0 \/ s = <<>> THEN s
    ELSE IF Head(s).len <= n
         THEN DropBytes(Tail(s), n - Head(s).len)
         ELSE <<[Head(s) EXCEPT !.len = @ - n]>> \o Tail(s)

\* A run of n bytes of object o.
Run(o, n) == <<[obj |-> o, len |-> n]>>

---------------------------------------------------------------------------
(* Buffer<T>: the record [rpos, wpos, segs]; segs holds inner[rpos..wpos]. *)

EmptyBuffer == [rpos |-> 0, wpos |-> 0, segs |-> <<>>]

available_read(b) == b.wpos - b.rpos

available_write(b) == BufCap - b.wpos

\* clean(): both cursors back to 0.
clean(b) == EmptyBuffer

\* Mutant of shift: the read cursor is not moved back to the front.
shift_keeps_rpos(b) == [b EXCEPT !.wpos = b.wpos - b.rpos]

\* shift(): move inner[rpos..wpos] to the front (memmove), or clean when
\* nothing is left to read.
shift(b) ==
    IF b.rpos # b.wpos
    THEN [b EXCEPT !.wpos = b.wpos - b.rpos, !.rpos = 0]
    ELSE clean(b)

\* write(data): shift when data does not fit after wpos, then copy as many
\* bytes as fit.  WriteCount is the returned count, Write the new buffer.
WriteTarget(b, n) == IF available_write(b) < n THEN shift(b) ELSE b
WriteCount(b, data) ==
    MinNat(available_write(WriteTarget(b, SegsLen(data))), SegsLen(data))
Write(b, data) ==
    LET t == WriteTarget(b, SegsLen(data))
        count == WriteCount(b, data)
    IN  [t EXCEPT !.wpos = @ + count,
                  !.segs = Concat(@, TakeBytes(data, count))]

\* write_all(max_count, ..): the buffer after the shift it may do, and
\* whether it still overflows (Err(overflow_err), f is not called).
WriteAllTarget(b, max) == WriteTarget(b, max)
WriteAllOverflows(b, max) == available_write(WriteAllTarget(b, max)) < max
\* ... and the buffer after f filled `data` into inner[wpos..wpos+max]:
\* the advance is min(count, inner.len() - wpos).
WriteAllFill(b, max, data) ==
    LET t == WriteAllTarget(b, max)
        adv == MinNat(SegsLen(data), BufCap - t.wpos)
    IN  [t EXCEPT !.wpos = @ + adv, !.segs = Concat(@, TakeBytes(data, adv))]

\* read(f): f consumed count bytes of inner[rpos..wpos]; advance by at most
\* available_read().
Read(b, count) ==
    LET adv == MinNat(count, available_read(b))
    IN  [b EXCEPT !.rpos = @ + adv, !.segs = DropBytes(@, adv)]

\* The bytes read(f) hands to f (the first n of them).
Peek(b, n) == TakeBytes(b.segs, n)

=============================================================================
