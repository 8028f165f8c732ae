----------------------------- MODULE MemStream ------------------------------
(***************************************************************************)
(* A stream that can be read, written and positioned, as the class         *)
(* MpoMemStream keeps it in memory: a record of its content and its        *)
(* position. The unit is a cell: one field of a file format or one byte of *)
(* data. A stream in a file is the same thing except that it may be full,  *)
(* which Capacity stands for.                                              *)
(***************************************************************************)
EXTENDS Integers, Sequences

CONSTANT Capacity   \* cells that the medium has room for

ASSUME StreamAssumption == Capacity \in Nat

Fewer(a, b) == IF a < b THEN a ELSE b
MoreThanNone(n) == IF n > 0 THEN n ELSE 0

EmptyStream == [cells |-> <<>>, pos |-> 0]

(* What pads a stream that is written beyond its end. *)
Padding == <<"num", 0>>

(* Read: what a read of n cells returns, and the stream after it. *)
ReadFrom(s, n) == SubSeq(s.cells, s.pos + 1, Fewer(s.pos + n, Len(s.cells)))
AfterRead(s, n) == [s EXCEPT !.pos = s.pos + Len(ReadFrom(s, n))]

(* Write: how much of n cells is written, and the stream after it. What      *)
(* they cover is replaced, what follows stays.                               *)
Fits(s, n) == Fewer(n, MoreThanNone(Capacity - s.pos))

AfterWrite(s, new) ==
  LET k == Fits(s, Len(new))
      before == SubSeq(s.cells, 1, Fewer(s.pos, Len(s.cells)))
      gap == [i \in 1..MoreThanNone(s.pos - Len(s.cells)) |-> Padding]
      after == SubSeq(s.cells, s.pos + k + 1, Len(s.cells))
  IN [cells |-> before \o gap \o SubSeq(new, 1, k) \o after, pos |-> s.pos + k]

Wrote(s, new) == Fits(s, Len(new)) = Len(new)

(* Seek: a position before the beginning is refused, one beyond the end not. *)
Origin(s, origin) ==
  CASE origin = "SET" -> 0
    [] origin = "CUR" -> s.pos
    [] origin = "END" -> Len(s.cells)

CanReach(s, offset, origin) == Origin(s, origin) + offset >= 0

AfterSeek(s, offset, origin) ==
  IF CanReach(s, offset, origin)
  THEN [s EXCEPT !.pos = Origin(s, origin) + offset]
  ELSE s
=============================================================================
