------------------------------- MODULE NumStr -------------------------------
(***************************************************************************)
(* The conversions of the class numstr between numbers and text.           *)
(* A character is the value of the digit it stands for, 0 to 15 (letters   *)
(* of either case), or Minus, or Other. Where the code overflows a signed  *)
(* number the build wraps.                                                 *)
(***************************************************************************)
EXTENDS Integers, Sequences

CONSTANT Half   \* of the values of the number's type, 2^31 or 2^63

ASSUME NumAssumption == Half \in Nat \ {0}

Minus == 16
Other == 17

Wrap(n)   == n % (2 * Half)
Signed(u) == IF u >= Half THEN u - 2 * Half ELSE u
Numbers   == 0..(2 * Half - 1)

(* The digits are written backwards from the end of a buffer, then zeros    *)
(* until there are min_digits of them, then the sign.                       *)
Digits(u, base) ==
  LET f[n \in 0..u] == IF n < base THEN <<n>> ELSE Append(f[n \div base], n % base)
  IN f[u]

(* mutant: the sign counts as one of the digits *)
PaddedWithSign(ds, min, neg) ==
  LET sign == IF neg THEN <<Minus>> ELSE <<>>
      all  == sign \o ds
  IN [i \in 1..(IF min > Len(all) THEN min - Len(all) ELSE 0) |-> 0] \o all

Padded(ds, min, neg) ==
  (IF neg THEN <<Minus>> ELSE <<>>)
    \o [i \in 1..(IF min > Len(ds) THEN min - Len(ds) ELSE 0) |-> 0] \o ds

UToStr(u, base, min) == Padded(Digits(u, base), min, FALSE)

(* -num overflows for the smallest number. *)
IToStr(num, base, min) ==
  Padded(Digits(IF num >= 0 THEN num ELSE Wrap(-num), base), min, num < 0)

(* What the assertions let through and what fits res[20] and res[21], of    *)
(* which the last character ends the string. Where it does not fit the code  *)
(* writes in front of the buffer.                                            *)
UToStrFits(u, base, min) ==
  min <= 20 - 1 /\ Len(UToStr(u, base, min)) <= 20 - 1
IToStrFits(num, base, min) ==
  min <= 21 - 2 /\ Len(IToStr(num, base, min)) <= 21 - 1

IsDigit(ch, base) == base \in {10, 16} /\ ch < base

(* What comes before the first digit is skipped, a minus in it counts; what  *)
(* comes after the last one is not looked at.                                *)
ToInt32(str) ==
  LET Step(s, ch) ==
        IF s.done THEN s
        ELSE IF ch <= 9 THEN [s EXCEPT !.found = TRUE, !.num = Wrap(s.num * 10 + ch)]
        ELSE IF s.found THEN [s EXCEPT !.done = TRUE]
        ELSE [s EXCEPT !.sign = IF ch = Minus THEN -1 ELSE s.sign]
      start   == [found |-> FALSE, done |-> FALSE, sign |-> 1, num |-> 0]
      scan[i \in 0..Len(str)] == IF i = 0 THEN start ELSE Step(scan[i - 1], str[i])
      end     == scan[Len(str)]
  IN Signed(Wrap(end.num * end.sign))

(* In base 16 what is no digit is skipped after the first digit, too. *)
ToUint(str, base) ==
  LET Step(s, ch) ==
        IF s.done \/ ~(s.found \/ IsDigit(ch, base)) THEN s
        ELSE IF IsDigit(ch, base)
             THEN [s EXCEPT !.found = TRUE, !.num = Wrap(s.num * base + ch)]
             ELSE [s EXCEPT !.done = base # 16]
      start == [found |-> FALSE, done |-> FALSE, num |-> 0]
      scan[i \in 0..Len(str)] == IF i = 0 THEN start ELSE Step(scan[i - 1], str[i])
  IN scan[Len(str)].num
=============================================================================
