-------------------------------- MODULE Utf8 --------------------------------
(***************************************************************************)
(* mpom::ToUTF8 and FromUTF8: text as a sequence of numbers of characters, *)
(* and as a sequence of octets. The code's shifts and masks are divisions  *)
(* and remainders by powers of two; 64 values fit into an octet that       *)
(* continues a character.                                                  *)
(***************************************************************************)
EXTENDS Integers, Sequences

Surrogates == 55296..57343      \* 0xD800 to 0xDFFF
Highest    == 1114111           \* 0x10FFFF
CanEncode(ch) == ch <= Highest /\ ch \notin Surrogates

Low(ch, unit) == 128 + ((ch \div unit) % 64)   \* an octet that continues

Octets(ch) ==
  IF ch <= 127 THEN <<ch>>
  ELSE IF ch <= 2047 THEN <<192 + ch \div 64, Low(ch, 1)>>
  ELSE IF ch <= 65535 THEN <<224 + ch \div 4096, Low(ch, 64), Low(ch, 1)>>
  ELSE <<240 + ch \div 262144, Low(ch, 4096), Low(ch, 64), Low(ch, 1)>>

(* What cannot be encoded is left out, and the result is false. *)
ToUTF8(text) ==
  LET dst[i \in 0..Len(text)] ==
        IF i = 0 THEN <<>>
        ELSE dst[i - 1] \o IF CanEncode(text[i]) THEN Octets(text[i]) ELSE <<>>
  IN [ok |-> \A i \in DOMAIN text : CanEncode(text[i]), dst |-> dst[Len(text)]]

(* The first octet says how many follow, what it adds to the number, and    *)
(* from which number on that many are needed.                               *)
Kind(octet) ==
  IF octet <= 127 THEN [more |-> 0, bits |-> octet, range |-> 0]
  ELSE IF octet \in 192..223 THEN [more |-> 1, bits |-> octet % 32, range |-> 128]
  ELSE IF octet \in 224..239 THEN [more |-> 2, bits |-> octet % 16, range |-> 2048]
  ELSE IF octet \in 240..247 THEN [more |-> 3, bits |-> octet % 8, range |-> 65536]
  ELSE [more |-> -1, bits |-> 0, range |-> 0]

(* mutant: the check for overlong sequences is missing *)
AnyLength(u, kind) == TRUE

InRange(u, kind) == u >= kind.range

(* What the first octet and those that follow it make.                       *)
Joined(bits, rest) ==
  LET With(u, i) == IF i <= Len(rest) THEN u * 64 + (rest[i] % 64) ELSE u
  IN With(With(With(bits, 1), 2), 3)

(* One turn of the loop, from the octet at s.next. A sequence that is cut by *)
(* the end of the string has been shifted once more; if what there is of it  *)
(* is in the range, the loop goes on beyond the end. That an octet which     *)
(* follows begins with 10 is not looked at, nor what number results.         *)
Turn(src, s) ==
  LET n    == Len(src)
      kind == Kind(src[s.next])
      last == IF s.next + kind.more <= n THEN s.next + kind.more ELSE n
      cut  == last < s.next + kind.more
      read == Joined(kind.bits, SubSeq(src, s.next + 1, last))
      u    == IF cut THEN read * 64 ELSE read
  IN IF kind.more < 0 \/ ~InRange(u, kind) THEN [s EXCEPT !.ok = FALSE]
     ELSE [ok   |-> ~cut,
           dst  |-> Append(s.dst, u),
           next |-> IF cut THEN n + 2 ELSE last + 1]

(* The loop takes one octet at least in each turn. "inside" is false if it   *)
(* would go on beyond the end of the string, which is undefined.             *)
FromUTF8(src) ==
  LET n == Len(src)
      loop[k \in 0..n] ==
        IF k = 0 THEN [ok |-> TRUE, dst |-> <<>>, next |-> 1]
        ELSE LET s == loop[k - 1]
             IN IF s.ok /\ s.next <= n THEN Turn(src, s) ELSE s
      end == loop[n]
  IN [ok |-> end.ok, dst |-> end.dst, inside |-> end.next <= n + 1]
=============================================================================
