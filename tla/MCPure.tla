------------------------------- MODULE MCPure -------------------------------
(***************************************************************************)
(* The pure functions against what they are for. A state is an input:      *)
(* every number is an initial state, and steps build all text made of the  *)
(* characters at the limits of UTF-8, all strings of the octets at the     *)
(* limits of each kind, all moments of more than two periods of the clock, *)
(* and all short strings, paths and URLs.                                  *)
(***************************************************************************)
EXTENDS NumStr, Utf8, Timer, Text

CONSTANTS
  Values,     \* numbers to convert
  Bases, MinDigits,
  Characters, \* of the text
  OctetValues,
  MaxText, MaxOctets, MaxTime,
  MaxString, MaxPath, MaxUrl

ASSUME PureAssumption ==
  /\ Values \subseteq Numbers /\ MinDigits \subseteq Nat
  /\ Characters \subseteq Nat /\ OctetValues \subseteq 0..255

VARIABLES kind, input

Init ==
  \/ kind = "number" /\ input \in Values
  \/ kind = "text"   /\ input = <<>>
  \/ kind = "octets" /\ input = <<>>
  \/ kind = "time"   /\ input = 0
  \/ kind \in {"string", "path"} /\ input = <<>>
  \/ kind = "url"    /\ input = <<Http>>

NextCharacter ==
  /\ kind = "text" /\ Len(input) < MaxText
  /\ \E ch \in Characters : input' = Append(input, ch)
NextOctet ==
  /\ kind = "octets" /\ Len(input) < MaxOctets
  /\ \E octet \in OctetValues : input' = Append(input, octet)
Grow(k, chars, max) ==
  kind = k /\ Len(input) < max /\ \E ch \in chars : input' = Append(input, ch)
Tick == kind = "time" /\ input < MaxTime /\ input' = input + 1

Next ==
  /\ \/ NextCharacter \/ NextOctet \/ Tick
     \/ Grow("string", {10, Space, Quote, LF, CR}, MaxString)
     \/ Grow("path", {10, Dot, Slash, BackSlash}, MaxPath)
     \/ Grow("url", {0, 7, 10, Colon, Slash}, MaxUrl)
  /\ UNCHANGED kind
Spec == Init /\ [][Next]_<<kind, input>>

-----------------------------------------------------------------------------
(* A number that is converted to text and back is the same, the smallest one *)
(* included, with other text on both sides of it and with every padding,     *)
(* provided that the text fits the buffer it is made in and the padding is   *)
(* one that the assertions allow (mpo_numstr.cpp:178, 264).                  *)
SignedRoundTrip(num, min) ==
  LET text == IToStr(num, 10, min)
  IN IToStrFits(num, 10, min) =>
       /\ ToInt32(text) = num
       /\ ToInt32(<<Other>> \o text \o <<Other, 1>>) = num
       /\ \A i \in 1..Len(text) : text[i] = Minus => i = 1
       /\ num < 0 => Len(text) >= min + 1
UnsignedRoundTrip(u, base, min, after) ==
  LET text == UToStr(u, base, min)
  IN UToStrFits(u, base, min) =>
       ToUint(<<Other>> \o text \o after, base) = u /\ Len(text) >= min
NumbersRoundTrip ==
  kind = "number" =>
    \A min \in MinDigits :
      /\ SignedRoundTrip(Signed(input), min)
      /\ UnsignedRoundTrip(input, 10, min, <<Other, 1>>)
      /\ UnsignedRoundTrip(input, 16, min, <<Other>>)

(* Text that can be encoded comes back as it was; what cannot is refused.    *)
TextRoundTrip ==
  kind = "text" =>
    LET utf8 == ToUTF8(input)
    IN /\ utf8.ok <=> \A i \in DOMAIN input : CanEncode(input[i])
       /\ utf8.ok => FromUTF8(utf8.dst)
                       = [ok |-> TRUE, dst |-> input, inside |-> TRUE]

Continues(octet) == octet \in 128..191
(* A string of characters that are complete: those begin at some positions,  *)
(* each after the end of the one before it.                                  *)
Shaped(src) ==
  \E starts \in SUBSET (1..(Len(src) + 1)) :
    /\ 1 \in starts
    /\ \A i \in starts \ {Len(src) + 1} :
         LET next == i + Kind(src[i]).more + 1
         IN /\ next > i /\ next \in starts
            /\ \A j \in (i + 1)..(next - 1) : Continues(src[j])

(* Of the ways to write a character in octets only the shortest is accepted: *)
(* what is accepted, is well shaped and is a character is what ToUTF8 would  *)
(* have written.                                                             *)
OnlyShortest ==
  kind = "octets" /\ FromUTF8(input).ok /\ Shaped(input) =>
    LET text == FromUTF8(input).dst
    IN ToUTF8(text).ok => ToUTF8(text).dst = input

Utf8Exact == TextRoundTrip /\ OnlyShortest

(* Whatever moment a wait began at, the time that has passed is never told   *)
(* to be less than it is, within one period of the clock: a timeout may come *)
(* early, when the clock begins again in between, but never late.            *)
NeverLate ==
  kind = "time" =>
    \A passed \in 0..(Period - 1) :
      GetElapsedMs(RefreshTimer(input), input + passed) >= passed

(* The parts of a text between the characters that separate them             *)
Split(text, Separates(_)) ==
  FoldLeft(LAMBDA parts, ch :
             IF Separates(ch) THEN Append(parts, <<>>)
             ELSE [parts EXCEPT ![Len(parts)] = Append(@, ch)],
           << <<>> >>, text)
NotEmpty(parts) == SelectSeq(parts, LAMBDA part : part # <<>>)

(* What repeated calls take from a buffer until it is empty or gives no word *)
AllWords(buf) ==
  LET n == Len(buf)
      from[i \in 1..(n + 1)] ==
        LET r == GetFirstWord(SubSeq(buf, i, n))
        IN IF r.word = <<>> THEN <<>>
           ELSE <<r.word>> \o from[n + 1 - Len(r.rest)]
  IN from[1]
AllLines(buf) ==
  LET n == Len(buf)
      from[i \in 1..(n + 1)] ==
        LET r == GetFirstLine(SubSeq(buf, i, n))
        IN IF i > n THEN <<>> ELSE <<r.line>> \o from[n + 1 - Len(r.rest)]
  IN from[1]

(* Text that is taken apart loses nothing: the words and the lines with      *)
(* something in them come out whole and in order, and arguments that Launch  *)
(* made a command line of come back as they were, but for the quotes, which  *)
(* escape_arg removes (mpo_misc.h:277), whether they are empty, have spaces  *)
(* in them or at their ends.                                                 *)
TextSplit ==
  kind = "string" =>
    LET args == Split(input, LAMBDA ch : ch = LF)
    IN /\ AllWords(input) = NotEmpty(Split(input, LAMBDA ch : IsSpace(ch, FALSE)))
       /\ NotEmpty(AllLines(input)) = NotEmpty(Split(input, IsLineEnd))
       /\ UnescapeCmdLine(CmdLine(args))
            = [i \in DOMAIN args |-> SelectSeq(args[i], LAMBDA ch : ch # Quote)]

Names(path)  == SelectSeq(NotEmpty(Split(path, IsSep)), LAMBDA name : name # <<Dot>>)
Rooted(path) == path # <<>> /\ IsSep(path[1])
(* No name ends in a dot, the parent directory included *)
PlainNames(path) == \A i \in DOMAIN Names(path) : Last(Names(path)[i]) # Dot

(* The names of a path one behind the other, one separator between them, and *)
(* one in front and at the end where the path has any there.                 *)
StandardForm(path) ==
  LET OneSep(here) == IF here THEN <<Slash>> ELSE <<>>
      names == FoldLeft(LAMBDA text, name : text \o <<Slash>> \o name, <<>>, Names(path))
  IN OneSep(Rooted(path)) \o Tail(names) \o OneSep(IsSep(Last(path)))

(* The standard form "make[s] string comparisons possible" (mpo_misc.h:155): *)
(* two paths that have the same names, both from the root or both not, and   *)
(* both or neither with a separator at the end, come out the same, and any   *)
(* two others come out different. For names that do not end in a dot (see    *)
(* SameFile); a path without names comes out as one of three and stays that. *)
PathStandard ==
  kind = "path" /\ PlainNames(input) =>
    LET s == StandardizePath(input)
    IN IF Names(input) # <<>> THEN s = StandardForm(input)
       ELSE s \in {<<>>, <<Dot>>, <<Slash>>} /\ StandardizePath(s) = s

(* A "." at the end of a path does not make a difference (mpo_misc.h:155).   *)
DotAtEndIsNothing ==
  kind = "path" /\ Names(input) # <<>> =>
    StandardizePath(input \o <<Slash, Dot>>) = StandardizePath(input)

(* The parts of a URL are those of "http://host:port/uri", the port and the  *)
(* uri optional (mpo_net.h:95), unless a colon stands in the uri and not     *)
(* before it (see UrlParts).                                                 *)
UrlIs(url) ==
  LET rest  == Tail(url)
      slash == Found(SelectInSeq(rest, LAMBDA ch : ch = Slash), rest)
      where == SubSeq(rest, 1, slash - 1)
      colon == Found(SelectInSeq(where, LAMBDA ch : ch = Colon), where)
      port  == SubSeq(where, colon + 1, Len(where))
  IN [host |-> SubSeq(where, 1, colon - 1),
      hasPort |-> colon <= Len(where),
      port |-> IF port = <<>> THEN 80 ELSE FoldLeft(LAMBDA n, d : Wrap(10 * n + d), 0, port),
      isNumber |-> \A i \in DOMAIN port : port[i] <= 9,
      uri  |-> IF slash > Len(rest) THEN <<Slash>> ELSE SubSeq(rest, slash, Len(rest))]
Parsed(url) ==
  LET is == UrlIs(url) parsed == NetParseUrl(url)
  IN is.host # <<>> /\ is.isNumber =>
       parsed = [ok |-> TRUE, host |-> is.host, port |-> is.port, uri |-> is.uri]
UrlParsed ==
  kind = "url" /\ (UrlIs(input).hasPort \/ ~Contains(UrlIs(input).uri, Colon)) =>
    Parsed(input)

(* Words, lines, arguments, the names in paths and the parts of URLs come    *)
(* out as they stand there.                                                  *)
TextExact == TextSplit /\ PathStandard /\ UrlParsed

(* The same for every URL (mpo_net.h:95).                                    *)
UrlParts == kind = "url" => Parsed(input)

(* The standard form of a path names the same file, whatever its names are   *)
(* (mpo_misc.h:155).                                                         *)
SameFile == kind = "path" => Names(StandardizePath(input)) = Names(input)

(* The standard form of the root is the root (mpo_misc.h:155).               *)
RootStaysRoot ==
  kind = "path" /\ Names(input) = <<>> /\ Rooted(input) => Rooted(StandardizePath(input))

(* What is left after a line begins with the next line: "get rid of any      *)
(* trailing CR/LF characters" (mpo_misc.cpp:585).                            *)
LineEndsGone ==
  kind = "string" =>
    LET rest == GetFirstLine(input).rest IN rest # <<>> => ~IsLineEnd(rest[1])

(* "trims whitespace off the front end back of a string" (mpo_misc.h:184).   *)
TrimsBothEnds ==
  kind = "string" =>
    LET r == Trim(input)
    IN r.inside /\ (r.text # <<>> => ~IsSpace(Last(r.text), TRUE))

(* Differences are exact: "we only care about relative time anyway"          *)
(* (mpo_timer.cpp:55).                                                       *)
ElapsedExact ==
  kind = "time" =>
    \A passed \in 0..(Period - 1) :
      GetElapsedMs(RefreshTimer(input), input + passed) = passed

(* The characters written stay within the buffer of UToStr, in every base up *)
(* to the one that is asserted (mpo_numstr.cpp:261, "we consciously don't    *)
(* support a base above 16").                                                *)
DigitsFit ==
  kind = "number" => \A base \in Bases : UToStrFits(input, base, 0)

(* In base 16, as in base 10, what follows a number does not change it.      *)
HexStops ==
  kind = "number" =>
    ToUint(UToStr(input, 16, 0) \o <<Other, 1>>, 16) = input

(* FromUTF8 looks at the octets of the string and at no others.              *)
StaysInString == kind = "octets" => FromUTF8(input).inside

-----------------------------------------------------------------------------
AllNumbers  == Numbers
LargeValues == {2^19 - 1, 2^19, 2^20}
(* The last of each length, the first of the next, and around what is left out. *)
Limits == {0, 127, 128, 2047, 2048, 55295, 55296, 57343, 57344, 65535, 65536,
           1114111, 1114112}
(* The limits of each kind of octet. *)
OctetLimits == {0, 127, 128, 143, 144, 159, 160, 191, 192, 193, 194, 223, 224, 225,
                237, 239, 240, 241, 244, 247, 248, 255}
=============================================================================
