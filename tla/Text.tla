-------------------------------- MODULE Text --------------------------------
(***************************************************************************)
(* The functions that take text apart: words, lines, paths, URLs and       *)
(* command lines. A character is a number, as in NumStr: a digit or letter *)
(* is the value it stands for, and the others that matter have a name.     *)
(***************************************************************************)
EXTENDS NumStr, SequencesExt

Slash     == 18
BackSlash == 19
Dot       == 20
Colon     == 21
Quote     == 22
Space     == 23
LF        == 24
CR        == 25
Http      == 26     \* the seven characters "http://"

IsSep(ch)     == ch \in {Slash, BackSlash}
IsLineEnd(ch) == ch \in {LF, CR}
IsSpace(ch, onlySpaceAndTab) == ch = Space \/ (~onlySpaceAndTab /\ IsLineEnd(ch))

(* A position found, or one beyond the end. *)
Found(pos, str) == IF pos = 0 THEN Len(str) + 1 ELSE pos

(* ----------------------------- words and lines ---------------------------- *)
(* Without a word the buffer stays as it is. *)
GetFirstWord(buf) ==
  LET from == SelectInSeq(buf, LAMBDA ch : ~IsSpace(ch, FALSE))
      to   == Found(SelectInSubSeq(buf, from, Len(buf), LAMBDA ch : IsSpace(ch, FALSE)), buf)
  IN IF from = 0 THEN [word |-> <<>>, rest |-> buf]
     ELSE [word |-> SubSeq(buf, from, to - 1), rest |-> SubSeq(buf, to, Len(buf))]

LineEnd(buf) == Found(SelectInSeq(buf, IsLineEnd), buf)

(* The ends of line after the line are removed while there is more in the    *)
(* buffer than the length of the line, because the loop compares the index   *)
(* of the end in the old buffer with the size of the new one.                *)
GetFirstLine(buf) ==
  LET end  == LineEnd(buf)
      rest == SubSeq(buf, end, Len(buf))
      ends == Found(SelectInSeq(rest, LAMBDA ch : ~IsLineEnd(ch)), rest) - 1
      over == Len(rest) - (end - 1)
      gone == IF over <= 0 THEN 0 ELSE IF over < ends THEN over ELSE ends
  IN [line |-> SubSeq(buf, 1, end - 1), rest |-> SubSeq(rest, gone + 1, Len(rest))]

(* Space at the end is looked for only if there was some at the front, and   *)
(* in a text of nothing but space the search goes on before its beginning.   *)
Trim(s) ==
  LET from  == Found(SelectInSeq(s, LAMBDA ch : ~IsSpace(ch, TRUE)), s)
      to    == SelectLastInSeq(s, LAMBDA ch : ~IsSpace(ch, TRUE))
  IN IF from = 1 THEN [text |-> s, inside |-> TRUE]
     ELSE [text |-> SubSeq(s, from, to), inside |-> to > 0]

(* ---------------------------------- paths --------------------------------- *)
(* mutant: every separator is kept *)
NeverRedundant(gotSep) == FALSE

(* A separator is redundant after another one, with "./" between them or not. *)
Redundant(gotSep) == gotSep

(* A dot before separators is dropped with them, wherever it stands.         *)
StandardizePath(path) ==
  LET IsCurDir(i) == path[i] = Dot /\ i < Len(path) /\ IsSep(path[i + 1])
      Step(s, i) ==
        IF s.skip /\ IsSep(path[i]) THEN s
        ELSE IF IsCurDir(i) THEN [s EXCEPT !.skip = TRUE]
        ELSE IF path[i] = Dot THEN [s EXCEPT !.skip = FALSE, !.dst = Append(@, Dot)]
        ELSE IF ~IsSep(path[i])
             THEN [dst |-> Append(s.dst, path[i]), gotSep |-> FALSE, skip |-> FALSE]
        ELSE IF Redundant(s.gotSep) THEN s
        ELSE [s EXCEPT !.dst = Append(@, Slash), !.gotSep = TRUE]
      spath == FoldLeftDomain(Step, [dst |-> <<>>, gotSep |-> FALSE, skip |-> FALSE], path).dst
  IN IF IsSuffix(<<Slash, Dot>>, spath)
     THEN SubSeq(spath, 1, Len(spath) - 2) ELSE spath

(* ----------------------------------- URLs --------------------------------- *)
(* Colon and slash are looked for in all of what follows "http://". The text *)
(* given to ToUint begins with the colon.                                    *)
NetParseUrl(url) ==
  LET rest  == Tail(url)
      n     == Len(rest)
      colon == SelectInSeq(rest, LAMBDA ch : ch = Colon)
      slash == SelectInSeq(rest, LAMBDA ch : ch = Slash)
      last  == IF slash > 1 THEN slash - 1 ELSE n
      host  == IF colon > 1 THEN SubSeq(rest, 1, colon - 1)
               ELSE IF slash > 1 THEN SubSeq(rest, 1, slash - 1) ELSE rest
      port  == IF colon > 1 /\ last > colon
               THEN ToUint(SubSeq(rest, colon, last), 10) ELSE 80
      uri   == IF slash > 1 THEN SubSeq(rest, slash, n) ELSE <<Slash>>
  IN IF url = <<>> \/ url[1] # Http THEN [ok |-> FALSE]
     ELSE [ok |-> TRUE, host |-> host, port |-> port, uri |-> uri]

(* ------------------------------ command lines ----------------------------- *)
EscapeArg(arg) ==
  LET bare == SelectSeq(arg, LAMBDA ch : ch # Quote)
  IN IF Contains(bare, Space) THEN <<Quote>> \o bare \o <<Quote>> ELSE bare

(* Launch puts a space after every argument. *)
CmdLine(args) == FlattenSeq([i \in DOMAIN args |-> EscapeArg(args[i]) \o <<Space>>])

UnescapeCmdLine(line) ==
  LET Step(s, ch) ==
        IF ch = Quote THEN [s EXCEPT !.inQuote = ~@]
        ELSE IF ch = Space /\ ~s.inQuote
             THEN [s EXCEPT !.args = Append(@, s.cur), !.cur = <<>>]
        ELSE [s EXCEPT !.cur = Append(@, ch)]
      end == FoldLeft(Step, [args |-> <<>>, cur |-> <<>>, inQuote |-> FALSE], line)
  IN IF end.cur = <<>> THEN end.args ELSE Append(end.args, end.cur)
=============================================================================
