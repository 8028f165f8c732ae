-------------------------- MODULE HttpClientProofs --------------------------
(***************************************************************************)
(* Proofs about HttpClient, for any exchanges, sizes and rooms: headers    *)
(* and body are those that the server sent in answer to this request,      *)
(* however the response is cut up and whatever fails.                      *)
(***************************************************************************)
EXTENDS HttpClient, SequenceTheorems, WellFoundedInduction, TLAPS

(* A response in chunks is the last of its connection: what may be left of   *)
(* one is taken for the beginning of the next (see README.md, section 4).    *)
ChunksComeLast ==
  \A p \in Plans : \A i \in 1 .. Len(p) :
    p[i].framing = "chunked" /\ p[i].method # "HEAD" => i = Len(p)

(* No chunk has an LF where the line end after it can be looked for too      *)
(* early: past its middle and the unit after that. Where one has,            *)
(* MCHttpClient_pieces shows BodyAsSent false.                               *)
FeedsComeEarly ==
  \A p \in Plans : \A k \in 1 .. Len(p) :
    p[k].framing = "chunked" =>
      \A i \in 1 .. Len(p[k].body) : \A j \in 1 .. p[k].body[i] :
        Before(p[k].body)[i] + j \in p[k].feeds => 2 * (j - 1) <= p[k].body[i]

(* What the server may send for the client to stay in step.                  *)
WellSent == ChunksComeLast /\ FeedsComeEarly

-----------------------------------------------------------------------------
(* What is still to come of a response *)

(* All that was sent and not read yet.                                       *)
Rest == arrived \o wire

(* It is what comes in q after the first k tokens, or the beginning of that. *)
Ahead(rest, q, k) ==
  /\ Len(rest) <= Len(q) - k
  /\ \A j \in 1 .. Len(rest) : rest[j] = q[k + j]

SizeOf(e, i) == IF i = Len(e.body) + 1 THEN 0 ELSE e.body[i]

(* The line that says how the body ends.                                     *)
FramingLine(e) == IF e.framing = "close" THEN "other" ELSE e.framing

DeclaredLength(e) == IF e.framing = "length" THEN SumOf(e.body) ELSE 0

-----------------------------------------------------------------------------
(* The inductive invariant *)

(* Where the application is, and which loops that allows.                    *)
PlaceInv ==
  /\ asked = 0 => turn = "start"
  /\ pc = "headers" => turn = "headers"
  /\ pc \in {"chunked", "crlf", "trailer"} => turn = "body" /\ chunked
  /\ turn \in {"start", "body"} => answered = asked

(* Nothing comes over a broken link.                                         *)
LinkInv == link = "broken" => Rest = <<>>

(* What was delivered is the beginning of the body.                          *)
ReceivedInv ==
  asked > 0 => /\ received = Units(asked, 0, Len(received))
               /\ Len(received) <= SumOf(Exchange.body)

(* The first p tokens of the head have been read.                            *)
HeadRead(e, p) ==
  /\ Ahead(Rest, ResponseTo(e, asked), p)
  /\ answered < asked => p = 0 /\ Rest = <<>>
  /\ partial = IF p \in {0, 2, 4, 6} THEN <<>> ELSE <<HeadOf(e, asked)[p]>>
  /\ code = IF p < 2 THEN 0 ELSE asked
  /\ length = IF p < 4 THEN 0 ELSE DeclaredLength(e)
  /\ chunked = (p >= 4 /\ e.framing = "chunked")
  /\ chunked => stat = "SIZE" /\ sizeLine = <<>>
  /\ p >= 4 => e.framing # "encoded"
  /\ etag = IF p < 6 THEN 0 ELSE asked

HeadInv ==
  turn \in {"send", "headers"} =>
    /\ ~processed /\ index = 0 /\ received = <<>>
    /\ \E p \in 0 .. Len(HeadOf(Exchange, asked)) - 1 : HeadRead(Exchange, p)

(* The headers are those of this response.                                   *)
HeadersKnown(e) ==
  /\ e.method # "HEAD" /\ e.framing # "encoded"
  /\ code = asked /\ etag = (IF e.etag THEN asked ELSE 0)
  /\ length = DeclaredLength(e) /\ chunked = (e.framing = "chunked")

(* Receiving by length, or until the server closes.                          *)
PlainInv ==
  turn = "body" /\ ~chunked =>
    /\ Ahead(Rest, Body(Exchange, asked), Len(received))
    /\ index = IF length > 0 THEN Len(received) ELSE 0

(* The i-th chunk is next, and its size line has perhaps been read.          *)
AtSize(e, i) ==
  /\ Len(received) = Before(e.body)[i]
  /\ \/ sizeLine = <<>> /\ Ahead(Rest, ChunksFrom(e, asked)[i], 0)
     \/ sizeLine = <<SizeOf(e, i)>> /\ Ahead(Rest, ChunksFrom(e, asked)[i], 1)

(* chunkIndex units of the i-th chunk have been read, more than half of them *)
(* when its end is looked for. Text where its end should be is only ever     *)
(* followed by an error.                                                     *)
AtData(e, i) ==
  /\ chunkSize = SizeOf(e, i)
  /\ pc = "crlf" => chunkSize > 0 /\ 2 * chunkIndex > chunkSize
  /\ Len(received) = Before(e.body)[i] + chunkIndex
  /\ \/ pc = "crlf" /\ line # <<>>
     \/ Ahead(Rest, ChunksFrom(e, asked)[i], 2 + chunkIndex)

ChunksInv ==
  turn = "body" /\ chunked =>
    /\ stat = "SIZE" => /\ pc \in {"app", "chunked"}
                        /\ \E i \in 1 .. Len(Exchange.body) + 1 : AtSize(Exchange, i)
    /\ stat = "DATA" => /\ pc # "trailer"
                        /\ \E i \in 1 .. Len(Exchange.body) + 1 : AtData(Exchange, i)
    /\ stat = "END" => pc # "crlf" /\ Len(received) = SumOf(Exchange.body)

(* Between two exchanges nothing is left of the first.                       *)
StartInv ==
  turn = "start" =>
    /\ Rest = <<>> \/ asked = Len(plan)
    /\ asked > 0 /\ Exchange.method # "HEAD" /\ Exchange.framing \in {"length", "chunked"}
         => Len(received) = SumOf(Exchange.body)

ClientInv ==
  /\ TypeOK /\ PlaceInv /\ LinkInv /\ ReceivedInv /\ HeadInv
  /\ turn = "body" => processed /\ HeadersKnown(Exchange)
  /\ PlainInv /\ ChunksInv /\ StartInv

-----------------------------------------------------------------------------
(* Functions that are defined step by step *)

(* A set of natural numbers that is not empty has a least one.               *)
LEMMA LeastOne ==
  ASSUME NEW T \in SUBSET Nat, T # {} PROVE \E x \in T : \A y \in T : x <= y
<1>1. PICK x \in T : \A y \in T : ~ (<<y, x>> \in OpToRel(<, Nat))
  <2>1. IsWellFoundedOn(OpToRel(<, Nat), Nat)
    BY NatLessThanWellFounded
  <2> QED  BY <2>1, WFMin
<1>2. \A a, b \in Nat : a < b => <<a, b>> \in OpToRel(<, Nat)
  BY DEF OpToRel
<1>3. \A y \in T : ~(y < x) /\ y \in Nat /\ x \in Nat
  BY <1>1, <1>2, Zenon
<1> QED  BY <1>3

(* What a function takes from one value to the next.                         *)
Runs(X, n, first, step) ==
  {g \in [0 .. n -> X] :
     g[0] = first /\ \A i \in 1 .. n : g[i] = step[<<i, g[i - 1]>>]}

LEMMA Iterates ==
  ASSUME NEW X, NEW n \in Nat, NEW first \in X,
         NEW step \in [(1 .. n) \X X -> X]
  PROVE  Runs(X, n, first, step) # {}
<1> SUFFICES \E g \in [0 .. n -> X] :
               g[0] = first /\ \A i \in 1 .. n : g[i] = step[<<i, g[i - 1]>>]
  BY DEF Runs
<1> DEFINE Upto(k, g) == /\ g[0] = first
                         /\ \A i \in 1 .. k : g[i] = step[<<i, g[i - 1]>>]
           Fails == {k \in 0 .. n : ~ \E g \in [0 .. k -> X] : Upto(k, g)}
<1>1. SUFFICES ASSUME Fails # {} PROVE FALSE
  <2>1. n \in 0 .. n  OBVIOUS
  <2> QED  BY <2>1
<1>2. PICK k \in Fails : \A y \in Fails : k <= y
  <2>1. Fails \in SUBSET Nat  OBVIOUS
  <2> HIDE DEF Fails
  <2> QED  BY <2>1, <1>1, LeastOne
<1>3. k \in 0 .. n /\ ~ \E g \in [0 .. k -> X] : Upto(k, g)
  BY <1>2
<1>4. k # 0
  <2>1. [i \in 0 .. 0 |-> first] \in [0 .. 0 -> X]  OBVIOUS
  <2>2. Upto(0, [i \in 0 .. 0 |-> first])  OBVIOUS
  <2> HIDE DEF Upto
  <2> QED  BY <1>3, <2>1, <2>2
<1>5. k - 1 \in 0 .. n /\ k - 1 \notin Fails
  <2>1. k \in Nat /\ k - 1 \in 0 .. n /\ ~ (k <= k - 1)  BY <1>3, <1>4
  <2> HIDE DEF Fails
  <2> QED  BY <2>1, <1>2
<1>6. PICK g \in [0 .. k - 1 -> X] : Upto(k - 1, g)
  BY <1>5
<1> DEFINE h == [i \in 0 .. k |-> IF i = k THEN step[<<k, g[k - 1]>>] ELSE g[i]]
<1>7. h \in [0 .. k -> X]
  <2>1. k - 1 \in 0 .. k - 1 /\ k \in 1 .. n  BY <1>3, <1>4
  <2>2. step[<<k, g[k - 1]>>] \in X  BY <2>1
  <2>3. ASSUME NEW i \in 0 .. k PROVE h[i] \in X
    <3>1. i = k \/ i \in 0 .. k - 1  BY <1>3
    <3> QED  BY <3>1, <2>2
  <2> QED  BY <2>3
<1>8. Upto(k, h)
  <2>1. h[0] = first  BY <1>3, <1>4, <1>6
  <2>2. ASSUME NEW i \in 1 .. k PROVE h[i] = step[<<i, h[i - 1]>>]
    <3>1. i - 1 \in 0 .. k /\ i - 1 # k /\ i \in 0 .. k  BY <1>3
    <3>2. h[i - 1] = g[i - 1]  BY <3>1
    <3>3. CASE i = k  BY <3>1, <3>2, <3>3
    <3>4. CASE i # k
      <4>1. i \in 1 .. k - 1  BY <3>4, <1>3
      <4>2. g[i] = step[<<i, g[i - 1]>>]  BY <4>1, <1>6
      <4> QED  BY <4>2, <3>1, <3>2, <3>4
    <3> QED  BY <3>3, <3>4
  <2> QED  BY <2>1, <2>2
<1> HIDE DEF Upto, h
<1> QED  BY <1>3, <1>7, <1>8

(* How much comes before each piece.                                         *)
LEMMA BeforeMeans ==
  ASSUME NEW s \in Seq(Nat)
  PROVE  /\ Before(s) \in [1 .. Len(s) + 1 -> Nat]
         /\ Before(s)[1] = 0
         /\ \A i \in 1 .. Len(s) : Before(s)[i + 1] = Before(s)[i] + s[i]
<1> DEFINE n == Len(s)
           step == [p \in (1 .. n) \X Nat |-> p[2] + s[p[1]]]
           Is(f) == f = [i \in 1 .. n + 1 |-> IF i = 1 THEN 0 ELSE f[i - 1] + s[i - 1]]
<1>1. n \in Nat /\ \A i \in 1 .. n : s[i] \in Nat
  OBVIOUS
<1>2. step \in [(1 .. n) \X Nat -> Nat]
  BY <1>1
<1>3. PICK g \in [0 .. n -> Nat] :
        g[0] = 0 /\ \A i \in 1 .. n : g[i] = step[<<i, g[i - 1]>>]
  <2>1. 0 \in Nat /\ n \in Nat  BY <1>1
  <2> HIDE DEF n, step
  <2>2. Runs(Nat, n, 0, step) # {}  BY <1>2, <2>1, Iterates, Zenon
  <2> QED  BY <2>2 DEF Runs
<1>4. ASSUME NEW i \in 1 .. n PROVE g[i] = g[i - 1] + s[i]
  <2>1. g[i] = step[<<i, g[i - 1]>>]  BY <1>3
  <2>2. i - 1 \in 0 .. n  BY <1>1
  <2>3. g[i - 1] \in Nat  BY <1>3, <2>2
  <2>4. <<i, g[i - 1]>> \in (1 .. n) \X Nat  BY <2>3
  <2> QED  BY <2>1, <2>4
<1> HIDE DEF n, step
<1> DEFINE f == [i \in 1 .. n + 1 |-> g[i - 1]]
<1>5. Is(f)
  <2>1. ASSUME NEW i \in 1 .. n + 1
        PROVE  f[i] = IF i = 1 THEN 0 ELSE f[i - 1] + s[i - 1]
    <3>1. CASE i = 1  BY <1>1, <1>3, <3>1
    <3>2. CASE i # 1
      <4>1. i - 1 \in 1 .. n /\ i - 1 \in 1 .. n + 1  BY <1>1, <3>2
      <4> QED  BY <1>4, <3>2, <4>1
    <3> QED  BY <3>1, <3>2
  <2> QED  BY <2>1
<1>6. \E h : Is(h)
  <2> HIDE DEF f, Is
  <2> QED  BY <1>5
<1>7. Before(s) = CHOOSE h : Is(h)
  BY DEF Before, n
<1> DEFINE b == CHOOSE h : Is(h)
<1>8. Is(b)
  <2> HIDE DEF Is
  <2> QED  BY <1>6
<1>9. b = [i \in 1 .. n + 1 |-> IF i = 1 THEN 0 ELSE b[i - 1] + s[i - 1]]
  <2> HIDE DEF b
  <2> QED  BY <1>8
<1> HIDE DEF b
<1>10. b[1] = 0 /\ \A i \in 1 .. n : b[i + 1] = b[i] + s[i]
  <2>1. 1 \in 1 .. n + 1  BY <1>1
  <2>2. ASSUME NEW i \in 1 .. n PROVE b[i + 1] = b[i] + s[i]
    <3>1. i + 1 \in 1 .. n + 1 /\ i + 1 # 1 /\ (i + 1) - 1 = i  BY <1>1
    <3> QED  BY <1>9, <3>1
  <2> QED  BY <1>9, <2>1, <2>2
<1>11. b \in [1 .. n + 1 -> Nat]
  <2> DEFINE Odd == {i \in 1 .. n + 1 : b[i] \notin Nat}
  <2>1. SUFFICES Odd = {}
    <3>1. \A i \in 1 .. n + 1 : b[i] \in Nat  BY <2>1
    <3> QED  BY <1>9, <3>1
  <2>2. SUFFICES ASSUME Odd # {} PROVE FALSE
    OBVIOUS
  <2>3. PICK i \in Odd : \A y \in Odd : i <= y
    <3>1. Odd \in SUBSET Nat  BY <1>1
    <3> HIDE DEF Odd
    <3> QED  BY <2>2, <3>1, LeastOne
  <2>4. i \in 1 .. n + 1 /\ b[i] \notin Nat /\ i # 1
    BY <2>3, <1>10
  <2>5. i - 1 \in 1 .. n /\ i - 1 \notin Odd
    <3>1. i - 1 \in 1 .. n /\ ~ (i <= i - 1)  BY <1>1, <2>4
    <3> HIDE DEF Odd
    <3> QED  BY <3>1, <2>3
  <2>6. b[i - 1] \in Nat /\ s[i - 1] \in Nat /\ b[(i - 1) + 1] = b[i - 1] + s[i - 1]
    BY <2>5, <1>1, <1>10
  <2> QED  BY <2>4, <2>5, <2>6, <1>1
<1> QED  BY <1>7, <1>10, <1>11 DEF b, n

(* A number of one digit is that digit.                                      *)
LEMMA HexMeans ==
  ASSUME NEW d \in Seq(Nat)
  PROVE  HexOf(d) \in Nat /\ \A v \in Nat : d = <<v>> => HexOf(d) = v
<1> DEFINE n == Len(d)
           step == [p \in (1 .. n) \X Nat |-> 16 * p[2] + d[p[1]]]
           Is(f) == f = [i \in 0 .. n |-> IF i = 0 THEN 0 ELSE 16 * f[i - 1] + d[i]]
<1>1. n \in Nat /\ \A i \in 1 .. n : d[i] \in Nat
  OBVIOUS
<1>2. step \in [(1 .. n) \X Nat -> Nat]
  BY <1>1
<1>3. PICK g \in [0 .. n -> Nat] :
        g[0] = 0 /\ \A i \in 1 .. n : g[i] = step[<<i, g[i - 1]>>]
  <2>1. 0 \in Nat /\ n \in Nat  BY <1>1
  <2> HIDE DEF n, step
  <2>2. Runs(Nat, n, 0, step) # {}  BY <1>2, <2>1, Iterates, Zenon
  <2> QED  BY <2>2 DEF Runs
<1>4. ASSUME NEW i \in 1 .. n PROVE g[i] = 16 * g[i - 1] + d[i]
  <2>1. g[i] = step[<<i, g[i - 1]>>]  BY <1>3
  <2>2. i - 1 \in 0 .. n  BY <1>1
  <2>3. g[i - 1] \in Nat  BY <1>3, <2>2
  <2>4. <<i, g[i - 1]>> \in (1 .. n) \X Nat  BY <2>3
  <2> QED  BY <2>1, <2>4
<1> HIDE DEF n, step
<1>5. Is(g)
  <2>1. ASSUME NEW i \in 0 .. n
        PROVE  g[i] = IF i = 0 THEN 0 ELSE 16 * g[i - 1] + d[i]
    BY <1>1, <1>3, <1>4
  <2> QED  BY <1>3, <2>1
<1>6. \E h : Is(h)
  <2> HIDE DEF Is
  <2> QED  BY <1>5
<1> DEFINE b == CHOOSE h : Is(h)
<1>7. HexOf(d) = b[n]
  BY DEF HexOf, n
<1>8. Is(b)
  <2> HIDE DEF Is
  <2> QED  BY <1>6
<1>9. b = [i \in 0 .. n |-> IF i = 0 THEN 0 ELSE 16 * b[i - 1] + d[i]]
  <2> HIDE DEF b
  <2> QED  BY <1>8
<1> HIDE DEF b
<1>10. ASSUME NEW i \in 0 .. n, b[i] \notin Nat PROVE FALSE
  <2> DEFINE Odd == {j \in 0 .. n : b[j] \notin Nat}
  <2>1. PICK j \in Odd : \A y \in Odd : j <= y
    <3>1. Odd \in SUBSET Nat /\ Odd # {}  BY <1>1, <1>10
    <3> HIDE DEF Odd
    <3> QED  BY <3>1, LeastOne
  <2>2. j \in 0 .. n /\ b[j] \notin Nat /\ j # 0
    BY <2>1, <1>9
  <2>3. j - 1 \in 0 .. n /\ j - 1 \notin Odd
    <3>1. j - 1 \in 0 .. n /\ ~ (j <= j - 1)  BY <1>1, <2>2
    <3> HIDE DEF Odd
    <3> QED  BY <3>1, <2>1
  <2>4. b[j - 1] \in Nat /\ d[j] \in Nat /\ b[j] = 16 * b[j - 1] + d[j]
    BY <2>2, <2>3, <1>1, <1>9
  <2> QED  BY <2>2, <2>4
<1>11. ASSUME NEW v \in Nat, d = <<v>> PROVE b[n] = v
  <2>1. n = 1 /\ d[1] = v  BY <1>11 DEF n
  <2>2. 0 \in 0 .. n /\ 1 \in 0 .. n  BY <2>1
  <2>3. b[0] = 0  BY <1>9, <2>2
  <2>4. b[1] = 16 * b[1 - 1] + d[1]  BY <1>9, <2>2
  <2> QED  BY <2>1, <2>3, <2>4
<1>12. n \in 0 .. n
  BY <1>1
<1> QED  BY <1>7, <1>10, <1>11, <1>12

-----------------------------------------------------------------------------
(* What the server sends *)

LEMMA OfMeans ==
  ASSUME NEW n \in Nat, NEW val \in Nat,
         NEW kind \in {"status", "length", "chunked", "encoded", "etag", "other",
                       "size", "unit", EndOfLine}
  PROVE  /\ Of(n, kind, val) \in Tokens
         /\ kind # "unit" => (IsEnd(Of(n, kind, val)) <=> kind = EndOfLine)
         /\ Of(n, kind, val).kind = kind /\ Of(n, kind, val).val = val
BY DEF Of, Tokens, IsEnd, EndOfLine

LEMMA LineMeans ==
  ASSUME NEW n \in Nat, NEW val \in Nat,
         NEW kind \in {"status", "length", "chunked", "encoded", "etag", "other",
                       "size", "unit", EndOfLine}
  PROVE  /\ LineOf(n, kind, val) \in Seq(Tokens) /\ Len(LineOf(n, kind, val)) = 2
         /\ LineOf(n, kind, val)[1] = Of(n, kind, val)
         /\ LineOf(n, kind, val)[2] = Of(n, EndOfLine, 0)
<1>1. Of(n, kind, val) \in Tokens /\ Of(n, EndOfLine, 0) \in Tokens
  BY OfMeans
<1> QED  BY <1>1 DEF LineOf

LEMMA UnitsMeans ==
  ASSUME NEW n \in Nat, NEW from \in Nat, NEW to \in Nat, from <= to
  PROVE  /\ Units(n, from, to) \in Seq(Tokens) /\ Len(Units(n, from, to)) = to - from
         /\ \A i \in 1 .. to - from : Units(n, from, to)[i] = Of(n, "unit", from + i)
<1>1. to - from \in Nat
  OBVIOUS
<1>2. ASSUME NEW i \in 1 .. to - from PROVE Of(n, "unit", from + i) \in Tokens
  <2>1. from + i \in Nat  OBVIOUS
  <2> QED  BY <2>1, OfMeans
<1> QED  BY <1>1, <1>2 DEF Units

LEMMA SumMeans ==
  ASSUME NEW s \in Seq(Nat)
  PROVE  /\ SumOf(s) \in Nat /\ SumOf(s) = Before(s)[Len(s) + 1]
         /\ \A i \in 1 .. Len(s) + 1 : Before(s)[i] \in Nat
<1>1. Before(s) \in [1 .. Len(s) + 1 -> Nat]
  BY BeforeMeans
<1>2. Len(s) + 1 \in 1 .. Len(s) + 1
  OBVIOUS
<1> QED  BY <1>1, <1>2 DEF SumOf

(* Three sequences one behind the other.                                     *)
Composed(q, S, a, b, c) ==
  /\ q \in Seq(S) /\ Len(q) = Len(a) + Len(b) + Len(c)
  /\ \A j \in 1 .. Len(a) : q[j] = a[j]
  /\ \A j \in 1 .. Len(b) : q[Len(a) + j] = b[j]
  /\ \A j \in 1 .. Len(c) : q[Len(a) + Len(b) + j] = c[j]

LEMMA Joined ==
  ASSUME NEW S, NEW a \in Seq(S), NEW b \in Seq(S), NEW c \in Seq(S)
  PROVE  Composed(a \o b \o c, S, a, b, c)
<1>1. a \o b \in Seq(S) /\ Len(a \o b) = Len(a) + Len(b)
  OBVIOUS
<1>2. ASSUME NEW j \in 1 .. Len(a) PROVE (a \o b \o c)[j] = a[j]
  <2>1. j \in 1 .. Len(a \o b)  BY <1>1
  <2> QED  BY <1>1, <2>1
<1>3. ASSUME NEW j \in 1 .. Len(b) PROVE (a \o b \o c)[Len(a) + j] = b[j]
  <2>1. Len(a) + j \in 1 .. Len(a \o b)  BY <1>1
  <2>2. (a \o b)[Len(a) + j] = b[j]  OBVIOUS
  <2> QED  BY <1>1, <2>1, <2>2
<1>4. ASSUME NEW j \in 1 .. Len(c) PROVE (a \o b \o c)[Len(a) + Len(b) + j] = c[j]
  BY <1>1
<1> QED  BY <1>1, <1>2, <1>3, <1>4 DEF Composed

Paired(q, S, a, b) ==
  /\ q \in Seq(S) /\ Len(q) = Len(a) + Len(b)
  /\ \A j \in 1 .. Len(a) : q[j] = a[j]
  /\ \A j \in 1 .. Len(b) : q[Len(a) + j] = b[j]

LEMMA JoinedTwo ==
  ASSUME NEW S, NEW a \in Seq(S), NEW b \in Seq(S)
  PROVE  Paired(a \o b, S, a, b)
BY DEF Paired

LEMMA ExchangeMeans ==
  ASSUME NEW e \in Exchanges
  PROVE  /\ e.body \in Seq(Nat) /\ Len(e.body) \in Nat
         /\ \A i \in 1 .. Len(e.body) : e.body[i] \in Nat /\ e.body[i] > 0
         /\ e.post \in Nat /\ e.framing \in Framings /\ e.method \in Methods
         /\ e.etag \in BOOLEAN /\ e.trailer \in BOOLEAN
         /\ DeclaredLength(e) \in Nat
<1>1. e.body \in Seq(Nat \ {0})
  BY DEF Exchanges
<1>2. e.body \in Seq(Nat)
  BY <1>1
<1>3. DeclaredLength(e) \in Nat
  BY <1>2, SumMeans DEF DeclaredLength
<1> QED  BY <1>1, <1>2, <1>3 DEF Exchanges

LEMMA ChunkMeans ==
  ASSUME NEW e \in Exchanges, NEW n \in Nat, NEW i \in 1 .. Len(e.body)
  PROVE  LET q == Chunk(e, n, i) IN
         /\ q \in Seq(Tokens) /\ Len(q) = e.body[i] + 3
         /\ q[1] = Of(n, "size", e.body[i]) /\ q[2] = Of(n, EndOfLine, 0)
         /\ \A j \in 1 .. e.body[i] : q[2 + j] = Of(n, "unit", Before(e.body)[i] + j)
         /\ q[e.body[i] + 3] = Of(n, EndOfLine, 0)
<1> DEFINE before == Before(e.body)[i]
           here == e.body[i]
           a == LineOf(n, "size", here)
           b == Units(n, before, before + here)
           c == <<Of(n, EndOfLine, 0)>>
<1>1. before \in Nat /\ here \in Nat /\ Chunk(e, n, i) = a \o b \o c
  <2>1. i \in 1 .. Len(e.body) + 1  BY ExchangeMeans
  <2> QED  BY <2>1, ExchangeMeans, SumMeans DEF Chunk
<1> HIDE DEF before, here
<1>2. a \in Seq(Tokens) /\ Len(a) = 2 /\ a[1] = Of(n, "size", here)
      /\ a[2] = Of(n, EndOfLine, 0)
  BY <1>1, LineMeans
<1>3. b \in Seq(Tokens) /\ Len(b) = here
      /\ \A j \in 1 .. here : b[j] = Of(n, "unit", before + j)
  <2>1. PICK to \in Nat : to = before + here /\ before <= to /\ to - before = here
    BY <1>1
  <2>2. b = Units(n, before, to)
    BY <2>1
  <2>3. /\ Units(n, before, to) \in Seq(Tokens) /\ Len(Units(n, before, to)) = to - before
        /\ \A j \in 1 .. to - before : Units(n, before, to)[j] = Of(n, "unit", before + j)
    <3> HIDE DEF b
    <3> QED  BY <1>1, <2>1, UnitsMeans
  <2> QED  BY <2>1, <2>2, <2>3
<1>4. c \in Seq(Tokens) /\ Len(c) = 1 /\ c[1] = Of(n, EndOfLine, 0)
  <2>1. Of(n, EndOfLine, 0) \in Tokens  BY OfMeans
  <2> QED  BY <2>1
<1> HIDE DEF a, b, c
<1>5. Composed(a \o b \o c, Tokens, a, b, c)
  BY <1>2, <1>3, <1>4, Joined, Zenon
<1> HIDE DEF a, b, c
<1>6. 1 \in 1 .. Len(a) /\ 2 \in 1 .. Len(a) /\ 1 \in 1 .. Len(c)
      /\ Len(a) + Len(b) + 1 = here + 3
  BY <1>1, <1>2, <1>3, <1>4
<1>7. (a \o b \o c)[1] = a[1] /\ (a \o b \o c)[2] = a[2]
      /\ (a \o b \o c)[here + 3] = c[1]
  BY <1>5, <1>6 DEF Composed
<1>8. \A j \in 1 .. here : (a \o b \o c)[2 + j] = b[j]
  BY <1>2, <1>3, <1>5 DEF Composed
<1>9. Len(a \o b \o c) = here + 3
  BY <1>1, <1>2, <1>3, <1>4, <1>5 DEF Composed
<1>10. a \o b \o c \in Seq(Tokens)
  BY <1>5 DEF Composed
<1> QED  BY <1>1, <1>2, <1>3, <1>4, <1>7, <1>8, <1>9, <1>10 DEF before, here

(* The last chunk has size 0.                                                *)
LEMMA NoChunkMeans ==
  ASSUME NEW e \in Exchanges, NEW n \in Nat
  PROVE  LET q == NoChunk(e, n) IN
         /\ q \in Seq(Tokens) /\ Len(q) >= 3
         /\ q[1] = Of(n, "size", 0) /\ q[2] = Of(n, EndOfLine, 0)
<1> DEFINE a == LineOf(n, "size", 0)
           b == IF e.trailer THEN LineOf(n, "other", 0) ELSE <<>>
           c == <<Of(n, EndOfLine, 0)>>
<1>1. a \in Seq(Tokens) /\ Len(a) = 2 /\ a[1] = Of(n, "size", 0)
      /\ a[2] = Of(n, EndOfLine, 0)
  BY LineMeans
<1>2. b \in Seq(Tokens)
  BY LineMeans
<1>3. c \in Seq(Tokens) /\ Len(c) = 1
  <2>1. Of(n, EndOfLine, 0) \in Tokens  BY OfMeans
  <2> QED  BY <2>1
<1>4. NoChunk(e, n) = a \o b \o c
  BY DEF NoChunk
<1> HIDE DEF a, b, c
<1>5. Composed(a \o b \o c, Tokens, a, b, c)
  BY <1>1, <1>2, <1>3, Joined, Zenon
<1>6. 1 \in 1 .. Len(a) /\ 2 \in 1 .. Len(a) /\ Len(b) \in Nat
  BY <1>1, <1>2
<1>7. Len(a) + Len(b) + Len(c) >= 3
  BY <1>1, <1>3, <1>6
<1> QED  BY <1>1, <1>4, <1>5, <1>6, <1>7 DEF Composed

LEMMA ChunksMeans ==
  ASSUME NEW e \in Exchanges, NEW n \in Nat
  PROVE  LET q == ChunksFrom(e, n) IN
         /\ \A i \in 1 .. Len(e.body) + 1 : q[i] \in Seq(Tokens)
         /\ q[Len(e.body) + 1] = NoChunk(e, n)
         /\ \A i \in 1 .. Len(e.body) : q[i] = Chunk(e, n, i) \o q[i + 1]
<1> DEFINE m == Len(e.body)
           step == [p \in (1 .. m) \X Seq(Tokens) |-> Chunk(e, n, m + 1 - p[1]) \o p[2]]
           Is(f) == f = [i \in 1 .. m + 1 |->
                          IF i = m + 1 THEN NoChunk(e, n) ELSE Chunk(e, n, i) \o f[i + 1]]
<1>1. m \in Nat /\ NoChunk(e, n) \in Seq(Tokens)
      /\ \A i \in 1 .. m : Chunk(e, n, i) \in Seq(Tokens)
  BY ExchangeMeans, NoChunkMeans, ChunkMeans
<1>2. step \in [(1 .. m) \X Seq(Tokens) -> Seq(Tokens)]
  <2>1. ASSUME NEW p \in (1 .. m) \X Seq(Tokens)
        PROVE  Chunk(e, n, m + 1 - p[1]) \o p[2] \in Seq(Tokens)
    <3>1. m + 1 - p[1] \in 1 .. m /\ p[2] \in Seq(Tokens)  BY <1>1
    <3>2. Chunk(e, n, m + 1 - p[1]) \in Seq(Tokens)  BY <1>1, <3>1
    <3> QED  BY <3>1, <3>2
  <2> QED  BY <2>1
<1>3. PICK g \in [0 .. m -> Seq(Tokens)] :
        g[0] = NoChunk(e, n) /\ \A i \in 1 .. m : g[i] = step[<<i, g[i - 1]>>]
  <2> HIDE DEF m, step
  <2>1. Runs(Seq(Tokens), m, NoChunk(e, n), step) # {}
    BY <1>1, <1>2, Iterates, Zenon
  <2> QED  BY <2>1 DEF Runs
<1>4. ASSUME NEW i \in 1 .. m PROVE g[i] = Chunk(e, n, m + 1 - i) \o g[i - 1]
  <2>1. g[i] = step[<<i, g[i - 1]>>]  BY <1>3
  <2>2. i - 1 \in 0 .. m  BY <1>1
  <2>3. g[i - 1] \in Seq(Tokens)  BY <1>3, <2>2
  <2>4. <<i, g[i - 1]>> \in (1 .. m) \X Seq(Tokens)  BY <2>3
  <2> QED  BY <2>1, <2>4
<1> HIDE DEF m, step
<1> DEFINE f == [i \in 1 .. m + 1 |-> g[m + 1 - i]]
<1>5. Is(f)
  <2>1. ASSUME NEW i \in 1 .. m + 1
        PROVE  f[i] = IF i = m + 1 THEN NoChunk(e, n) ELSE Chunk(e, n, i) \o f[i + 1]
    <3>1. CASE i = m + 1
      <4>1. m + 1 - i = 0  BY <1>1, <3>1
      <4> QED  BY <1>3, <3>1, <4>1
    <3>2. CASE i # m + 1
      <4>1. /\ m + 1 - i \in 1 .. m /\ i + 1 \in 1 .. m + 1
            /\ m + 1 - (m + 1 - i) = i /\ m + 1 - (i + 1) = (m + 1 - i) - 1
        BY <1>1, <3>2
      <4>2. g[m + 1 - i] = Chunk(e, n, i) \o g[(m + 1 - i) - 1]
        BY <1>4, <4>1
      <4>3. f[i] = g[m + 1 - i] /\ f[i + 1] = g[(m + 1 - i) - 1]  BY <4>1
      <4> QED  BY <3>2, <4>2, <4>3
    <3> QED  BY <3>1, <3>2
  <2> QED  BY <2>1
<1>6. \E h : Is(h)
  <2> HIDE DEF f, Is
  <2> QED  BY <1>5
<1> DEFINE b == CHOOSE h : Is(h)
<1>7. ChunksFrom(e, n) = b
  BY DEF ChunksFrom, m
<1>8. Is(b)
  <2> HIDE DEF Is
  <2> QED  BY <1>6
<1>9. b = [i \in 1 .. m + 1 |->
             IF i = m + 1 THEN NoChunk(e, n) ELSE Chunk(e, n, i) \o b[i + 1]]
  <2> HIDE DEF b
  <2> QED  BY <1>8
<1> HIDE DEF b
<1>10. b[m + 1] = NoChunk(e, n) /\ \A i \in 1 .. m : b[i] = Chunk(e, n, i) \o b[i + 1]
  <2>1. m + 1 \in 1 .. m + 1 /\ \A i \in 1 .. m : i \in 1 .. m + 1 /\ i # m + 1
    BY <1>1
  <2> QED  BY <1>9, <2>1
<1>11. ASSUME NEW i \in 1 .. m + 1, b[i] \notin Seq(Tokens) PROVE FALSE
  <2> DEFINE Odd == {j \in 0 .. m : b[m + 1 - j] \notin Seq(Tokens)}
  <2>1. PICK j \in Odd : \A y \in Odd : j <= y
    <3>1. m + 1 - i \in 0 .. m /\ m + 1 - (m + 1 - i) = i  BY <1>1
    <3>2. m + 1 - i \in Odd  BY <1>11, <3>1
    <3>3. Odd \in SUBSET Nat  BY <1>1
    <3>4. Odd # {}  BY <3>2
    <3> HIDE DEF Odd
    <3> QED  BY <3>3, <3>4, LeastOne
  <2>2. j \in 0 .. m /\ b[m + 1 - j] \notin Seq(Tokens)
    BY <2>1
  <2>3. j # 0
    <3>1. m + 1 - 0 = m + 1  BY <1>1
    <3> QED  BY <2>2, <3>1, <1>1, <1>10
  <2>4. b[m + 1 - (j - 1)] \in Seq(Tokens)
    <3>1. j - 1 \in 0 .. m /\ ~ (j <= j - 1)  BY <1>1, <2>2, <2>3
    <3>2. j - 1 \notin Odd
      <4> HIDE DEF Odd
      <4> QED  BY <3>1, <2>1
    <3> QED  BY <3>1, <3>2
  <2>5. m + 1 - j \in 1 .. m /\ (m + 1 - j) + 1 = m + 1 - (j - 1)
    BY <1>1, <2>2, <2>3
  <2>6. b[m + 1 - j] = Chunk(e, n, m + 1 - j) \o b[m + 1 - (j - 1)]
        /\ Chunk(e, n, m + 1 - j) \in Seq(Tokens)
    BY <1>1, <1>10, <2>5
  <2> QED  BY <2>2, <2>4, <2>6
<1> QED  BY <1>7, <1>10, <1>11 DEF m

(* What comes when the i-th chunk is next; a size of 0 is that of the last.  *)
LEMMA ChunkAhead ==
  ASSUME NEW e \in Exchanges, NEW n \in Nat, NEW i \in 1 .. Len(e.body) + 1
  PROVE  LET q    == ChunksFrom(e, n)[i]
             h    == SizeOf(e, i)
             more == ChunksFrom(e, n)[i + 1] IN
         /\ q \in Seq(Tokens) /\ h \in Nat /\ Len(q) >= h + 3
         /\ q[1] = Of(n, "size", h) /\ q[2] = Of(n, EndOfLine, 0)
         /\ \A j \in 1 .. h : q[2 + j] = Of(n, "unit", Before(e.body)[i] + j)
         /\ h = 0 => i = Len(e.body) + 1
         /\ h > 0 => /\ i \in 1 .. Len(e.body) /\ q[h + 3] = Of(n, EndOfLine, 0)
                     /\ more \in Seq(Tokens) /\ Len(q) = h + 3 + Len(more)
                     /\ \A j \in 1 .. Len(more) : q[h + 3 + j] = more[j]
<1> DEFINE q == ChunksFrom(e, n)[i]
           h == SizeOf(e, i)
           more == ChunksFrom(e, n)[i + 1]
           m == Len(e.body)
<1>1. m \in Nat /\ q \in Seq(Tokens)
  BY ExchangeMeans, ChunksMeans
<1>2. CASE i = m + 1
  <2>1. h = 0 /\ q = NoChunk(e, n)
    BY <1>2, ChunksMeans DEF SizeOf
  <2> HIDE DEF q, h, more, m
  <2>2. Len(q) >= 3 /\ q[1] = Of(n, "size", 0) /\ q[2] = Of(n, EndOfLine, 0)
    BY <2>1, NoChunkMeans
  <2>3. /\ q \in Seq(Tokens) /\ h \in Nat /\ Len(q) >= h + 3
        /\ q[1] = Of(n, "size", h) /\ q[2] = Of(n, EndOfLine, 0)
        /\ \A j \in 1 .. h : q[2 + j] = Of(n, "unit", Before(e.body)[i] + j)
        /\ ~ (h > 0)
    BY <2>1, <2>2, <1>1
  <2> QED  BY <1>2, <2>3 DEF q, h, more, m
<1>3. CASE i # m + 1
  <2>1. i \in 1 .. m /\ i + 1 \in 1 .. m + 1
    BY <1>1, <1>3
  <2>2. h = e.body[i] /\ h \in Nat /\ h > 0
    BY <1>3, <2>1, ExchangeMeans DEF SizeOf
  <2>3. q = Chunk(e, n, i) \o more /\ more \in Seq(Tokens)
    BY <2>1, ChunksMeans
  <2> DEFINE c == Chunk(e, n, i)
  <2>4. /\ c \in Seq(Tokens) /\ Len(c) = h + 3
        /\ c[1] = Of(n, "size", h) /\ c[2] = Of(n, EndOfLine, 0)
        /\ \A j \in 1 .. h : c[2 + j] = Of(n, "unit", Before(e.body)[i] + j)
        /\ c[h + 3] = Of(n, EndOfLine, 0)
    BY <2>1, <2>2, ChunkMeans
  <2> HIDE DEF q, h, more, m, c
  <2>5. q = c \o more
    BY <2>3 DEF c
  <2>6. /\ Len(q) = h + 3 + Len(more)
        /\ \A j \in 1 .. h + 3 : q[j] = c[j]
        /\ \A j \in 1 .. Len(more) : q[h + 3 + j] = more[j]
    <3>1. Paired(q, Tokens, c, more)
      BY <2>3, <2>4, <2>5, JoinedTwo, Zenon
    <3> QED  BY <3>1, <2>4 DEF Paired
  <2>7. 1 \in 1 .. h + 3 /\ 2 \in 1 .. h + 3 /\ h + 3 \in 1 .. h + 3 /\ Len(more) \in Nat
        /\ \A j \in 1 .. h : 2 + j \in 1 .. h + 3
    BY <2>2, <2>3
  <2>8. /\ q[1] = Of(n, "size", h) /\ q[2] = Of(n, EndOfLine, 0)
        /\ q[h + 3] = Of(n, EndOfLine, 0)
        /\ \A j \in 1 .. h : q[2 + j] = Of(n, "unit", Before(e.body)[i] + j)
    BY <2>4, <2>6, <2>7
  <2>9. Len(q) >= h + 3
    BY <2>2, <2>6, <2>7
  <2>10. /\ q \in Seq(Tokens) /\ h \in Nat /\ Len(q) >= h + 3
         /\ q[1] = Of(n, "size", h) /\ q[2] = Of(n, EndOfLine, 0)
         /\ \A j \in 1 .. h : q[2 + j] = Of(n, "unit", Before(e.body)[i] + j)
         /\ h # 0
    BY <1>1, <2>2, <2>8, <2>9
  <2>11. /\ i \in 1 .. m /\ q[h + 3] = Of(n, EndOfLine, 0)
         /\ more \in Seq(Tokens) /\ Len(q) = h + 3 + Len(more)
         /\ \A j \in 1 .. Len(more) : q[h + 3 + j] = more[j]
    BY <2>1, <2>3, <2>6, <2>8
  <2> QED  BY <2>10, <2>11, Zenon DEF q, h, more, m
<1> QED  BY <1>2, <1>3

(* The head: the status, how the body ends, perhaps an ETag.                 *)
LEMMA HeadMeans ==
  ASSUME NEW e \in Exchanges, NEW n \in Nat
  PROVE  LET q == HeadOf(e, n) IN
         /\ q \in Seq(Tokens) /\ Len(q) = (IF e.etag THEN 7 ELSE 5)
         /\ q[1] = Of(n, "status", n) /\ q[2] = Of(n, EndOfLine, 0)
         /\ q[3] = Of(n, FramingLine(e), DeclaredLength(e)) /\ q[4] = Of(n, EndOfLine, 0)
         /\ e.etag => q[5] = Of(n, "etag", n) /\ q[6] = Of(n, EndOfLine, 0)
         /\ q[Len(q)] = Of(n, EndOfLine, 0)
<1> DEFINE a == LineOf(n, "status", n)
           b == LineOf(n, FramingLine(e), DeclaredLength(e))
           c == IF e.etag THEN LineOf(n, "etag", n) ELSE <<>>
           d == <<Of(n, EndOfLine, 0)>>
<1>1. e.framing \in Framings /\ DeclaredLength(e) \in Nat /\ e.etag \in BOOLEAN
  BY ExchangeMeans
<1>2. HeadOf(e, n) = a \o b \o c \o d
  <2>1. b = CASE e.framing = "length"  -> LineOf(n, "length", SumOf(e.body))
              [] e.framing = "chunked" -> LineOf(n, "chunked", 0)
              [] e.framing = "encoded" -> LineOf(n, "encoded", 0)
              [] e.framing = "close"   -> LineOf(n, "other", 0)
    BY <1>1 DEF FramingLine, DeclaredLength, Framings
  <2> HIDE DEF a, b, c, d
  <2> QED  BY <2>1 DEF HeadOf, a, c, d
<1>3. /\ a \in Seq(Tokens) /\ Len(a) = 2 /\ a[1] = Of(n, "status", n)
      /\ a[2] = Of(n, EndOfLine, 0)
  BY LineMeans
<1>4. /\ b \in Seq(Tokens) /\ Len(b) = 2
      /\ b[1] = Of(n, FramingLine(e), DeclaredLength(e)) /\ b[2] = Of(n, EndOfLine, 0)
  <2>1. FramingLine(e) \in {"length", "chunked", "encoded", "other"}
    BY <1>1 DEF FramingLine, Framings
  <2>2. FramingLine(e) \in {"status", "length", "chunked", "encoded", "etag", "other",
                            "size", "unit", EndOfLine}
    BY <2>1
  <2> QED  BY <1>1, <2>2, LineMeans
<1>5. /\ c \in Seq(Tokens) /\ Len(c) = (IF e.etag THEN 2 ELSE 0)
      /\ e.etag => c[1] = Of(n, "etag", n) /\ c[2] = Of(n, EndOfLine, 0)
  <2>1. CASE e.etag
    <3>1. c = LineOf(n, "etag", n)  BY <2>1
    <3> HIDE DEF c
    <3> QED  BY <2>1, <3>1, LineMeans
  <2>2. CASE ~ e.etag
    <3>1. c = <<>>  BY <2>2
    <3> HIDE DEF c
    <3> QED  BY <2>2, <3>1
  <2> QED  BY <2>1, <2>2
<1>6. d \in Seq(Tokens) /\ Len(d) = 1 /\ d[1] = Of(n, EndOfLine, 0)
  <2>1. Of(n, EndOfLine, 0) \in Tokens  BY OfMeans
  <2> QED  BY <2>1
<1> HIDE DEF a, b, c, d
<1>7. Composed(a \o b \o c, Tokens, a, b, c)
  BY <1>3, <1>4, <1>5, Joined, Zenon
<1> DEFINE r == a \o b \o c
<1>8. /\ r \in Seq(Tokens) /\ Len(r) = (IF e.etag THEN 6 ELSE 4)
      /\ r[1] = a[1] /\ r[2] = a[2] /\ r[3] = b[1] /\ r[4] = b[2]
      /\ e.etag => r[5] = c[1] /\ r[6] = c[2]
  <2> HIDE DEF r
  <2>1. Composed(r, Tokens, a, b, c)
    BY <1>7 DEF r
  <2>2. 1 \in 1 .. 2 /\ 2 \in 1 .. 2 /\ 2 + 1 = 3 /\ 2 + 2 = 4
        /\ 2 + 2 + 1 = 5 /\ 2 + 2 + 2 = 6
    OBVIOUS
  <2>3. /\ r \in Seq(Tokens) /\ Len(r) = 2 + 2 + Len(c)
        /\ \A j \in 1 .. 2 : r[j] = a[j]
        /\ \A j \in 1 .. 2 : r[2 + j] = b[j]
        /\ \A j \in 1 .. Len(c) : r[2 + 2 + j] = c[j]
    BY <2>1, <1>3, <1>4 DEF Composed
  <2>4. r[1] = a[1] /\ r[2] = a[2] /\ r[2 + 1] = b[1] /\ r[2 + 2] = b[2]
    BY <2>2, <2>3
  <2>5. e.etag => r[2 + 2 + 1] = c[1] /\ r[2 + 2 + 2] = c[2]
    BY <2>2, <2>3, <1>5
  <2>6. Len(r) = (IF e.etag THEN 6 ELSE 4)
    BY <2>3, <1>5
  <2> QED  BY <2>2, <2>3, <2>4, <2>5, <2>6
<1>9. HeadOf(e, n) = r \o d
  BY <1>2
<1> HIDE DEF r
<1> DEFINE q == r \o d
<1>10. /\ q \in Seq(Tokens) /\ Len(q) = Len(r) + 1 /\ q[Len(r) + 1] = d[1]
       /\ \A j \in 1 .. Len(r) : q[j] = r[j]
  <2> HIDE DEF q
  <2>1. Paired(q, Tokens, r, d)
    BY <1>6, <1>8, JoinedTwo, Zenon DEF q
  <2> QED  BY <2>1, <1>6, <1>8 DEF Paired
<1> HIDE DEF q
<1>11. /\ 1 \in 1 .. Len(r) /\ 2 \in 1 .. Len(r) /\ 3 \in 1 .. Len(r) /\ 4 \in 1 .. Len(r)
       /\ e.etag => 5 \in 1 .. Len(r) /\ 6 \in 1 .. Len(r)
  BY <1>8
<1>12. /\ Len(q) = (IF e.etag THEN 7 ELSE 5) /\ q[Len(q)] = d[1]
       /\ q[1] = a[1] /\ q[2] = a[2] /\ q[3] = b[1] /\ q[4] = b[2]
       /\ e.etag => q[5] = c[1] /\ q[6] = c[2]
  BY <1>8, <1>10, <1>11
<1> QED  BY <1>3, <1>4, <1>5, <1>6, <1>9, <1>10, <1>12 DEF q

(* A response is its head and what follows it.                               *)
BodyPart(e, n) ==
  IF e.method = "HEAD" THEN <<>>
  ELSE IF e.framing = "chunked" THEN ChunksFrom(e, n)[1] ELSE Body(e, n)

LEMMA BodyMeans ==
  ASSUME NEW e \in Exchanges, NEW n \in Nat
  PROVE  /\ Body(e, n) \in Seq(Tokens) /\ SumOf(e.body) \in Nat
         /\ Len(Body(e, n)) = SumOf(e.body)
         /\ \A j \in 1 .. SumOf(e.body) : Body(e, n)[j] = Of(n, "unit", j)
<1>1. PICK sum \in Nat : sum = SumOf(e.body)
  BY ExchangeMeans, SumMeans
<1>2. /\ Units(n, 0, sum) \in Seq(Tokens) /\ Len(Units(n, 0, sum)) = sum - 0
      /\ \A i \in 1 .. sum - 0 : Units(n, 0, sum)[i] = Of(n, "unit", 0 + i)
  <2>1. 0 \in Nat /\ 0 <= sum  BY <1>1
  <2> QED  BY <1>1, <2>1, UnitsMeans, Zenon
<1>3. sum - 0 = sum /\ \A i \in 1 .. sum : 0 + i = i
  BY <1>1
<1> QED  BY <1>1, <1>2, <1>3 DEF Body

LEMMA ResponseMeans ==
  ASSUME NEW e \in Exchanges, NEW n \in Nat
  PROVE  LET q == ResponseTo(e, n)
             h == HeadOf(e, n)
             b == BodyPart(e, n) IN
         /\ q \in Seq(Tokens) /\ b \in Seq(Tokens) /\ Len(q) = Len(h) + Len(b)
         /\ \A j \in 1 .. Len(h) : q[j] = h[j]
         /\ \A j \in 1 .. Len(b) : q[Len(h) + j] = b[j]
<1> DEFINE h == HeadOf(e, n)
           b == BodyPart(e, n)
<1>1. h \in Seq(Tokens)
  BY HeadMeans
<1>2. b \in Seq(Tokens)
  <2>1. 1 \in 1 .. Len(e.body) + 1  BY ExchangeMeans
  <2>2. ChunksFrom(e, n)[1] \in Seq(Tokens)  BY <2>1, ChunksMeans
  <2> QED  BY <2>2, BodyMeans DEF BodyPart
<1>3. ResponseTo(e, n) = h \o b
  BY DEF ResponseTo, BodyPart, Chunks
<1> HIDE DEF h, b
<1>4. /\ h \o b \in Seq(Tokens) /\ Len(h \o b) = Len(h) + Len(b)
      /\ \A j \in 1 .. Len(h) : (h \o b)[j] = h[j]
      /\ \A j \in 1 .. Len(b) : (h \o b)[Len(h) + j] = b[j]
  BY <1>1, <1>2
<1> QED  BY <1>2, <1>3, <1>4 DEF h, b

-----------------------------------------------------------------------------
(* Reading *)

LEMMA RestMeans ==
  ASSUME arrived \in Seq(Tokens), wire \in Seq(Tokens)
  PROVE  /\ Rest \in Seq(Tokens) /\ Len(Rest) = Len(arrived) + Len(wire)
         /\ \A j \in 1 .. Len(arrived) : Rest[j] = arrived[j]
         /\ \A j \in 1 .. Len(wire) : Rest[Len(arrived) + j] = wire[j]
<1>1. Paired(Rest, Tokens, arrived, wire)
  BY JoinedTwo DEF Rest
<1> QED  BY <1>1 DEF Paired

(* What a read takes is what comes next, and the rest comes after it.        *)
LEMMA Took ==
  ASSUME arrived \in Seq(Tokens), wire \in Seq(Tokens), NEW n \in Nat, Takes(n),
         wire' = wire, NEW q \in Seq(Tokens), NEW k \in Nat, Ahead(Rest, q, k)
  PROVE  /\ Taken(n) \in 1 .. n /\ Taken(n) + k <= Len(q)
         /\ Found(n) \in Seq(Tokens) /\ Len(Found(n)) = Taken(n)
         /\ \A j \in 1 .. Taken(n) : Found(n)[j] = q[k + j]
         /\ arrived' \in Seq(Tokens)
         /\ Ahead(Rest', q, k + Taken(n))
<1> DEFINE t == Taken(n)
           a == Len(arrived)
<1>1. n # 0 /\ a \in Nat /\ a > 0 /\ arrived' = SubSeq(arrived, t + 1, a)
  BY DEF Takes, LastMsg
<1>2. t \in 1 .. n /\ t \in 1 .. a /\ Found(n) = SubSeq(arrived, 1, t)
  BY <1>1 DEF Taken, Least, Found
<1> HIDE DEF t, a
<1>3. /\ Len(Rest) = a + Len(wire) /\ Len(wire) \in Nat
      /\ \A j \in 1 .. a : Rest[j] = arrived[j]
      /\ \A j \in 1 .. Len(wire) : Rest[a + j] = wire[j]
  BY RestMeans DEF a
<1>4. Len(q) \in Nat /\ Len(Rest) <= Len(q) - k
      /\ \A j \in 1 .. Len(Rest) : Rest[j] = q[k + j]
  BY DEF Ahead
<1>5. Found(n) \in Seq(Tokens) /\ Len(Found(n)) = t
      /\ \A j \in 1 .. t : Found(n)[j] = arrived[j]
  <2>1. a = Len(arrived)  BY DEF a
  <2> QED  BY <1>1, <1>2, <2>1
<1>6. ASSUME NEW j \in 1 .. t PROVE Found(n)[j] = q[k + j]
  <2>1. j \in 1 .. a /\ j \in 1 .. Len(Rest)  BY <1>1, <1>2, <1>3
  <2> QED  BY <2>1, <1>3, <1>4, <1>5
<1>7. /\ arrived' \in Seq(Tokens) /\ Len(arrived') = a - t
      /\ \A j \in 1 .. a - t : arrived'[j] = arrived[t + j]
  <2>1. a = Len(arrived) /\ t + 1 \in 1 .. a + 1 /\ a \in Nat /\ t \in Nat
    BY <1>1, <1>2 DEF a
  <2>2. arrived' \in Seq(Tokens) /\ Len(arrived') = a - t
    BY <1>1, <2>1
  <2>3. ASSUME NEW j \in 1 .. a - t PROVE arrived'[j] = arrived[t + j]
    <3>1. arrived'[j] = arrived[(t + 1) + j - 1] /\ (t + 1) + j - 1 = t + j
      BY <1>1, <2>1, <2>2
    <3> QED  BY <3>1
  <2> QED  BY <2>2, <2>3
<1>8. /\ Len(Rest') = (a - t) + Len(wire)
      /\ \A j \in 1 .. a - t : Rest'[j] = arrived'[j]
      /\ \A j \in 1 .. Len(wire) : Rest'[(a - t) + j] = wire[j]
  <2>1. Paired(arrived' \o wire, Tokens, arrived', wire)
    BY <1>7, JoinedTwo
  <2>2. Rest' = arrived' \o wire
    BY DEF Rest
  <2> QED  BY <2>1, <2>2, <1>7 DEF Paired
<1>9. Len(Rest') <= Len(q) - (k + t)
  BY <1>1, <1>2, <1>3, <1>4, <1>8
<1>10. ASSUME NEW j \in 1 .. Len(Rest') PROVE Rest'[j] = q[(k + t) + j]
  <2>1. /\ j \in Nat /\ a \in Nat /\ t \in Nat /\ t <= a /\ t + j \in 1 .. Len(Rest)
        /\ k + (t + j) = (k + t) + j
    BY <1>1, <1>2, <1>3, <1>8
  <2>2. Rest[t + j] = q[(k + t) + j]
    BY <1>4, <2>1
  <2>3. CASE j \in 1 .. a - t
    <3>1. t + j \in 1 .. a  BY <2>1, <2>3
    <3> QED  BY <1>3, <1>7, <1>8, <2>2, <2>3, <3>1
  <2>4. CASE j \notin 1 .. a - t
    <3>1. j - (a - t) \in 1 .. Len(wire) /\ (a - t) + (j - (a - t)) = j
          /\ a + (j - (a - t)) = t + j
      BY <1>3, <1>8, <2>1, <2>4
    <3>2. Rest'[(a - t) + (j - (a - t))] = wire[j - (a - t)]
          /\ Rest[a + (j - (a - t))] = wire[j - (a - t)]
      BY <1>3, <1>8, <3>1
    <3> QED  BY <2>2, <3>1, <3>2
  <2> QED  BY <2>3, <2>4
<1>11. Ahead(Rest', q, k + t)
  BY <1>9, <1>10 DEF Ahead
<1>12. t + k <= Len(q)
  BY <1>1, <1>2, <1>3, <1>4
<1> QED  BY <1>2, <1>5, <1>6, <1>7, <1>11, <1>12 DEF t

(* One character.                                                            *)
LEMMA TookOne ==
  ASSUME arrived \in Seq(Tokens), wire \in Seq(Tokens), Takes(1),
         wire' = wire, NEW q \in Seq(Tokens), NEW k \in Nat, Ahead(Rest, q, k)
  PROVE  /\ k + 1 \in 1 .. Len(q) /\ Head(arrived) = q[k + 1]
         /\ arrived' \in Seq(Tokens)
         /\ Ahead(Rest', q, k + 1)
<1>1. /\ Taken(1) \in 1 .. 1 /\ Taken(1) + k <= Len(q)
      /\ Found(1) \in Seq(Tokens) /\ Len(Found(1)) = Taken(1)
      /\ \A j \in 1 .. Taken(1) : Found(1)[j] = q[k + j]
      /\ arrived' \in Seq(Tokens)
      /\ Ahead(Rest', q, k + Taken(1))
  BY Took
<1>2. Taken(1) = 1 /\ 1 \in 1 .. 1 /\ Len(q) \in Nat
  BY <1>1
<1>3. Found(1)[1] = Head(arrived)
  <2>1. arrived # <<>>  BY DEF Takes, LastMsg
  <2> QED  BY <1>2, <2>1 DEF Found
<1> QED  BY <1>1, <1>2, <1>3

(* Less of it, cut off at the end.                                           *)
LEMMA Shortened ==
  ASSUME NEW a \in Seq(Tokens), NEW b \in Seq(Tokens), NEW q \in Seq(Tokens), NEW k \in Nat,
         Ahead(a, q, k), Len(b) <= Len(a), \A j \in 1 .. Len(b) : b[j] = a[j]
  PROVE  Ahead(b, q, k)
<1>1. ASSUME NEW j \in 1 .. Len(b) PROVE b[j] = q[k + j]
  <2>1. j \in 1 .. Len(a)  OBVIOUS
  <2> QED  BY <2>1 DEF Ahead
<1> QED  BY <1>1 DEF Ahead

-----------------------------------------------------------------------------
(* The server and the network *)

LEMMA PlanMeans ==
  ASSUME plan \in Plans
  PROVE  /\ Len(plan) \in Nat
         /\ \A i \in 1 .. Len(plan) : plan[i] \in Exchanges
<1>1. plan \in Seq(Exchanges)
  BY ClientAssumption
<1> QED  BY <1>1

LEMMA AskedMeans ==
  ASSUME TypeOK, asked > 0
  PROVE  asked \in Nat /\ Exchange \in Exchanges
<1>1. asked \in 1 .. Len(plan)
  BY PlanMeans DEF TypeOK
<1> QED  BY <1>1, PlanMeans DEF Exchange, TypeOK

(* All but the network stays.                                                *)
Still ==
  UNCHANGED <<planVars, answered, fatal, headVars, index, chunkVars, postVars,
              callVars, received>>

Lost ==
  /\ arrived' \in Seq(Tokens) /\ wire' \in Seq(Tokens)
  /\ link' \in {"up", "closed", "cut", "broken"}
  /\ Len(Rest') <= Len(Rest) /\ \A j \in 1 .. Len(Rest') : Rest'[j] = Rest[j]
  /\ LinkInv'

LEMMA StillType ==
  ASSUME TypeOK, Still, arrived' \in Seq(Tokens), wire' \in Seq(Tokens),
         link' \in {"up", "closed", "cut", "broken"}
  PROVE  TypeOK'
BY DEF TypeOK, Still, planVars, headVars, chunkVars, postVars, callVars

LEMMA DataMeans ==
  ASSUME TypeOK, asked > 0
  PROVE  /\ ResponseTo(Exchange, asked) \in Seq(Tokens)
         /\ Body(Exchange, asked) \in Seq(Tokens)
         /\ \A i \in 1 .. Len(Exchange.body) + 1 : ChunksFrom(Exchange, asked)[i] \in Seq(Tokens)
BY AskedMeans, ResponseMeans, BodyMeans, ChunksMeans

LEMMA LostKeeps ==
  ASSUME ClientInv, Still, Lost
  PROVE  ClientInv'
<1>1. /\ TypeOK /\ PlaceInv /\ ReceivedInv /\ HeadInv /\ PlainInv /\ ChunksInv /\ StartInv
      /\ turn = "body" => processed /\ HeadersKnown(Exchange)
  BY DEF ClientInv
<1>2. /\ plan' = plan /\ asked' = asked /\ answered' = answered /\ fatal' = fatal
      /\ partial' = partial /\ processed' = processed /\ code' = code /\ etag' = etag
      /\ length' = length /\ index' = index /\ chunked' = chunked /\ stat' = stat
      /\ sizeLine' = sizeLine /\ chunkSize' = chunkSize /\ chunkIndex' = chunkIndex
      /\ pc' = pc /\ line' = line /\ turn' = turn /\ received' = received
      /\ Exchange' = Exchange
  BY DEF Still, planVars, headVars, chunkVars, callVars, Exchange
<1>3. TypeOK'
  BY <1>1, StillType DEF Lost
<1>4. Rest \in Seq(Tokens) /\ Rest' \in Seq(Tokens)
  <2>1. Rest \in Seq(Tokens)  BY <1>1, RestMeans DEF TypeOK
  <2>2. Rest' \in Seq(Tokens)  BY DEF Lost, Rest
  <2> QED  BY <2>1, <2>2
<1>5. ASSUME NEW q \in Seq(Tokens), NEW k \in Nat, Ahead(Rest, q, k)
      PROVE  Ahead(Rest', q, k)
  BY <1>4, <1>5, Shortened DEF Lost
<1>6. Rest = <<>> => Rest' = <<>>
  BY <1>4 DEF Lost
<1>7. PlaceInv' /\ ReceivedInv' /\ (turn' = "body" => processed' /\ HeadersKnown(Exchange)')
  BY <1>1, <1>2 DEF PlaceInv, ReceivedInv, HeadersKnown
<1>8. HeadInv'
  <2> SUFFICES ASSUME turn \in {"send", "headers"} PROVE HeadInv'
    BY <1>2 DEF HeadInv
  <2>1. PICK p \in 0 .. Len(HeadOf(Exchange, asked)) - 1 : HeadRead(Exchange, p)
    BY <1>1 DEF HeadInv
  <2>2. asked > 0
    BY <1>1, PlanMeans DEF PlaceInv, TypeOK
  <2>3. p \in Nat /\ ResponseTo(Exchange, asked) \in Seq(Tokens)
    BY <1>1, <2>2, DataMeans
  <2>4. Ahead(Rest', ResponseTo(Exchange, asked), p)
    BY <1>5, <2>1, <2>3 DEF HeadRead
  <2>5. HeadRead(Exchange, p)'
    BY <1>2, <1>6, <2>1, <2>4 DEF HeadRead
  <2> QED  BY <1>1, <1>2, <2>1, <2>5 DEF HeadInv
<1>9. PlainInv'
  <2> SUFFICES ASSUME turn = "body", ~ chunked PROVE PlainInv'
    BY <1>2 DEF PlainInv
  <2>1. asked > 0 /\ Len(received) \in Nat
    BY <1>1, PlanMeans DEF PlaceInv, TypeOK
  <2>2. Ahead(Rest', Body(Exchange, asked), Len(received))
    BY <1>1, <1>5, <2>1, DataMeans DEF PlainInv
  <2> QED  BY <1>1, <1>2, <2>2 DEF PlainInv
<1>10. ChunksInv'
  <2> SUFFICES ASSUME turn = "body", chunked PROVE ChunksInv'
    BY <1>2 DEF ChunksInv
  <2>1. asked > 0 /\ chunkIndex \in Nat
    BY <1>1, PlanMeans DEF PlaceInv, TypeOK
  <2>2. ASSUME NEW i \in 1 .. Len(Exchange.body) + 1, AtSize(Exchange, i)
        PROVE  AtSize(Exchange, i)'
    <3>1. ChunksFrom(Exchange, asked)[i] \in Seq(Tokens)
      BY <1>1, <2>1, DataMeans
    <3>2. /\ Ahead(Rest, ChunksFrom(Exchange, asked)[i], 0)
               => Ahead(Rest', ChunksFrom(Exchange, asked)[i], 0)
          /\ Ahead(Rest, ChunksFrom(Exchange, asked)[i], 1)
               => Ahead(Rest', ChunksFrom(Exchange, asked)[i], 1)
      BY <1>5, <3>1
    <3> QED  BY <1>2, <2>2, <3>2 DEF AtSize
  <2>3. ASSUME NEW i \in 1 .. Len(Exchange.body) + 1, AtData(Exchange, i)
        PROVE  AtData(Exchange, i)'
    <3>1. ChunksFrom(Exchange, asked)[i] \in Seq(Tokens) /\ 2 + chunkIndex \in Nat
      BY <1>1, <2>1, DataMeans
    <3>2. Ahead(Rest, ChunksFrom(Exchange, asked)[i], 2 + chunkIndex)
            => Ahead(Rest', ChunksFrom(Exchange, asked)[i], 2 + chunkIndex)
      BY <1>5, <3>1
    <3> QED  BY <1>2, <2>3, <3>2 DEF AtData
  <2> QED  BY <1>1, <1>2, <2>2, <2>3 DEF ChunksInv
<1>11. StartInv'
  BY <1>1, <1>2, <1>6 DEF StartInv
<1> QED  BY <1>3, <1>7, <1>8, <1>9, <1>10, <1>11 DEF ClientInv, Lost

LEMMA NetworkKeeps ==
  ASSUME ClientInv, Deliver \/ Failure
  PROVE  ClientInv'
<1>1. arrived \in Seq(Tokens) /\ wire \in Seq(Tokens)
      /\ link \in {"up", "closed", "cut", "broken"}
  BY DEF ClientInv, TypeOK
<1>2. /\ Rest \in Seq(Tokens) /\ Len(Rest) = Len(arrived) + Len(wire)
      /\ \A j \in 1 .. Len(arrived) : Rest[j] = arrived[j]
      /\ \A j \in 1 .. Len(wire) : Rest[Len(arrived) + j] = wire[j]
  BY <1>1, RestMeans
<1>3. Still
  BY DEF Deliver, Failure, HangsUp, LinkBreaks, Still
<1>4. CASE Deliver
  <2>1. /\ arrived' = Append(arrived, Head(wire)) /\ wire' = Tail(wire) /\ wire # <<>>
        /\ link' = link
    BY <1>4 DEF Deliver
  <2>2. arrived' \in Seq(Tokens) /\ wire' \in Seq(Tokens)
    BY <1>1, <2>1
  <2>3. Rest' = Rest
    BY <1>1, <2>1 DEF Rest
  <2>4. Lost
    BY <1>1, <1>2, <2>1, <2>2, <2>3 DEF Lost, LinkInv, ClientInv
  <2> QED  BY <1>3, <2>4, LostKeeps
<1>5. CASE HangsUp
  <2>1. PICK k \in 0 .. Len(wire) : wire' = SubSeq(wire, 1, k)
    BY <1>5 DEF HangsUp
  <2>2. arrived' = arrived /\ link' = "cut"
    BY <1>5 DEF HangsUp
  <2>3. wire' \in Seq(Tokens) /\ Len(wire') = k /\ \A j \in 1 .. k : wire'[j] = wire[j]
    BY <1>1, <2>1
  <2>4. Paired(Rest', Tokens, arrived, wire')
    <3>1. Rest' = arrived \o wire'  BY <2>2 DEF Rest
    <3> QED  BY <1>1, <2>3, <3>1, JoinedTwo
  <2>5. /\ Len(Rest') = Len(arrived) + k
        /\ \A j \in 1 .. Len(arrived) : Rest'[j] = arrived[j]
        /\ \A j \in 1 .. k : Rest'[Len(arrived) + j] = wire'[j]
    BY <2>3, <2>4 DEF Paired
  <2>6. ASSUME NEW j \in 1 .. Len(Rest') PROVE Rest'[j] = Rest[j]
    <3>1. CASE j \in 1 .. Len(arrived)  BY <1>2, <2>5, <3>1
    <3>2. CASE j \notin 1 .. Len(arrived)
      <4>1. PICK i \in 1 .. k : j = Len(arrived) + i
        <5>1. j - Len(arrived) \in 1 .. k /\ j = Len(arrived) + (j - Len(arrived))
          BY <1>1, <2>5, <3>2
        <5> QED  BY <5>1
      <4>2. i \in 1 .. Len(wire)  BY <1>1
      <4> QED  BY <1>2, <2>3, <2>5, <4>1, <4>2
    <3> QED  BY <3>1, <3>2
  <2>7. Len(Rest') <= Len(Rest)
    BY <1>1, <1>2, <2>5
  <2>8. Lost
    BY <1>1, <2>2, <2>3, <2>6, <2>7 DEF Lost, LinkInv
  <2> QED  BY <1>3, <2>8, LostKeeps
<1>6. CASE LinkBreaks
  <2>1. arrived' = <<>> /\ wire' = <<>> /\ link' = "broken"
    BY <1>6 DEF LinkBreaks
  <2>2. Rest' = <<>>
    BY <2>1 DEF Rest
  <2>3. Lost
    BY <1>2, <2>1, <2>2 DEF Lost, LinkInv
  <2> QED  BY <1>3, <2>3, LostKeeps
<1> QED  BY <1>4, <1>5, <1>6 DEF Failure

LEMMA RespondKeeps ==
  ASSUME ClientInv, Respond
  PROVE  ClientInv'
<1>1. /\ TypeOK /\ PlaceInv /\ ReceivedInv /\ HeadInv
      /\ arrived \in Seq(Tokens) /\ wire \in Seq(Tokens)
  BY DEF ClientInv, TypeOK
<1>2. /\ answered < asked /\ answered' = asked /\ wire' = wire \o ResponseTo(Exchange, asked)
      /\ link' \in {"up", "closed"}
  BY DEF Respond
<1>3. /\ UNCHANGED <<planVars, arrived, fatal, headVars, index, chunkVars, postVars,
                     callVars, received>>
      /\ Exchange' = Exchange
  BY DEF Respond, planVars, Exchange
<1>4. asked > 0 /\ asked \in Nat /\ Exchange \in Exchanges
  <2>1. asked \in Nat /\ answered \in Nat  BY <1>1, PlanMeans DEF TypeOK
  <2>2. asked > 0  BY <1>2, <2>1
  <2> QED  BY <2>1, <2>2, <1>1, AskedMeans
<1> DEFINE q == ResponseTo(Exchange, asked)
<1>5. q \in Seq(Tokens)
  BY <1>4, ResponseMeans
<1>6. q' = q
  BY <1>3 DEF planVars
<1> HIDE DEF q
<1>7. TypeOK'
  <2>1. wire' \in Seq(Tokens) /\ answered' \in 0 .. asked
    BY <1>1, <1>2, <1>4, <1>5 DEF q
  <2> QED  BY <1>1, <1>2, <1>3, <2>1
           DEF TypeOK, planVars, headVars, chunkVars, postVars, callVars
<1>8. turn' = turn /\ turn \notin {"start", "body"}
  <2>1. answered # asked  BY <1>1, <1>2, <1>4 DEF TypeOK
  <2> QED  BY <1>1, <1>3, <2>1 DEF PlaceInv, callVars
<1>9. PlaceInv' /\ ReceivedInv'
  BY <1>1, <1>3, <1>8 DEF PlaceInv, ReceivedInv, planVars, chunkVars, callVars
<1>10. HeadInv'
  <2> SUFFICES ASSUME turn \in {"send", "headers"} PROVE HeadInv'
    BY <1>8 DEF HeadInv
  <2>1. PICK p \in 0 .. Len(HeadOf(Exchange, asked)) - 1 : HeadRead(Exchange, p)
    BY <1>1 DEF HeadInv
  <2>2. p = 0 /\ Rest = <<>>
    BY <1>2, <2>1 DEF HeadRead
  <2>3. Rest' = q
    <3>1. Len(arrived) = 0 /\ Len(wire) = 0
      BY <1>1, <2>2, RestMeans
    <3>2. arrived = <<>> /\ wire = <<>>
      BY <1>1, <3>1
    <3>3. Rest' = <<>> \o (<<>> \o q)
      BY <1>2, <1>3, <3>2 DEF Rest, q
    <3> QED  BY <1>5, <3>3
  <2>4. Ahead(Rest', q, 0)
    BY <1>5, <2>3 DEF Ahead
  <2>5. HeadRead(Exchange, p)'
    <3>1. ~ (answered' < asked')
      BY <1>2, <1>3, <1>4 DEF planVars
    <3>2. Ahead(Rest, ResponseTo(Exchange, asked), p)'
      BY <2>2, <2>4, <1>6 DEF q
    <3> QED  BY <1>3, <2>1, <3>1, <3>2 DEF HeadRead, planVars, headVars, chunkVars
  <2> QED  BY <1>1, <1>3, <2>1, <2>5 DEF HeadInv, planVars, headVars
<1>11. PlainInv' /\ ChunksInv' /\ StartInv' /\ (turn' = "body" => processed' /\ HeadersKnown(Exchange)')
  BY <1>8 DEF PlainInv, ChunksInv, StartInv
<1>12. LinkInv'
  BY <1>2 DEF LinkInv
<1> QED  BY <1>7, <1>9, <1>10, <1>11, <1>12 DEF ClientInv

-----------------------------------------------------------------------------
(* A new request *)

LEMMA InitKeeps ==
  ASSUME Init
  PROVE  ClientInv
<1>1. TypeOK
  <2>1. plan \in Plans /\ asked \in 0 .. Len(plan) /\ answered \in 0 .. asked
    BY PlanMeans DEF Init
  <2>2. index \in 0 .. length /\ chunkIndex \in 0 .. chunkSize /\ Len(partial) <= 1
    BY DEF Init
  <2>3. <<>> \in Seq(Tokens) /\ <<>> \in Seq(Nat)
    OBVIOUS
  <2>4. /\ wire \in Seq(Tokens) /\ arrived \in Seq(Tokens) /\ received \in Seq(Tokens)
        /\ partial \in Seq(Tokens) /\ sizeLine \in Seq(Nat) /\ line \in Seq(Tokens)
    BY <2>3 DEF Init
  <2> QED  BY <2>1, <2>2, <2>4, Zenon DEF Init, TypeOK
<1>2. Rest = <<>>
  BY DEF Init, Rest
<1> QED  BY <1>1, <1>2 DEF Init, ClientInv, PlaceInv, LinkInv, ReceivedInv, HeadInv, PlainInv,
                           ChunksInv, StartInv

LEMMA StartKeeps ==
  ASSUME ChunksComeLast, ClientInv, Start
  PROVE  ClientInv'
<1>1. /\ TypeOK /\ PlaceInv /\ StartInv
      /\ arrived \in Seq(Tokens) /\ wire \in Seq(Tokens)
  BY DEF ClientInv, TypeOK
<1> DEFINE e == plan[asked + 1]
<1>2. /\ turn = "start" /\ asked < Len(plan) /\ asked' = asked + 1 /\ whole' \in BOOLEAN
      /\ postLength' = e.post /\ postIndex' \in {0, postIndex}
      /\ turn' \in {"send", "headers"} /\ pc = "app"
      /\ length' = 0 /\ index' = 0 /\ chunked' = FALSE /\ code' = 0 /\ etag' = 0
      /\ partial' = <<>> /\ processed' = FALSE /\ received' = <<>> /\ last' = "OK"
  BY DEF Start, ClearedETag
<1>3. UNCHANGED <<plan, serverVars, arrived, fatal, stat, sizeLine, chunkSize,
                  chunkIndex, pc, room, got, line>>
  BY DEF Start
<1>4. /\ asked \in Nat /\ asked' \in Nat /\ asked' \in 0 .. Len(plan) /\ asked' > 0
      /\ Len(plan) \in Nat /\ asked # Len(plan)
      /\ e \in Exchanges /\ e.post \in Nat /\ Exchange' = e
  <2>1. Len(plan) \in Nat /\ asked \in 0 .. Len(plan)
    BY <1>1, PlanMeans DEF TypeOK
  <2>2. asked + 1 \in 1 .. Len(plan)
    BY <1>2, <2>1
  <2>3. e \in Exchanges
    BY <1>1, <2>2, PlanMeans DEF TypeOK
  <2> QED  BY <1>2, <1>3, <2>1, <2>2, <2>3, ExchangeMeans DEF Exchange
<1> HIDE DEF e
<1>5. TypeOK'
  <2>1. answered \in 0 .. asked'  BY <1>1, <1>2, <1>4 DEF TypeOK
  <2>2. postIndex' \in Nat  BY <1>1, <1>2 DEF TypeOK
  <2>3. answered' \in 0 .. asked' /\ plan' \in Plans /\ asked' \in 0 .. Len(plan')
    BY <1>1, <1>3, <1>4, <2>1 DEF TypeOK, serverVars
  <2>4. index' \in 0 .. length' /\ partial' \in Seq(Tokens) /\ Len(partial') <= 1
        /\ received' \in Seq(Tokens)
    BY <1>2
  <2>5. chunkIndex' \in 0 .. chunkSize'
    BY <1>1, <1>3 DEF TypeOK
  <2> QED  BY <1>1, <1>2, <1>3, <1>4, <2>2, <2>3, <2>4, <2>5 DEF TypeOK, serverVars
<1>6. Rest = <<>> /\ Rest' = <<>>
  BY <1>1, <1>2, <1>3, <1>4 DEF StartInv, Rest, serverVars
<1>7. PlaceInv' /\ LinkInv'
  BY <1>1, <1>2, <1>3, <1>4, <1>6 DEF PlaceInv, LinkInv
<1>8. ReceivedInv'
  <2>1. PICK n \in Nat : n = asked'  BY <1>4
  <2>2. Units(n, 0, 0) \in Seq(Tokens) /\ Len(Units(n, 0, 0)) = 0
    <3>1. /\ Units(n, 0, 0) \in Seq(Tokens) /\ Len(Units(n, 0, 0)) = 0 - 0
          /\ \A i \in 1 .. 0 - 0 : Units(n, 0, 0)[i] = Of(n, "unit", 0 + i)
      <4>1. 0 \in Nat /\ 0 <= 0  OBVIOUS
      <4> QED  BY <4>1, UnitsMeans, Zenon
    <3> QED  BY <3>1
  <2>3. Units(n, 0, 0) = <<>>
    BY <2>2
  <2>4. SumOf(e.body) \in Nat
    BY <1>4, BodyMeans, <2>1
  <2>5. Len(received') = 0 /\ received' = <<>> /\ 0 <= SumOf(e.body)
    BY <1>2, <2>4
  <2>6. received' = Units(asked', 0, Len(received'))
    BY <2>1, <2>3, <2>5
  <2> QED  BY <1>4, <2>5, <2>6 DEF ReceivedInv
<1>9. HeadInv'
  <2>1. 0 \in 0 .. Len(HeadOf(e, asked')) - 1
    <3>1. Len(HeadOf(e, asked')) \in {5, 7}
      BY <1>4, HeadMeans
    <3> QED  BY <3>1
  <2>2. ResponseTo(e, asked') \in Seq(Tokens)
    BY <1>4, ResponseMeans
  <2>3. Ahead(Rest', ResponseTo(e, asked'), 0)
    BY <1>6, <2>2 DEF Ahead
  <2>4. /\ Ahead(Rest', ResponseTo(Exchange', asked'), 0)
        /\ 0 \in {0, 2, 4, 6} /\ ~ (0 >= 4) /\ 0 < 2 /\ 0 < 4 /\ 0 < 6
    BY <1>4, <2>3
  <2>5. HeadRead(Exchange, 0)'
    BY <1>2, <1>6, <2>4 DEF HeadRead
  <2>6. 0 \in 0 .. Len(HeadOf(Exchange', asked')) - 1
    BY <1>4, <2>1
  <2>7. \E p \in 0 .. Len(HeadOf(Exchange', asked')) - 1 : HeadRead(Exchange, p)'
    BY <2>5, <2>6
  <2> QED  BY <1>2, <2>7 DEF HeadInv
<1>10. PlainInv' /\ ChunksInv' /\ StartInv' /\ (turn' = "body" => processed' /\ HeadersKnown(Exchange)')
  BY <1>2 DEF PlainInv, ChunksInv, StartInv
<1> QED  BY <1>5, <1>7, <1>8, <1>9, <1>10 DEF ClientInv

-----------------------------------------------------------------------------
(* Steps that read nothing *)

(* The call goes on, begins, returns, or is the last of its kind.            *)
Quiet ==
  /\ UNCHANGED <<planVars, serverVars, arrived, headVars, index, chunkVars, received, line>>
  /\ postLength' \in Nat /\ postIndex' \in Nat /\ room' \in Nat /\ got' \in Nat
  /\ fatal' \in BOOLEAN /\ last' \in {"OK", "TIMEOUT", "END", "ERROR"}
  /\ \/ pc' = pc /\ turn' = turn
     \/ pc = "app" /\ pc' = "chunked" /\ turn = "body" /\ turn' = turn /\ chunked
     \/ pc' = "app" /\ turn' = turn /\ pc # "crlf"
     \/ pc' = "app" /\ turn' = "stop" /\ turn # "start"
     \/ pc' = "app" /\ turn = "send" /\ turn' = "headers"
     \/ pc' = "app" /\ turn = "body" /\ turn' = "start" /\ StartInv'

LEMMA QuietKeeps ==
  ASSUME ClientInv, Quiet
  PROVE  ClientInv'
<1>1. /\ TypeOK /\ PlaceInv /\ ReceivedInv /\ HeadInv /\ PlainInv /\ ChunksInv /\ StartInv
      /\ turn = "body" => processed /\ HeadersKnown(Exchange)
  BY DEF ClientInv
<1>2. /\ plan' = plan /\ asked' = asked /\ answered' = answered
      /\ partial' = partial /\ processed' = processed /\ code' = code /\ etag' = etag
      /\ length' = length /\ index' = index /\ chunked' = chunked /\ stat' = stat
      /\ sizeLine' = sizeLine /\ chunkSize' = chunkSize /\ chunkIndex' = chunkIndex
      /\ line' = line /\ received' = received
      /\ Exchange' = Exchange /\ Rest' = Rest
  BY DEF Quiet, planVars, serverVars, headVars, chunkVars, Exchange, Rest
<1>0. LinkInv /\ link' = link
  BY DEF ClientInv, Quiet, serverVars
<1>3. /\ pc \in {"app", "headers", "chunked", "crlf", "trailer"}
      /\ turn \in {"start", "send", "headers", "body", "stop"}
  BY <1>1 DEF TypeOK
<1>4. \/ pc' = pc /\ turn' = turn
      \/ pc = "app" /\ pc' = "chunked" /\ turn = "body" /\ turn' = turn /\ chunked
      \/ pc' = "app" /\ turn' = turn /\ pc # "crlf"
      \/ pc' = "app" /\ turn' = "stop" /\ turn # "start"
      \/ pc' = "app" /\ turn = "send" /\ turn' = "headers"
      \/ pc' = "app" /\ turn = "body" /\ turn' = "start" /\ StartInv'
  BY DEF Quiet
<1>5. TypeOK'
  <2>1. /\ pc' \in {"app", "headers", "chunked", "crlf", "trailer"}
        /\ turn' \in {"start", "send", "headers", "body", "stop"}
    BY <1>3, <1>4
  <2>2. UNCHANGED <<planVars, serverVars, arrived, headVars, index, chunkVars, received, line>>
        /\ postLength' \in Nat /\ postIndex' \in Nat /\ room' \in Nat /\ got' \in Nat
        /\ fatal' \in BOOLEAN /\ last' \in {"OK", "TIMEOUT", "END", "ERROR"}
    BY DEF Quiet
  <2> QED  BY <1>1, <2>1, <2>2 DEF TypeOK, planVars, serverVars, headVars, chunkVars
<1>6. PlaceInv' /\ LinkInv' /\ ReceivedInv'
  BY <1>0, <1>1, <1>2, <1>3, <1>4 DEF PlaceInv, LinkInv, ReceivedInv
<1>7. HeadInv'
  <2> SUFFICES ASSUME turn \in {"send", "headers"} PROVE HeadInv'
    BY <1>4 DEF HeadInv
  <2>1. PICK p \in 0 .. Len(HeadOf(Exchange, asked)) - 1 : HeadRead(Exchange, p)
    BY <1>1 DEF HeadInv
  <2>2. HeadRead(Exchange, p)'
    BY <1>2, <2>1 DEF HeadRead
  <2> QED  BY <1>1, <1>2, <2>1, <2>2 DEF HeadInv
<1>8. turn' = "body" => turn = "body"
  BY <1>4
<1>9. PlainInv' /\ (turn' = "body" => processed' /\ HeadersKnown(Exchange)')
  BY <1>1, <1>2, <1>8 DEF PlainInv, HeadersKnown
<1>10. ChunksInv'
  <2> SUFFICES ASSUME turn = "body", turn' = "body", chunked PROVE ChunksInv'
    BY <1>2, <1>8 DEF ChunksInv
  <2>1. \/ pc' = pc
        \/ pc' \in {"app", "chunked"} /\ pc # "crlf"
    BY <1>4
  <2>2. ASSUME NEW i \in 1 .. Len(Exchange.body) + 1, AtSize(Exchange, i)
        PROVE  AtSize(Exchange, i)'
    BY <1>2, <2>2 DEF AtSize
  <2>3. ASSUME NEW i \in 1 .. Len(Exchange.body) + 1, AtData(Exchange, i)
        PROVE  AtData(Exchange, i)'
    BY <1>2, <2>1, <2>3 DEF AtData
  <2> QED  BY <1>1, <1>2, <2>1, <2>2, <2>3 DEF ChunksInv
<1>11. StartInv'
  BY <1>1, <1>2, <1>4 DEF StartInv
<1> QED  BY <1>5, <1>6, <1>7, <1>9, <1>10, <1>11 DEF ClientInv

LEMMA StutterKeeps ==
  ASSUME ClientInv, UNCHANGED vars
  PROVE  ClientInv'
<1>1. Quiet
  <2>1. TypeOK  BY DEF ClientInv
  <2> QED  BY <2>1 DEF vars, Quiet, TypeOK, planVars, serverVars, headVars, chunkVars, postVars, callVars
<1> QED  BY <1>1, QuietKeeps

LEMMA SendingKeeps ==
  ASSUME ClientInv, Sending \/ Refused
  PROVE  ClientInv'
<1>1. TypeOK
  BY DEF ClientInv
<1>2. CASE \E n \in Rooms : SendSome(n)
  <2>1. PICK n \in Rooms : SendSome(n)
    BY <1>2
  <2>2. /\ postIndex' \in Nat /\ last' = "OK"
        /\ UNCHANGED <<planVars, serverVars, arrived, fatal, headVars, index, chunkVars,
                       postLength, pc, room, got, line, turn, received>>
    BY <1>1, <2>1, ClientAssumption DEF SendSome, TypeOK, Least
  <2>3. Quiet
    BY <1>1, <2>2 DEF Quiet, TypeOK
  <2> QED  BY <2>3, QuietKeeps
<1>3. CASE SendFails
  <2>1. Quiet
    BY <1>1, <1>3 DEF SendFails, Quiet, TypeOK, postVars
  <2> QED  BY <2>1, QuietKeeps
<1>4. CASE SendEnds
  <2>1. Quiet
    BY <1>1, <1>4 DEF SendEnds, Quiet, TypeOK, postVars
  <2> QED  BY <2>1, QuietKeeps
<1>5. CASE Refused
  <2>1. Quiet
    BY <1>1, <1>5 DEF Refused, Quiet, TypeOK, postVars
  <2> QED  BY <2>1, QuietKeeps
<1> QED  BY <1>2, <1>3, <1>4, <1>5 DEF Sending

LEMMA LastMsgMeans == \A n \in Nat : LastMsg(n) \in {"OK", "TIMEOUT", "END", "ERROR"}
BY DEF LastMsg

LEMMA WaitsKeep ==
  ASSUME ClientInv,
         HeadersWait \/ SizeFails \/ ChunkFails \/ ChunkEndFails \/ TrailerStops
  PROVE  ClientInv'
<1>1. TypeOK /\ PlaceInv
  BY DEF ClientInv
<1>2. CASE HeadersWait
  <2>1. LastMsg(1) \in {"OK", "TIMEOUT", "END", "ERROR"}
    BY LastMsgMeans
  <2>2. Quiet
    BY <1>1, <1>2, <2>1
       DEF HeadersWait, InHeaders, FatalInHead, KeptPartial, Quiet, TypeOK, PlaceInv,
           headVars, postVars
  <2> QED  BY <2>2, QuietKeeps
<1>3. CASE SizeFails
  <2>1. Quiet
    BY <1>1, <1>3
       DEF SizeFails, InLoop, Returns, TurnAfter, Quiet, TypeOK, PlaceInv, postVars
  <2> QED  BY <2>1, QuietKeeps
<1>4. CASE ChunkFails
  <2>1. Quiet
    BY <1>1, <1>4
       DEF ChunkFails, InLoop, Returns, TurnAfter, Quiet, TypeOK, PlaceInv, postVars
  <2> QED  BY <2>1, QuietKeeps
<1>5. CASE ChunkEndFails
  <2>1. Quiet
    BY <1>1, <1>5 DEF ChunkEndFails, Returns, TurnAfter, Quiet, TypeOK, PlaceInv, postVars
  <2> QED  BY <2>1, QuietKeeps
<1>6. CASE TrailerStops
  <2>1. Quiet
    BY <1>1, <1>6 DEF TrailerStops, Returns, TurnAfter, Quiet, TypeOK, PlaceInv, postVars
  <2> QED  BY <2>1, QuietKeeps
<1> QED  BY <1>2, <1>3, <1>4, <1>5, <1>6

-----------------------------------------------------------------------------
(* Receive *)

LEMMA CallKeeps ==
  ASSUME ClientInv, NEW n \in Rooms,
         ReceiveNormalEnds(n) \/ ReceiveNormalFails(n) \/ ReceiveChunked(n)
  PROVE  ClientInv'
<1>1. /\ TypeOK /\ PlaceInv /\ LinkInv /\ ReceivedInv /\ PlainInv /\ n \in Nat /\ n # 0
      /\ turn = "body" => processed /\ HeadersKnown(Exchange)
  BY ClientAssumption DEF ClientInv
<1>2. pc = "app" /\ turn = "body" /\ asked > 0
  <2>1. asked \in Nat  BY <1>1, PlanMeans DEF TypeOK
  <2> QED  BY <1>1, <2>1
           DEF ReceiveNormalEnds, ReceiveNormalFails, ReceiveChunked, Called, PlaceInv
<1>3. Exchange \in Exchanges /\ asked \in Nat
  BY <1>1, <1>2, AskedMeans
<1>4. PICK sum \in Nat : sum = SumOf(Exchange.body)
  BY <1>3, BodyMeans
<1>5. Len(received) \in Nat /\ Len(received) <= sum
  BY <1>1, <1>2, <1>4 DEF ReceivedInv, TypeOK
<1>6. length = (IF Exchange.framing = "length" THEN sum ELSE 0)
  BY <1>1, <1>2, <1>4 DEF HeadersKnown, DeclaredLength
<1>7. ASSUME ~ chunked
      PROVE  /\ index = (IF length > 0 THEN Len(received) ELSE 0)
             /\ Exchange.framing # "chunked"
             /\ Len(received) = sum => Rest = <<>>
  <2>1. /\ index = (IF length > 0 THEN Len(received) ELSE 0)
        /\ Ahead(Rest, Body(Exchange, asked), Len(received))
    BY <1>1, <1>2, <1>7 DEF PlainInv
  <2>2. Rest \in Seq(Tokens)
    BY <1>1, RestMeans DEF TypeOK
  <2>3. Len(Body(Exchange, asked)) = sum
    BY <1>3, <1>4, BodyMeans
  <2>4. Len(received) = sum => Rest = <<>>
    BY <1>4, <2>1, <2>2, <2>3 DEF Ahead
  <2> QED  BY <1>1, <1>2, <1>7, <2>1, <2>4 DEF HeadersKnown
<1>8. ASSUME UNCHANGED <<planVars, serverVars, arrived, received>>,
             Rest = <<>> \/ asked = Len(plan), ~ chunked,
             Exchange.framing = "length" => Len(received) = sum
      PROVE  StartInv'
  <2>1. Exchange' = Exchange /\ Rest' = Rest
    BY <1>8 DEF planVars, serverVars, Exchange, Rest
  <2> QED  BY <1>4, <1>7, <1>8, <2>1 DEF StartInv, planVars
<1>9. CASE ReceiveNormalEnds(n)
  <2>1. ~ chunked /\ length > 0 /\ index >= length
    BY <1>9 DEF ReceiveNormalEnds, Called, AllReceived
  <2>2. Len(received) = sum /\ Rest = <<>>
    BY <1>4, <1>5, <1>6, <1>7, <2>1
  <2>3. UNCHANGED <<planVars, serverVars, arrived, headVars, index, chunkVars,
                    postVars, line, received>>
        /\ pc' = "app" /\ turn' = "start" /\ last' = "END" /\ fatal' = (fatal \/ "END" = "ERROR")
        /\ room' = n /\ got' = 0
    BY <1>9 DEF ReceiveNormalEnds, Returns, TurnAfter
  <2>4. StartInv'
    BY <1>8, <2>1, <2>2, <2>3
  <2>5. Quiet
    BY <1>1, <1>2, <2>3, <2>4 DEF Quiet, TypeOK, postVars
  <2> QED  BY <2>5, QuietKeeps
<1>10. CASE ReceiveNormalFails(n)
  <2> DEFINE m == LastMsg(Bounded(n))
             r == IF m = "TIMEOUT" THEN "TIMEOUT" ELSE IF length > 0 THEN "ERROR" ELSE "END"
  <2>1. ~ chunked /\ ~ AllReceived /\ m # "OK"
    BY <1>10 DEF ReceiveNormalFails, Called
  <2>2. UNCHANGED <<planVars, serverVars, arrived, headVars, index, chunkVars,
                    postVars, line, received>>
        /\ pc' = "app" /\ turn' = TurnAfter(r) /\ last' = r /\ fatal' = (fatal \/ r = "ERROR")
        /\ room' = n /\ got' = 0
    BY <1>10 DEF ReceiveNormalFails, Returns
  <2>3. Bounded(n) \in Nat /\ Bounded(n) # 0
    BY <1>1, <2>1 DEF Bounded, AllReceived, Least, TypeOK
  <2>4. r = "END" => Rest = <<>> /\ length = 0
    <3>1. CASE m = "ERROR"
      <4>1. link = "broken"  BY <2>3, <3>1 DEF LastMsg
      <4>2. Rest = <<>>  BY <1>1, <4>1 DEF LinkInv
      <4> QED  BY <1>1, <4>2 DEF TypeOK
    <3>2. CASE m = "END"
      <4>1. arrived = <<>> /\ wire = <<>>  BY <3>2 DEF LastMsg
      <4>2. Rest = <<>>  BY <4>1 DEF Rest
      <4> QED  BY <1>1, <4>2 DEF TypeOK
    <3>3. m \in {"OK", "TIMEOUT", "END", "ERROR"}
      BY <2>3, LastMsgMeans
    <3> QED  BY <2>1, <3>1, <3>2, <3>3
  <2>5. r \in {"TIMEOUT", "ERROR", "END"}
    OBVIOUS
  <2> HIDE DEF m, r
  <2>6. r = "END" => StartInv'
    BY <1>4, <1>5, <1>6, <1>8, <2>1, <2>2, <2>4
  <2>7. Quiet
    BY <1>1, <1>2, <2>2, <2>5, <2>6 DEF Quiet, TypeOK, postVars, TurnAfter
  <2> QED  BY <2>7, QuietKeeps
<1>11. CASE ReceiveChunked(n)
  <2>1. Quiet
    BY <1>1, <1>2, <1>11 DEF ReceiveChunked, Called, Quiet, TypeOK, postVars
  <2> QED  BY <2>1, QuietKeeps
<1> QED  BY <1>9, <1>10, <1>11

-----------------------------------------------------------------------------
(* GetHeaders *)

(* Where lines end, and what the others of the tokens are.                   *)
HeadToken(e, n, p, t) ==
  /\ t \in Tokens
  /\ \/ p = 0 /\ t = Of(n, "status", n) /\ ~ IsEnd(t)
     \/ p = 2 /\ t = Of(n, FramingLine(e), DeclaredLength(e)) /\ ~ IsEnd(t)
     \/ p = 4 /\ e.etag /\ t = Of(n, "etag", n) /\ ~ IsEnd(t)
     \/ p \in {1, 3} /\ IsEnd(t)
     \/ p = 5 /\ e.etag /\ IsEnd(t)
     \/ p = 6 /\ e.etag /\ IsEnd(t)
     \/ p = 4 /\ ~ e.etag /\ IsEnd(t)

LEMMA HeadLines ==
  ASSUME NEW e \in Exchanges, NEW n \in Nat, NEW p \in 0 .. Len(HeadOf(e, n)) - 1
  PROVE  HeadToken(e, n, p, HeadOf(e, n)[p + 1])
<1> DEFINE h == HeadOf(e, n)
<1>1. /\ h \in Seq(Tokens) /\ Len(h) = (IF e.etag THEN 7 ELSE 5)
      /\ h[1] = Of(n, "status", n) /\ h[2] = Of(n, EndOfLine, 0)
      /\ h[3] = Of(n, FramingLine(e), DeclaredLength(e)) /\ h[4] = Of(n, EndOfLine, 0)
      /\ e.etag => h[5] = Of(n, "etag", n) /\ h[6] = Of(n, EndOfLine, 0)
      /\ h[Len(h)] = Of(n, EndOfLine, 0)
  BY HeadMeans
<1>2. e.etag \in BOOLEAN /\ FramingLine(e) \in {"length", "chunked", "encoded", "other"}
  BY ExchangeMeans DEF FramingLine, Framings
<1>3. /\ IsEnd(Of(n, EndOfLine, 0)) /\ ~ IsEnd(Of(n, "status", n))
      /\ ~ IsEnd(Of(n, "etag", n))
      /\ ~ IsEnd(Of(n, FramingLine(e), DeclaredLength(e)))
  BY <1>2 DEF IsEnd, Of, EndOfLine
<1> HIDE DEF h
<1>4. p \in 0 .. Len(h) - 1
  BY DEF h
<1>5. p + 1 \in 1 .. Len(h)
  BY <1>1, <1>4
<1>6. h[p + 1] \in Tokens
  BY <1>1, <1>5
<1>7. p \in {0, 1, 2, 3, 4} \/ (e.etag /\ p \in {5, 6})
  <2>1. CASE e.etag
    <3>1. p \in Int /\ 0 <= p /\ p <= 6  BY <1>1, <1>4, <2>1
    <3>2. p \in {0, 1, 2, 3, 4, 5, 6}  BY <3>1
    <3> QED  BY <2>1, <3>2
  <2>2. CASE ~ e.etag
    <3>1. p \in Int /\ 0 <= p /\ p <= 4  BY <1>1, <1>4, <2>2
    <3>2. p \in {0, 1, 2, 3, 4}  BY <3>1
    <3> QED  BY <3>2
  <2> QED  BY <2>1, <2>2
<1>8. \/ p = 0 /\ h[p + 1] = Of(n, "status", n)
      \/ p = 2 /\ h[p + 1] = Of(n, FramingLine(e), DeclaredLength(e))
      \/ p = 4 /\ e.etag /\ h[p + 1] = Of(n, "etag", n)
      \/ p \in {1, 3} /\ h[p + 1] = Of(n, EndOfLine, 0)
      \/ p = 5 /\ e.etag /\ h[p + 1] = Of(n, EndOfLine, 0)
      \/ p = 6 /\ e.etag /\ h[p + 1] = Of(n, EndOfLine, 0)
      \/ p = 4 /\ ~ e.etag /\ h[p + 1] = Of(n, EndOfLine, 0)
  BY <1>1, <1>2, <1>7
<1>9. HeadToken(e, n, p, h[p + 1])
  BY <1>3, <1>6, <1>8, Zenon DEF HeadToken
<1> QED  BY <1>9 DEF h

(* The token read next is the one of the head where the parser stands.       *)
LEMMA HeadNext ==
  ASSUME ClientInv, InHeaders, Takes(1), wire' = wire
  PROVE  /\ asked > 0 /\ asked \in Nat /\ answered = asked /\ Exchange \in Exchanges
         /\ ~ processed /\ index = 0 /\ received = <<>> /\ arrived' \in Seq(Tokens)
         /\ \E p \in 0 .. Len(HeadOf(Exchange, asked)) - 1 :
              /\ HeadRead(Exchange, p) /\ Head(arrived) = HeadOf(Exchange, asked)[p + 1]
              /\ Ahead(Rest', ResponseTo(Exchange, asked), p + 1)
<1>1. /\ TypeOK /\ PlaceInv /\ HeadInv /\ turn = "headers"
      /\ arrived \in Seq(Tokens) /\ wire \in Seq(Tokens)
  BY DEF ClientInv, TypeOK, InHeaders
<1>2. asked > 0 /\ asked \in Nat /\ answered \in 0 .. asked
  BY <1>1, PlanMeans DEF PlaceInv, TypeOK
<1>3. Exchange \in Exchanges
  BY <1>1, <1>2, AskedMeans
<1>4. PICK p \in 0 .. Len(HeadOf(Exchange, asked)) - 1 : HeadRead(Exchange, p)
  BY <1>1 DEF HeadInv
<1> DEFINE q == ResponseTo(Exchange, asked)
           h == HeadOf(Exchange, asked)
<1>5. q \in Seq(Tokens) /\ p \in Nat
  BY <1>2, <1>3, ResponseMeans
<1>6. Ahead(Rest, q, p)
  BY <1>4 DEF HeadRead
<1>7. /\ Head(arrived) = q[p + 1] /\ arrived' \in Seq(Tokens) /\ Ahead(Rest', q, p + 1)
  <2> HIDE DEF q
  <2> QED  BY <1>1, <1>5, <1>6, TookOne
<1>8. q[p + 1] = h[p + 1]
  <2>1. h \in Seq(Tokens) /\ \A j \in 1 .. Len(h) : q[j] = h[j]
    BY <1>2, <1>3, ResponseMeans, HeadMeans
  <2>2. p + 1 \in 1 .. Len(h)
    <3>1. Len(h) \in Nat /\ p \in 0 .. Len(h) - 1  BY <2>1
    <3> HIDE DEF h
    <3> QED  BY <3>1
  <2> QED  BY <2>1, <2>2
<1>9. Rest # <<>>
  <2>1. arrived # <<>>  BY DEF Takes, LastMsg
  <2> QED  BY <1>1, <2>1, RestMeans
<1>10. answered = asked
  BY <1>2, <1>4, <1>9 DEF HeadRead
<1> QED  BY <1>1, <1>2, <1>3, <1>4, <1>7, <1>8, <1>10 DEF HeadInv

LEMMA HeaderTextKeeps ==
  ASSUME ClientInv, HeaderText
  PROVE  ClientInv'
<1>1. /\ TypeOK /\ PlaceInv /\ LinkInv /\ ReceivedInv /\ HeadInv /\ turn = "headers"
      /\ InHeaders /\ Takes(1) /\ ~ IsEnd(Head(arrived))
      /\ partial' = Append(partial, Head(arrived)) /\ pc' = "headers"
  BY DEF ClientInv, HeaderText, InHeaders
<1>2. UNCHANGED <<planVars, serverVars, fatal, processed, code, etag, length, index,
                  chunkVars, postVars, room, got, line, turn, last, received>>
      /\ Exchange' = Exchange /\ wire' = wire
  BY DEF HeaderText, planVars, serverVars, Exchange
<1>3. /\ asked > 0 /\ asked \in Nat /\ answered = asked /\ Exchange \in Exchanges
      /\ ~ processed /\ index = 0 /\ received = <<>> /\ arrived' \in Seq(Tokens)
      /\ \E p \in 0 .. Len(HeadOf(Exchange, asked)) - 1 :
           /\ HeadRead(Exchange, p) /\ Head(arrived) = HeadOf(Exchange, asked)[p + 1]
           /\ Ahead(Rest', ResponseTo(Exchange, asked), p + 1)
  BY <1>1, <1>2, HeadNext
<1>4. PICK p \in 0 .. Len(HeadOf(Exchange, asked)) - 1 :
           /\ HeadRead(Exchange, p) /\ Head(arrived) = HeadOf(Exchange, asked)[p + 1]
           /\ Ahead(Rest', ResponseTo(Exchange, asked), p + 1)
  BY <1>3
<1>5. Head(arrived) \in Tokens /\ (p \in {0, 2} \/ (p = 4 /\ Exchange.etag))
  <2>1. HeadToken(Exchange, asked, p, HeadOf(Exchange, asked)[p + 1])
    BY <1>3, HeadLines, Zenon
  <2>2. HeadOf(Exchange, asked)[p + 1] = Head(arrived)
    BY <1>4
  <2>3. HeadToken(Exchange, asked, p, Head(arrived)) /\ ~ IsEnd(Head(arrived))
    BY <1>1, <2>1, <2>2, Zenon
  <2> QED  BY <2>3 DEF HeadToken
<1>6. partial = <<>> /\ partial' = <<HeadOf(Exchange, asked)[p + 1]>> /\ p + 1 \notin {0, 2, 4, 6}
  <2>1. p \in {0, 2, 4}
    BY <1>5
  <2>2. p \in {0, 2, 4, 6} /\ p + 1 \notin {0, 2, 4, 6}
    BY <2>1
  <2>3. partial = <<>>
    BY <1>4, <2>2 DEF HeadRead
  <2>4. partial' = <<Head(arrived)>>
    BY <1>1, <1>5, <2>3
  <2> QED  BY <1>4, <2>2, <2>3, <2>4
<1>7. p + 1 \in 0 .. Len(HeadOf(Exchange, asked)) - 1
  <2>1. Len(HeadOf(Exchange, asked)) = (IF Exchange.etag THEN 7 ELSE 5)
    BY <1>3, HeadMeans
  <2>2. CASE p \in {0, 2}
    <3>1. p + 1 \in {1, 3}  BY <2>2
    <3>2. 5 - 1 = 4 /\ 7 - 1 = 6 /\ 1 \in 0 .. 4 /\ 3 \in 0 .. 4 /\ 1 \in 0 .. 6 /\ 3 \in 0 .. 6
      OBVIOUS
    <3> QED  BY <2>1, <3>1, <3>2, Zenon
  <2>3. CASE p = 4 /\ Exchange.etag
    <3>1. Len(HeadOf(Exchange, asked)) = 7  BY <2>1, <2>3
    <3> QED  BY <2>3, <3>1
  <2> QED  BY <1>5, <2>2, <2>3
<1>8. HeadRead(Exchange, p + 1)'
  <2>1. /\ (p + 1 < 2) = (p < 2) /\ (p + 1 < 4) = (p < 4) /\ (p + 1 < 6) = (p < 6)
        /\ (p + 1 >= 4) = (p >= 4) /\ ~ (answered < asked)
    BY <1>3, <1>5
  <2> QED  BY <1>2, <1>4, <1>6, <2>1 DEF HeadRead, planVars, serverVars, chunkVars
<1>9. TypeOK'
  <2>1. partial' \in Seq(Tokens) /\ Len(partial') <= 1
    BY <1>4, <1>5, <1>6
  <2> QED  BY <1>1, <1>2, <1>3, <2>1 DEF TypeOK, planVars, serverVars, chunkVars, postVars
<1>10. HeadInv'
  BY <1>2, <1>3, <1>7, <1>8 DEF HeadInv, planVars
<1>11. /\ PlaceInv' /\ ReceivedInv' /\ PlainInv' /\ ChunksInv' /\ StartInv'
       /\ (turn' = "body" => processed' /\ HeadersKnown(Exchange)')
  BY <1>1, <1>2, <1>3
     DEF PlaceInv, ReceivedInv, PlainInv, ChunksInv, StartInv, planVars, serverVars
<1>12. LinkInv'
  BY <1>1, <1>2 DEF LinkInv, Takes, LastMsg, serverVars
<1> QED  BY <1>9, <1>10, <1>11, <1>12 DEF ClientInv

(* What ProcessHeader makes of a line of the head.                           *)
LEMMA HeaderMeans ==
  ASSUME TypeOK, NEW e \in Exchanges, NEW p \in {1, 3, 5}, HeadRead(e, p),
         p = 5 => e.etag, asked \in Nat, ProcessHeader(HeadOf(e, asked)[p])
  PROVE  LET h == HeadOf(e, asked)[p] IN
         /\ code' = asked
         /\ length' = (IF p < 3 THEN 0 ELSE DeclaredLength(e))
         /\ chunked' = (p >= 3 /\ e.framing = "chunked")
         /\ chunked' => stat' = "SIZE" /\ sizeLine' = <<>>
         /\ ~ Acceptable(h) <=> p = 3 /\ e.framing = "encoded"
         /\ etag' = (IF p < 5 THEN 0 ELSE asked)
         /\ stat' \in {"SIZE", "DATA", "END"} /\ sizeLine' \in Seq(Nat)
         /\ chunkSize' \in Nat /\ chunkIndex' \in 0 .. chunkSize'
<1> DEFINE h == HeadOf(e, asked)[p]
<1>1. /\ e.framing \in Framings /\ DeclaredLength(e) \in Nat
      /\ p = 1 => h = Of(asked, "status", asked)
      /\ p = 3 => h = Of(asked, FramingLine(e), DeclaredLength(e))
      /\ p = 5 => h = Of(asked, "etag", asked)
  BY ExchangeMeans, HeadMeans
<1>2. /\ code' = IF h.kind = "status" THEN h.val ELSE code
      /\ length' = IF h.kind = "length" THEN h.val ELSE length
      /\ etag' = IF h.kind = "etag" THEN h.val ELSE etag
      /\ h.kind = "chunked" => /\ chunked' = TRUE /\ stat' = "SIZE" /\ sizeLine' = <<>>
                               /\ chunkSize' = 0 /\ chunkIndex' = 0
      /\ h.kind # "chunked" => UNCHANGED chunkVars
  BY DEF ProcessHeader
<1>3. /\ code = (IF p < 2 THEN 0 ELSE asked)
      /\ length = (IF p < 4 THEN 0 ELSE DeclaredLength(e))
      /\ chunked = (p >= 4 /\ e.framing = "chunked")
      /\ chunked => stat = "SIZE" /\ sizeLine = <<>>
      /\ p >= 4 => e.framing # "encoded"
      /\ etag = (IF p < 6 THEN 0 ELSE asked)
  BY DEF HeadRead
<1>4. Acceptable(h) <=> h.kind # "encoded"
  BY DEF Acceptable
<1>5. stat \in {"SIZE", "DATA", "END"} /\ sizeLine \in Seq(Nat)
      /\ chunkSize \in Nat /\ chunkIndex \in 0 .. chunkSize
  BY DEF TypeOK
<1> HIDE DEF h
<1>6. /\ stat' \in {"SIZE", "DATA", "END"} /\ sizeLine' \in Seq(Nat)
      /\ chunkSize' \in Nat /\ chunkIndex' \in 0 .. chunkSize'
  <2>1. CASE h.kind = "chunked"
    <3>1. stat' = "SIZE" /\ sizeLine' = <<>> /\ chunkSize' = 0 /\ chunkIndex' = 0
      BY <1>2, <2>1
    <3>2. <<>> \in Seq(Nat)
      OBVIOUS
    <3> QED  BY <3>1, <3>2
  <2>2. CASE h.kind # "chunked"
    BY <1>2, <1>5, <2>2 DEF chunkVars
  <2> QED  BY <2>1, <2>2
<1>7. CASE p = 1
  <2>1. h.kind = "status" /\ h.val = asked
    BY <1>1, <1>7 DEF Of
  <2>2. code' = asked /\ length' = 0 /\ Acceptable(h) /\ etag' = 0
    BY <1>2, <1>3, <1>4, <1>7, <2>1
  <2>3. ~ chunked /\ chunked' = chunked
    <3>1. ~ (p >= 4) /\ h.kind # "chunked"  BY <1>7, <2>1
    <3>2. UNCHANGED chunkVars  BY <1>2, <3>1
    <3>3. ~ chunked  BY <1>3, <3>1, Zenon
    <3> QED  BY <3>2, <3>3 DEF chunkVars
  <2>4. chunked' = (p >= 3 /\ e.framing = "chunked")
    BY <1>3, <1>7, <2>3
  <2>5. ~ chunked' /\ p < 3 /\ p # 3 /\ p < 5
    BY <1>7, <2>3
  <2> QED  BY <1>6, <2>2, <2>4, <2>5 DEF h
<1>8. CASE p = 3
  <2>1. h.kind = FramingLine(e) /\ h.val = DeclaredLength(e)
    BY <1>1, <1>8 DEF Of
  <2>2. /\ h.kind \in {"length", "chunked", "encoded", "other"}
        /\ h.kind = "length" <=> e.framing = "length"
        /\ h.kind = "chunked" <=> e.framing = "chunked"
        /\ h.kind = "encoded" <=> e.framing = "encoded"
    BY <1>1, <2>1 DEF FramingLine, Framings
  <2>3. code' = asked /\ etag' = 0
    BY <1>2, <1>3, <1>8, <2>2
  <2>4. length' = DeclaredLength(e)
    BY <1>2, <1>3, <1>8, <2>1, <2>2 DEF DeclaredLength
  <2>5. /\ chunked' = (e.framing = "chunked")
        /\ chunked' => stat' = "SIZE" /\ sizeLine' = <<>>
    BY <1>2, <1>3, <1>8, <2>2 DEF chunkVars
  <2>6. Acceptable(h) <=> e.framing # "encoded"
    BY <1>4, <2>2
  <2> QED  BY <1>6, <1>8, <2>3, <2>4, <2>5, <2>6 DEF h
<1>9. CASE p = 5
  <2>1. h.kind = "etag" /\ h.val = asked
    BY <1>1, <1>9 DEF Of
  <2>2. code' = asked /\ length' = DeclaredLength(e) /\ etag' = asked /\ Acceptable(h)
    BY <1>2, <1>3, <1>4, <1>9, <2>1
  <2>3. /\ chunked' = (e.framing = "chunked")
        /\ chunked' => stat' = "SIZE" /\ sizeLine' = <<>>
    BY <1>2, <1>3, <1>9, <2>1 DEF chunkVars
  <2> QED  BY <1>6, <1>9, <2>2, <2>3 DEF h
<1> QED  BY <1>7, <1>8, <1>9

LEMMA HeaderLineKeeps ==
  ASSUME ClientInv, HeaderLine
  PROVE  ClientInv'
<1>1. /\ TypeOK /\ PlaceInv /\ LinkInv /\ ReceivedInv /\ turn = "headers"
      /\ InHeaders /\ Takes(1) /\ IsEnd(Head(arrived))
      /\ partial # <<>> /\ ProcessHeader(Head(partial))
  BY DEF ClientInv, HeaderLine, InHeaders
<1>2. UNCHANGED <<planVars, serverVars, processed, index, postVars, room, got, line,
                  received>>
      /\ Exchange' = Exchange /\ wire' = wire
  BY DEF HeaderLine, planVars, serverVars, Exchange
<1>3. /\ asked > 0 /\ asked \in Nat /\ answered = asked /\ Exchange \in Exchanges
      /\ ~ processed /\ index = 0 /\ received = <<>> /\ arrived' \in Seq(Tokens)
      /\ \E p \in 0 .. Len(HeadOf(Exchange, asked)) - 1 :
           /\ HeadRead(Exchange, p) /\ Head(arrived) = HeadOf(Exchange, asked)[p + 1]
           /\ Ahead(Rest', ResponseTo(Exchange, asked), p + 1)
  BY <1>1, <1>2, HeadNext
<1>4. PICK p \in 0 .. Len(HeadOf(Exchange, asked)) - 1 :
           /\ HeadRead(Exchange, p) /\ Head(arrived) = HeadOf(Exchange, asked)[p + 1]
           /\ Ahead(Rest', ResponseTo(Exchange, asked), p + 1)
  BY <1>3
<1>5. /\ partial = <<HeadOf(Exchange, asked)[p]>> /\ p \notin {0, 2, 4, 6}
      /\ Head(partial) = HeadOf(Exchange, asked)[p]
  BY <1>1, <1>4 DEF HeadRead
<1>6. p \in {1, 3, 5} /\ (p = 5 => Exchange.etag)
  <2>1. HeadToken(Exchange, asked, p, HeadOf(Exchange, asked)[p + 1])
    BY <1>3, HeadLines, Zenon
  <2> QED  BY <1>5, <2>1 DEF HeadToken
<1> DEFINE h == HeadOf(Exchange, asked)[p]
<1>7. /\ code' = asked
      /\ length' = (IF p < 3 THEN 0 ELSE DeclaredLength(Exchange))
      /\ chunked' = (p >= 3 /\ Exchange.framing = "chunked")
      /\ chunked' => stat' = "SIZE" /\ sizeLine' = <<>>
      /\ ~ Acceptable(h) <=> p = 3 /\ Exchange.framing = "encoded"
      /\ etag' = (IF p < 5 THEN 0 ELSE asked)
      /\ stat' \in {"SIZE", "DATA", "END"} /\ sizeLine' \in Seq(Nat)
      /\ chunkSize' \in Nat /\ chunkIndex' \in 0 .. chunkSize'
  <2>1. ProcessHeader(HeadOf(Exchange, asked)[p])
    BY <1>1, <1>5
  <2> QED  BY <1>1, <1>3, <1>4, <1>6, <2>1, HeaderMeans
<1>8. DeclaredLength(Exchange) \in Nat /\ p \in Nat
  BY <1>3, ExchangeMeans
<1>9. length' \in Nat /\ etag' \in Nat /\ chunked' \in BOOLEAN
  BY <1>3, <1>7, <1>8
<1>10. \/ Acceptable(h) /\ partial' = <<>> /\ pc' = "headers" /\ UNCHANGED <<fatal, turn, last>>
       \/ /\ ~ Acceptable(h) /\ partial' = partial /\ pc' = "app" /\ fatal' = TRUE
          /\ turn' = "stop" /\ last' = "ERROR"
  BY <1>5 DEF HeaderLine, ClearedPartial
<1> HIDE DEF h
<1>11. TypeOK'
  <2>1. /\ partial' \in Seq(Tokens) /\ Len(partial') <= 1
        /\ pc' \in {"app", "headers"} /\ fatal' \in BOOLEAN
        /\ turn' \in {"headers", "stop"} /\ last' \in {"OK", "TIMEOUT", "END", "ERROR"}
    <3>1. <<>> \in Seq(Tokens) /\ Len(<<>>) <= 1
      OBVIOUS
    <3>2. partial \in Seq(Tokens) /\ Len(partial) <= 1 /\ fatal \in BOOLEAN
          /\ last \in {"OK", "TIMEOUT", "END", "ERROR"}
      BY <1>1 DEF TypeOK
    <3>3. partial' \in Seq(Tokens) /\ Len(partial') <= 1
      <4>1. partial' = <<>> \/ partial' = partial  BY <1>10
      <4> QED  BY <3>1, <3>2, <4>1, Zenon
    <3> QED  BY <1>1, <1>10, <3>2, <3>3
  <2>2. index' \in 0 .. length'
    BY <1>2, <1>3, <1>9
  <2>3. /\ code' \in Nat /\ etag' \in Nat /\ length' \in Nat /\ chunked' \in BOOLEAN
        /\ stat' \in {"SIZE", "DATA", "END"} /\ sizeLine' \in Seq(Nat)
        /\ chunkSize' \in Nat /\ chunkIndex' \in 0 .. chunkSize'
    BY <1>3, <1>7, <1>9
  <2> QED  BY <1>1, <1>2, <1>3, <2>1, <2>2, <2>3 DEF TypeOK, planVars, serverVars, postVars
<1>12. /\ PlaceInv' /\ ReceivedInv' /\ PlainInv' /\ ChunksInv' /\ StartInv'
       /\ (turn' = "body" => processed' /\ HeadersKnown(Exchange)')
  BY <1>1, <1>2, <1>3, <1>10
     DEF PlaceInv, ReceivedInv, PlainInv, ChunksInv, StartInv, planVars, serverVars
<1>13. LinkInv'
  BY <1>1, <1>2 DEF LinkInv, Takes, LastMsg, serverVars
<1>14. HeadInv'
  <2> SUFFICES ASSUME Acceptable(h), partial' = <<>>, turn' = "headers" PROVE HeadInv'
    BY <1>1, <1>10 DEF HeadInv
  <2>1. p + 1 \in 0 .. Len(HeadOf(Exchange, asked)) - 1
    <3>1. Len(HeadOf(Exchange, asked)) = (IF Exchange.etag THEN 7 ELSE 5)
      BY <1>3, HeadMeans
    <3>2. CASE Exchange.etag
      <4>1. Len(HeadOf(Exchange, asked)) = 7  BY <3>1, <3>2
      <4>2. p + 1 \in {2, 4, 6}  BY <1>6
      <4> QED  BY <4>1, <4>2
    <3>3. CASE ~ Exchange.etag
      <4>1. Len(HeadOf(Exchange, asked)) = 5  BY <3>1, <3>3
      <4>2. p + 1 \in {2, 4}  BY <1>6, <3>3
      <4> QED  BY <4>1, <4>2
    <3> QED  BY <3>2, <3>3
  <2>2. /\ p + 1 \in {0, 2, 4, 6} /\ ~ (p + 1 < 2) /\ (p + 1 < 4) = (p < 3)
        /\ (p + 1 >= 4) = (p >= 3) /\ (p + 1 < 6) = (p < 5)
    BY <1>6
  <2>3. p >= 3 => Exchange.framing # "encoded"
    <3>1. CASE p = 3  BY <1>7, <3>1
    <3>2. CASE p = 5  BY <1>4, <3>2 DEF HeadRead
    <3> QED  BY <1>6, <3>1, <3>2
  <2>4. /\ answered' = answered /\ asked' = asked /\ ~ (answered < asked)
    BY <1>2, <1>3 DEF planVars, serverVars
  <2>5. HeadRead(Exchange, p + 1)'
    BY <1>2, <1>4, <1>7, <2>2, <2>3, <2>4 DEF HeadRead
  <2> QED  BY <1>2, <1>3, <2>1, <2>4, <2>5 DEF HeadInv
<1> QED  BY <1>11, <1>12, <1>13, <1>14 DEF ClientInv

(* After the head comes what follows it.                                     *)
LEMMA AheadOfBody ==
  ASSUME NEW e \in Exchanges, NEW n \in Nat, NEW rest \in Seq(Tokens),
         Ahead(rest, ResponseTo(e, n), Len(HeadOf(e, n)))
  PROVE  Ahead(rest, BodyPart(e, n), 0)
<1> DEFINE q == ResponseTo(e, n)
           h == HeadOf(e, n)
           b == BodyPart(e, n)
<1>1. /\ q \in Seq(Tokens) /\ b \in Seq(Tokens) /\ Len(q) = Len(h) + Len(b)
      /\ \A j \in 1 .. Len(b) : q[Len(h) + j] = b[j]
  BY ResponseMeans
<1>2. h \in Seq(Tokens)
  BY HeadMeans
<1>3. Len(rest) <= Len(q) - Len(h) /\ \A j \in 1 .. Len(rest) : rest[j] = q[Len(h) + j]
  BY DEF Ahead
<1> HIDE DEF q, h, b
<1>4. Len(rest) <= Len(b)
  BY <1>1, <1>2, <1>3
<1>5. ASSUME NEW j \in 1 .. Len(rest) PROVE rest[j] = b[0 + j]
  <2>1. j \in 1 .. Len(b) /\ 0 + j = j  BY <1>1, <1>4
  <2> QED  BY <1>1, <1>3, <2>1
<1>6. Len(rest) <= Len(b) - 0
  BY <1>1, <1>4
<1>7. Ahead(rest, b, 0)
  BY <1>5, <1>6 DEF Ahead
<1> QED  BY <1>7 DEF b

LEMMA HeadersEndKeeps ==
  ASSUME ClientInv, HeadersEnd
  PROVE  ClientInv'
<1>1. /\ TypeOK /\ PlaceInv /\ LinkInv /\ ReceivedInv /\ turn = "headers"
      /\ InHeaders /\ Takes(1) /\ IsEnd(Head(arrived)) /\ partial = <<>>
      /\ processed' = TRUE /\ pc' = "app" /\ last' = "OK"
      /\ turn' = IF Exchange.method = "HEAD" THEN "start" ELSE "body"
  BY DEF ClientInv, HeadersEnd, InHeaders, AfterHeaders
<1>2. UNCHANGED <<planVars, serverVars, fatal, partial, code, etag, length, index,
                  chunkVars, postVars, room, got, line, received>>
      /\ Exchange' = Exchange /\ wire' = wire
  BY DEF HeadersEnd, planVars, serverVars, Exchange
<1>3. /\ asked > 0 /\ asked \in Nat /\ answered = asked /\ Exchange \in Exchanges
      /\ ~ processed /\ index = 0 /\ received = <<>> /\ arrived' \in Seq(Tokens)
      /\ \E p \in 0 .. Len(HeadOf(Exchange, asked)) - 1 :
           /\ HeadRead(Exchange, p) /\ Head(arrived) = HeadOf(Exchange, asked)[p + 1]
           /\ Ahead(Rest', ResponseTo(Exchange, asked), p + 1)
  BY <1>1, <1>2, HeadNext
<1>4. PICK p \in 0 .. Len(HeadOf(Exchange, asked)) - 1 :
           /\ HeadRead(Exchange, p) /\ Head(arrived) = HeadOf(Exchange, asked)[p + 1]
           /\ Ahead(Rest', ResponseTo(Exchange, asked), p + 1)
  BY <1>3
<1>5. /\ p = (IF Exchange.etag THEN 6 ELSE 4) /\ p + 1 = Len(HeadOf(Exchange, asked))
  <2>1. HeadToken(Exchange, asked, p, HeadOf(Exchange, asked)[p + 1])
    BY <1>3, HeadLines, Zenon
  <2>2. p \notin {1, 3, 5}
    <3>1. SUFFICES ASSUME p \in {1, 3, 5} PROVE FALSE
      OBVIOUS
    <3>2. p \notin {0, 2, 4, 6}  BY <3>1
    <3>3. partial = <<HeadOf(Exchange, asked)[p]>>  BY <1>4, <3>2 DEF HeadRead
    <3> QED  BY <1>1, <3>3
  <2>3. \/ p = 6 /\ Exchange.etag
        \/ p = 4 /\ ~ Exchange.etag
    BY <1>1, <1>4, <2>1, <2>2 DEF HeadToken
  <2>4. Len(HeadOf(Exchange, asked)) = (IF Exchange.etag THEN 7 ELSE 5)
    BY <1>3, HeadMeans
  <2> QED  BY <2>3, <2>4
<1>6. /\ code = asked /\ length = DeclaredLength(Exchange)
      /\ chunked = (Exchange.framing = "chunked")
      /\ chunked => stat = "SIZE" /\ sizeLine = <<>>
      /\ Exchange.framing # "encoded"
      /\ etag = (IF Exchange.etag THEN asked ELSE 0)
  <2>1. p >= 4 /\ ~ (p < 2) /\ ~ (p < 4) /\ (p < 6) = ~ Exchange.etag
    BY <1>5
  <2> QED  BY <1>4, <2>1 DEF HeadRead
<1>7. Rest' \in Seq(Tokens)
  <2>1. wire' \in Seq(Tokens)  BY <1>1, <1>2 DEF TypeOK
  <2> QED  BY <1>3, <2>1 DEF Rest
<1>8. Ahead(Rest', BodyPart(Exchange, asked), 0)
  <2>1. Ahead(Rest', ResponseTo(Exchange, asked), Len(HeadOf(Exchange, asked)))
    BY <1>4, <1>5
  <2> QED  BY <1>3, <1>7, <2>1, AheadOfBody
<1>9. TypeOK'
  <2>1. turn' \in {"start", "body"}
    BY <1>1
  <2> QED  BY <1>1, <1>2, <1>3, <2>1 DEF TypeOK, planVars, serverVars, chunkVars, postVars
<1>10. PlaceInv' /\ ReceivedInv' /\ HeadInv'
  BY <1>1, <1>2, <1>3 DEF PlaceInv, ReceivedInv, HeadInv, planVars, serverVars
<1>11. LinkInv'
  BY <1>1, <1>2 DEF LinkInv, Takes, LastMsg, serverVars
<1>12. Len(received') = 0 /\ received' = <<>> /\ asked' = asked
  BY <1>2, <1>3 DEF planVars
<1>13. turn' = "body" => processed' /\ HeadersKnown(Exchange)'
  BY <1>1, <1>2, <1>6, <1>12 DEF HeadersKnown, chunkVars
<1>14. PlainInv'
  <2> SUFFICES ASSUME turn' = "body", ~ chunked' PROVE PlainInv'
    BY DEF PlainInv
  <2>1. Exchange.method # "HEAD" /\ Exchange.framing # "chunked"
    BY <1>1, <1>2, <1>6 DEF chunkVars
  <2>2. Ahead(Rest', Body(Exchange, asked), 0)
    BY <1>8, <2>1 DEF BodyPart
  <2> QED  BY <1>2, <1>3, <1>12, <2>2 DEF PlainInv
<1>15. ChunksInv'
  <2> SUFFICES ASSUME turn' = "body", chunked' PROVE ChunksInv'
    BY DEF ChunksInv
  <2>1. Exchange.method # "HEAD" /\ Exchange.framing = "chunked" /\ chunked
    BY <1>1, <1>2, <1>6 DEF chunkVars
  <2>2. Ahead(Rest', ChunksFrom(Exchange, asked)[1], 0)
    BY <1>8, <2>1 DEF BodyPart
  <2>3. stat' = "SIZE" /\ sizeLine' = <<>>
    BY <1>2, <1>6, <2>1 DEF chunkVars
  <2>4. Before(Exchange.body)[1] = 0 /\ 1 \in 1 .. Len(Exchange.body) + 1
    BY <1>3, ExchangeMeans, BeforeMeans
  <2>5. AtSize(Exchange, 1)'
    BY <1>2, <1>12, <2>2, <2>3, <2>4 DEF AtSize
  <2> QED  BY <1>1, <1>2, <2>3, <2>4, <2>5 DEF ChunksInv
<1>16. StartInv'
  <2> SUFFICES ASSUME turn' = "start" PROVE StartInv'
    BY DEF StartInv
  <2>1. Exchange.method = "HEAD"
    BY <1>1
  <2>2. Ahead(Rest', <<>>, 0)
    BY <1>8, <2>1 DEF BodyPart
  <2>3. Rest' = <<>>
    BY <1>7, <2>2 DEF Ahead
  <2> QED  BY <1>2, <2>1, <2>3 DEF StartInv
<1> QED  BY <1>9, <1>10, <1>11, <1>13, <1>14, <1>15, <1>16 DEF ClientInv

-----------------------------------------------------------------------------
(* A body by length, or until the server closes *)

(* What is added to a beginning of the body where it stops.                  *)
LEMMA ReceivedMore ==
  ASSUME NEW n \in Nat, NEW r \in Seq(Tokens), r = Units(n, 0, Len(r)),
         NEW f \in Seq(Tokens), \A j \in 1 .. Len(f) : f[j] = Of(n, "unit", Len(r) + j)
  PROVE  r \o f = Units(n, 0, Len(r \o f))
<1> DEFINE a == Len(r)
           u == Units(n, 0, a)
<1>1. a \in Nat /\ Len(f) \in Nat /\ Len(r \o f) = a + Len(f) /\ r \o f \in Seq(Tokens)
  OBVIOUS
<1>2. PICK b \in Nat : b = a + Len(f)
  BY <1>1
<1>3. /\ Units(n, 0, a) \in Seq(Tokens) /\ Len(Units(n, 0, a)) = a - 0
      /\ \A i \in 1 .. a - 0 : Units(n, 0, a)[i] = Of(n, "unit", 0 + i)
  <2>1. 0 \in Nat /\ 0 <= a  BY <1>1
  <2> HIDE DEF a
  <2> QED  BY <1>1, <2>1, UnitsMeans, Zenon
<1>4. /\ Units(n, 0, b) \in Seq(Tokens) /\ Len(Units(n, 0, b)) = b - 0
      /\ \A i \in 1 .. b - 0 : Units(n, 0, b)[i] = Of(n, "unit", 0 + i)
  <2>1. 0 \in Nat /\ 0 <= b  BY <1>2
  <2> QED  BY <1>2, <2>1, UnitsMeans, Zenon
<1>5. ASSUME NEW i \in 1 .. a PROVE r[i] = Of(n, "unit", i)
  BY <1>1, <1>3
<1>6. ASSUME NEW i \in 1 .. b PROVE (r \o f)[i] = Of(n, "unit", i)
  <2>1. CASE i \in 1 .. a
    <3>1. (r \o f)[i] = r[i]  BY <2>1
    <3> QED  BY <1>5, <2>1, <3>1
  <2>2. CASE i \notin 1 .. a
    <3>1. PICK j \in 1 .. Len(f) : i = a + j
      <4>1. i - a \in 1 .. Len(f) /\ i = a + (i - a)  BY <1>1, <1>2, <2>2
      <4> QED  BY <4>1
    <3>2. (r \o f)[i] = f[j]  BY <1>1, <3>1
    <3> QED  BY <3>1, <3>2
  <2> QED  BY <2>1, <2>2
<1>7. \A i \in 1 .. b : Units(n, 0, b)[i] = Of(n, "unit", i)
  BY <1>2, <1>4
<1>8. Len(Units(n, 0, b)) = b /\ Len(r \o f) = b /\ Units(n, 0, b) \in Seq(Tokens)
  BY <1>1, <1>2, <1>4
<1>9. r \o f = Units(n, 0, b)
  <2> DEFINE x == r \o f
             y == Units(n, 0, b)
  <2>1. x \in Seq(Tokens) /\ y \in Seq(Tokens) /\ Len(x) = b /\ Len(y) = b
        /\ \A i \in 1 .. b : x[i] = y[i]
    BY <1>1, <1>6, <1>7, <1>8
  <2> HIDE DEF x, y
  <2>2. x = y  BY <2>1
  <2> QED  BY <2>2 DEF x, y
<1> QED  BY <1>8, <1>9

LEMMA ReceiveNormalKeeps ==
  ASSUME ClientInv, NEW n \in Rooms, ReceiveNormal(n)
  PROVE  ClientInv'
<1>1. /\ TypeOK /\ PlaceInv /\ LinkInv /\ ReceivedInv /\ PlainInv /\ n \in Nat
      /\ pc = "app" /\ turn = "body" /\ ~ chunked /\ ~ AllReceived
      /\ processed /\ HeadersKnown(Exchange)
      /\ arrived \in Seq(Tokens) /\ wire \in Seq(Tokens) /\ received \in Seq(Tokens)
  BY ClientAssumption DEF ClientInv, ReceiveNormal, Called, TypeOK
<1> DEFINE m == Bounded(n)
           k == Taken(m)
<1>2. /\ Takes(m) /\ room' = n /\ got' = k /\ received' = received \o Found(m)
      /\ index' = IF length > 0 THEN index + k ELSE index
      /\ pc' = "app" /\ turn' = "body" /\ last' = "OK" /\ fatal' = (fatal \/ "OK" = "ERROR")
  BY DEF ReceiveNormal, Returns, TurnAfter
<1>3. UNCHANGED <<planVars, serverVars, headVars, chunkVars, postVars, line>>
      /\ Exchange' = Exchange /\ wire' = wire /\ asked' = asked
  BY DEF ReceiveNormal, planVars, serverVars, Exchange
<1>4. asked > 0 /\ asked \in Nat /\ Exchange \in Exchanges
  <2>1. asked \in Nat  BY <1>1, PlanMeans DEF TypeOK
  <2>2. asked > 0  BY <1>1, <2>1 DEF PlaceInv
  <2> QED  BY <1>1, <2>1, <2>2, AskedMeans
<1>5. PICK sum \in Nat : sum = SumOf(Exchange.body)
  BY <1>4, BodyMeans
<1>6. PICK at \in Nat : at = Len(received)
  BY <1>1
<1>7. /\ Ahead(Rest, Body(Exchange, asked), at)
      /\ index = IF length > 0 THEN at ELSE 0
  BY <1>1, <1>6 DEF PlainInv
<1>8. m \in Nat /\ (length > 0 => m <= length - index)
  BY <1>1 DEF Bounded, AllReceived, Least, TypeOK
<1> HIDE DEF m
<1> DEFINE q == Body(Exchange, asked)
<1>9. /\ q \in Seq(Tokens) /\ Len(q) = sum
      /\ \A j \in 1 .. sum : q[j] = Of(asked, "unit", j)
  BY <1>4, <1>5, BodyMeans
<1> HIDE DEF q
<1>10. /\ k \in 1 .. m /\ k + at <= Len(q)
       /\ Found(m) \in Seq(Tokens) /\ Len(Found(m)) = k
       /\ \A j \in 1 .. k : Found(m)[j] = q[at + j]
       /\ arrived' \in Seq(Tokens)
       /\ Ahead(Rest', q, at + k)
  <2>1. Ahead(Rest, q, at)  BY <1>7 DEF q
  <2> QED  BY <1>1, <1>2, <1>3, <1>6, <1>8, <1>9, <2>1, Took
<1> HIDE DEF k
<1>11. /\ received' \in Seq(Tokens) /\ Len(received') = at + k /\ at + k <= sum
       /\ received' = Units(asked, 0, Len(received'))
  <2>1. ASSUME NEW j \in 1 .. Len(Found(m))
        PROVE  Found(m)[j] = Of(asked, "unit", Len(received) + j)
    <3>1. j \in 1 .. k /\ at + j \in 1 .. sum  BY <1>6, <1>9, <1>10
    <3> QED  BY <1>6, <1>9, <1>10, <3>1
  <2>2. received = Units(asked, 0, Len(received))
    BY <1>1, <1>4 DEF ReceivedInv
  <2>3. received \o Found(m) = Units(asked, 0, Len(received \o Found(m)))
    BY <1>1, <1>4, <1>10, <2>1, <2>2, ReceivedMore
  <2>4. Len(received \o Found(m)) = at + k /\ received \o Found(m) \in Seq(Tokens)
    <3>1. PICK f \in Seq(Tokens) : f = Found(m)  BY <1>10
    <3>2. Len(received \o f) = Len(received) + Len(f) /\ received \o f \in Seq(Tokens)
      BY <1>1
    <3> QED  BY <1>6, <1>10, <3>1, <3>2
  <2> QED  BY <1>2, <1>9, <1>10, <2>3, <2>4
<1>12. TypeOK'
  <2>1. index' \in 0 .. length'
    BY <1>1, <1>2, <1>3, <1>8, <1>10 DEF TypeOK, headVars
  <2>2. got' \in Nat /\ room' \in Nat /\ fatal' \in BOOLEAN
    BY <1>1, <1>2, <1>8, <1>10 DEF TypeOK
  <2> QED  BY <1>1, <1>2, <1>3, <1>10, <1>11, <2>1, <2>2
           DEF TypeOK, planVars, serverVars, headVars, chunkVars, postVars
<1>13. ReceivedInv'
  BY <1>3, <1>5, <1>11 DEF ReceivedInv
<1>14. PlainInv'
  <2>1. Ahead(Rest', q, Len(received'))  BY <1>10, <1>11
  <2>2. length' = length  BY <1>3 DEF headVars
  <2>3. index' = IF length' > 0 THEN Len(received') ELSE 0
    BY <1>2, <1>7, <1>11, <2>2
  <2>4. q' = q
    BY <1>3 DEF q
  <2> QED  BY <2>1, <2>3, <2>4 DEF PlainInv, q
<1>15. PlaceInv' /\ HeadInv' /\ ChunksInv' /\ StartInv'
  BY <1>1, <1>2, <1>3 DEF PlaceInv, HeadInv, ChunksInv, StartInv, chunkVars, serverVars
<1>16. LinkInv'
  <2>1. link # "broken"  BY <1>2 DEF Takes, LastMsg
  <2> QED  BY <1>3, <2>1 DEF LinkInv, serverVars
<1>17. processed' /\ HeadersKnown(Exchange)'
  BY <1>1, <1>3 DEF HeadersKnown, headVars, chunkVars
<1> QED  BY <1>12, <1>13, <1>14, <1>15, <1>16, <1>17 DEF ClientInv

-----------------------------------------------------------------------------
(* A body in chunks *)

(* No chunk reaches beyond the body.                                         *)
LEMMA BeforeBound ==
  ASSUME NEW e \in Exchanges, NEW i \in 1 .. Len(e.body) + 1
  PROVE  /\ Before(e.body)[i] \in Nat /\ SizeOf(e, i) \in Nat
         /\ Before(e.body)[i] + SizeOf(e, i) <= SumOf(e.body)
         /\ SumOf(e.body) \in Nat
<1> DEFINE m == Len(e.body)
           b == Before(e.body)
<1>1. /\ m \in Nat /\ \A j \in 1 .. m : e.body[j] \in Nat
      /\ \A j \in 1 .. m + 1 : b[j] \in Nat
      /\ \A j \in 1 .. m : b[j + 1] = b[j] + e.body[j]
      /\ SumOf(e.body) = b[m + 1] /\ SumOf(e.body) \in Nat
  BY ExchangeMeans, BeforeMeans, SumMeans
<1> HIDE DEF m, b
<1> DEFINE Odd == {d \in 0 .. m : ~ (b[m + 1 - d] <= b[m + 1])}
<1>2. Odd = {}
  <2>1. SUFFICES ASSUME Odd # {} PROVE FALSE
    OBVIOUS
  <2>2. PICK d \in Odd : \A y \in Odd : d <= y
    <3>1. Odd \in SUBSET Nat  BY <1>1
    <3> HIDE DEF Odd
    <3> QED  BY <2>1, <3>1, LeastOne
  <2>3. d \in 0 .. m /\ ~ (b[m + 1 - d] <= b[m + 1])
    BY <2>2
  <2>4. d # 0
    <3>1. m + 1 - 0 = m + 1 /\ m + 1 \in 1 .. m + 1  BY <1>1
    <3>2. b[m + 1] \in Nat  BY <1>1, <3>1
    <3> QED  BY <2>3, <3>1, <3>2
  <2>5. PICK c \in 0 .. m : c = d - 1 /\ ~ (d <= c)
    <3>1. d - 1 \in 0 .. m /\ ~ (d <= d - 1)  BY <1>1, <2>3, <2>4
    <3> QED  BY <3>1
  <2>6. c \notin Odd
    <3> HIDE DEF Odd
    <3> QED  BY <2>2, <2>5
  <2>7. b[m + 1 - c] <= b[m + 1]
    BY <2>5, <2>6
  <2>8. PICK j \in 1 .. m : j = m + 1 - d /\ j + 1 = m + 1 - c
    <3>1. m + 1 - d \in 1 .. m /\ (m + 1 - d) + 1 = m + 1 - c  BY <1>1, <2>3, <2>4, <2>5
    <3> QED  BY <3>1
  <2>9. b[j + 1] = b[j] + e.body[j] /\ e.body[j] \in Nat
    BY <1>1
  <2>10. b[j] \in Nat /\ b[j + 1] \in Nat /\ b[m + 1] \in Nat
    <3>1. j \in 1 .. m + 1 /\ j + 1 \in 1 .. m + 1 /\ m + 1 \in 1 .. m + 1  BY <1>1
    <3> QED  BY <1>1, <3>1
  <2> QED  BY <2>3, <2>7, <2>8, <2>9, <2>10
<1>3. ASSUME NEW j \in 1 .. m + 1 PROVE b[j] <= b[m + 1]
  <2>1. m + 1 - j \in 0 .. m /\ m + 1 - (m + 1 - j) = j  BY <1>1
  <2>2. m + 1 - j \notin Odd  BY <1>2
  <2> QED  BY <2>1, <2>2
<1>4. i \in 1 .. m + 1
  BY DEF m
<1>5. CASE i = m + 1
  <2>1. SizeOf(e, i) = 0  BY <1>5 DEF SizeOf, m
  <2>2. b[i] \in Nat /\ b[i] + SizeOf(e, i) <= SumOf(e.body)
    BY <1>1, <1>4, <1>5, <2>1
  <2> QED  BY <1>1, <2>1, <2>2 DEF b
<1>6. CASE i # m + 1
  <2>1. i \in 1 .. m /\ i + 1 \in 1 .. m + 1  BY <1>1, <1>4, <1>6
  <2>2. SizeOf(e, i) = e.body[i]  BY <1>6 DEF SizeOf, m
  <2>3. b[i] \in Nat /\ b[i + 1] \in Nat /\ b[i + 1] = b[i] + e.body[i] /\ b[i + 1] <= b[m + 1]
        /\ e.body[i] \in Nat
    BY <1>1, <1>3, <1>4, <2>1
  <2> QED  BY <1>1, <2>2, <2>3 DEF b
<1> QED  BY <1>5, <1>6

(* In the loop, the response is in chunks, and its head is known.            *)
InChunks ==
  /\ turn = "body" /\ chunked /\ processed /\ HeadersKnown(Exchange)
  /\ asked > 0 /\ asked \in Nat /\ answered = asked /\ Exchange \in Exchanges
  /\ Exchange.framing = "chunked" /\ Exchange.method # "HEAD"
  /\ arrived \in Seq(Tokens) /\ wire \in Seq(Tokens) /\ received \in Seq(Tokens)
  /\ stat = "SIZE" => /\ pc = "chunked"
                      /\ \E i \in 1 .. Len(Exchange.body) + 1 : AtSize(Exchange, i)
  /\ stat = "DATA" => /\ pc # "trailer"
                      /\ \E i \in 1 .. Len(Exchange.body) + 1 : AtData(Exchange, i)
  /\ stat = "END" => pc # "crlf" /\ Len(received) = SumOf(Exchange.body)
  /\ stat \in {"SIZE", "DATA", "END"}

LEMMA LoopMeans ==
  ASSUME ClientInv, pc \in {"chunked", "crlf", "trailer"}
  PROVE  InChunks
<1>1. /\ TypeOK /\ PlaceInv /\ ChunksInv
      /\ turn = "body" => processed /\ HeadersKnown(Exchange)
  BY DEF ClientInv
<1>2. turn = "body" /\ chunked /\ answered = asked /\ pc # "app"
  BY <1>1 DEF PlaceInv
<1>3. asked > 0 /\ asked \in Nat
  BY <1>1, <1>2, PlanMeans DEF PlaceInv, TypeOK
<1>4. Exchange \in Exchanges
  BY <1>1, <1>3, AskedMeans
<1>5. Exchange.framing = "chunked" /\ Exchange.method # "HEAD"
  BY <1>1, <1>2 DEF HeadersKnown
<1> QED  BY <1>1, <1>2, <1>3, <1>4, <1>5 DEF ChunksInv, InChunks, TypeOK

(* A step of the loop need only keep what is said of the chunks.             *)
LEMMA LoopKeeps ==
  ASSUME ClientInv, InChunks, TypeOK', ReceivedInv', LinkInv',
         UNCHANGED <<planVars, serverVars, headVars, index, chunked>>,
         turn' \in {"body", "stop"}, pc' # "headers",
         pc' \in {"chunked", "crlf", "trailer"} => turn' = "body",
         turn' = "body" => ChunksInv'
  PROVE  ClientInv'
<1>1. Exchange' = Exchange /\ asked' = asked /\ answered' = answered
      /\ processed' = processed /\ chunked' = chunked
  BY DEF planVars, serverVars, headVars, Exchange
<1>2. PlaceInv' /\ HeadInv' /\ PlainInv' /\ StartInv'
  BY <1>1 DEF InChunks, PlaceInv, HeadInv, PlainInv, StartInv
<1>3. processed' /\ HeadersKnown(Exchange)'
  BY <1>1 DEF InChunks, HeadersKnown, headVars, planVars
<1>4. ChunksInv'
  BY DEF ChunksInv
<1> QED  BY <1>2, <1>3, <1>4 DEF ClientInv

LEMMA SizeKeeps ==
  ASSUME ClientInv, SizeText \/ SizeEnd
  PROVE  ClientInv'
<1>1. /\ pc = "chunked" /\ stat = "SIZE" /\ Takes(1)
      /\ UNCHANGED <<planVars, serverVars, fatal, headVars, index, chunked, postVars, callVars,
                     received>>
  BY DEF SizeText, SizeEnd, InLoop
<1>2. /\ Exchange' = Exchange /\ asked' = asked /\ wire' = wire /\ link' = link
      /\ pc' = pc /\ turn' = turn /\ line' = line
  BY <1>1 DEF planVars, serverVars, callVars, Exchange
<1>3. InChunks /\ TypeOK /\ ReceivedInv
  BY <1>1, LoopMeans DEF ClientInv
<1>4. PICK i \in 1 .. Len(Exchange.body) + 1 : AtSize(Exchange, i)
  BY <1>1, <1>3 DEF InChunks
<1> DEFINE q == ChunksFrom(Exchange, asked)[i]
           h == SizeOf(Exchange, i)
<1>5. /\ q \in Seq(Tokens) /\ h \in Nat
      /\ q[1] = Of(asked, "size", h) /\ q[2] = Of(asked, EndOfLine, 0)
  BY <1>3, ChunkAhead DEF InChunks
<1>6. q' = q /\ h' = h
  BY <1>2
<1>7. /\ Len(received) = Before(Exchange.body)[i]
      /\ \/ sizeLine = <<>> /\ Ahead(Rest, q, 0)
         \/ sizeLine = <<h>> /\ Ahead(Rest, q, 1)
  BY <1>4 DEF AtSize
<1> HIDE DEF q, h
<1>8. /\ ~ IsEnd(Of(asked, "size", h)) /\ Of(asked, "size", h).val = h
      /\ IsEnd(Of(asked, EndOfLine, 0))
  BY DEF IsEnd, Of, EndOfLine
<1>9. arrived' \in Seq(Tokens)
      /\ \/ sizeLine = <<>> /\ Head(arrived) = q[1] /\ Ahead(Rest', q, 1)
         \/ sizeLine = <<h>> /\ Head(arrived) = q[2] /\ Ahead(Rest', q, 2)
  <2>1. arrived \in Seq(Tokens) /\ wire \in Seq(Tokens)
    BY <1>3 DEF TypeOK
  <2>2. CASE sizeLine = <<>> /\ Ahead(Rest, q, 0)
    <3>1. 0 \in Nat /\ 0 + 1 = 1  OBVIOUS
    <3>2. arrived' \in Seq(Tokens) /\ Head(arrived) = q[0 + 1] /\ Ahead(Rest', q, 0 + 1)
      BY <1>1, <1>2, <1>5, <2>1, <2>2, <3>1, TookOne
    <3> QED  BY <2>2, <3>1, <3>2
  <2>3. CASE sizeLine = <<h>> /\ Ahead(Rest, q, 1)
    <3>1. 1 \in Nat /\ 1 + 1 = 2  OBVIOUS
    <3>2. arrived' \in Seq(Tokens) /\ Head(arrived) = q[1 + 1] /\ Ahead(Rest', q, 1 + 1)
      BY <1>1, <1>2, <1>5, <2>1, <2>3, <3>1, TookOne
    <3> QED  BY <2>3, <3>1, <3>2
  <2> QED  BY <1>7, <2>2, <2>3
<1>10. ReceivedInv' /\ LinkInv'
  <2>1. link # "broken"  BY <1>1 DEF Takes, LastMsg
  <2> QED  BY <1>1, <1>2, <1>3, <2>1 DEF ReceivedInv, LinkInv
<1>11. turn' = "body" /\ pc' = "chunked"
  BY <1>1, <1>2, <1>3 DEF InChunks
<1>12. CASE SizeText
  <2>1. ~ IsEnd(Head(arrived)) /\ sizeLine' = Append(sizeLine, Head(arrived).val)
        /\ UNCHANGED <<stat, chunkSize, chunkIndex>>
    BY <1>12 DEF SizeText
  <2>2. sizeLine = <<>> /\ Head(arrived) = Of(asked, "size", h) /\ Ahead(Rest', q, 1)
    BY <1>5, <1>8, <1>9, <2>1
  <2>3. sizeLine' = <<h>>
    BY <1>8, <2>1, <2>2
  <2>4. TypeOK'
    <3>1. sizeLine' \in Seq(Nat)  BY <1>5, <2>3
    <3> QED  BY <1>1, <1>3, <1>9, <2>1, <3>1
             DEF TypeOK, planVars, serverVars, headVars, postVars, callVars
  <2>5. AtSize(Exchange, i)'
    BY <1>1, <1>2, <1>6, <1>7, <2>2, <2>3 DEF AtSize, q, h
  <2>6. ChunksInv'
    BY <1>1, <1>2, <1>11, <2>1, <2>5 DEF ChunksInv
  <2> QED  BY <1>1, <1>3, <1>10, <1>11, <2>4, <2>6, LoopKeeps
<1>13. CASE SizeEnd
  <2>1. IsEnd(Head(arrived)) /\ chunkIndex' = 0 /\ chunkSize' = HexOf(sizeLine)
        /\ stat' = "DATA" /\ sizeLine' = sizeLine
    BY <1>13 DEF SizeEnd
  <2>2. sizeLine = <<h>> /\ Ahead(Rest', q, 2)
    BY <1>5, <1>8, <1>9, <2>1
  <2>3. chunkSize' = h
    <3>1. sizeLine \in Seq(Nat)  BY <1>3 DEF TypeOK
    <3> QED  BY <1>5, <2>1, <2>2, <3>1, HexMeans
  <2>4. TypeOK'
    <3>1. chunkSize' \in Nat /\ chunkIndex' \in 0 .. chunkSize'  BY <1>5, <2>1, <2>3
    <3> QED  BY <1>1, <1>3, <1>9, <2>1, <3>1
             DEF TypeOK, planVars, serverVars, headVars, postVars, callVars
  <2>5. AtData(Exchange, i)'
    <3>1. Len(received) = Len(received) + 0 /\ 2 + 0 = 2
      BY <1>3 DEF TypeOK
    <3>2. /\ chunkSize' = SizeOf(Exchange', i) /\ pc' # "crlf"
          /\ Len(received') = Before(Exchange'.body)[i] + chunkIndex'
      BY <1>1, <1>2, <1>7, <2>1, <2>3, <3>1 DEF h
    <3>3. Ahead(Rest', ChunksFrom(Exchange', asked')[i], 2 + chunkIndex')
      BY <1>2, <2>1, <2>2, <3>1 DEF q
    <3> QED  BY <3>2, <3>3 DEF AtData
  <2>6. ChunksInv'
    BY <1>1, <1>2, <1>11, <2>1, <2>5 DEF ChunksInv
  <2> QED  BY <1>1, <1>3, <1>10, <1>11, <2>4, <2>6, LoopKeeps
<1> QED  BY <1>12, <1>13

LEMMA ChunkDataKeeps ==
  ASSUME ClientInv, ChunkData
  PROVE  ClientInv'
<1> DEFINE m == ToRead
           k == Taken(m)
<1>1. /\ pc = "chunked" /\ stat = "DATA" /\ chunkSize > 0 /\ Takes(m)
      /\ received' = received \o Found(m) /\ chunkIndex' = chunkIndex + k
      /\ got' = got + k /\ line' = <<>>
      /\ UNCHANGED <<planVars, serverVars, headVars, index, chunked, stat, sizeLine,
                     chunkSize, postVars, room>>
  BY DEF ChunkData, InLoop
<1>2. /\ pc' \in {"chunked", "crlf", "app"} /\ fatal' \in {fatal, fatal \/ FALSE}
      /\ turn' \in {turn, "body"} /\ last' \in {last, "OK"}
  BY <1>1 DEF ChunkData, GoesOn, Returns, TurnAfter
<1>3. /\ Exchange' = Exchange /\ asked' = asked /\ wire' = wire /\ link' = link
      /\ stat' = stat /\ chunkSize' = chunkSize /\ sizeLine' = sizeLine
  BY <1>1 DEF planVars, serverVars, Exchange
<1>4. InChunks /\ TypeOK /\ ReceivedInv
  BY <1>1, LoopMeans DEF ClientInv
<1>5. PICK i \in 1 .. Len(Exchange.body) + 1 : AtData(Exchange, i)
  BY <1>1, <1>4 DEF InChunks
<1> DEFINE q == ChunksFrom(Exchange, asked)[i]
           h == SizeOf(Exchange, i)
           b == Before(Exchange.body)[i]
           sum == SumOf(Exchange.body)
<1>6. /\ q \in Seq(Tokens) /\ h \in Nat
      /\ \A j \in 1 .. h : q[2 + j] = Of(asked, "unit", b + j)
  BY <1>4, ChunkAhead DEF InChunks
<1>7. b \in Nat /\ b + h <= sum /\ sum \in Nat
  BY <1>4, BeforeBound DEF InChunks
<1>8. q' = q /\ h' = h /\ b' = b /\ sum' = sum
  BY <1>3
<1>9. /\ chunkSize = h /\ Len(received) = b + chunkIndex /\ Ahead(Rest, q, 2 + chunkIndex)
  BY <1>1, <1>5 DEF AtData
<1>10. chunkIndex \in 0 .. h /\ arrived \in Seq(Tokens) /\ wire \in Seq(Tokens)
       /\ received \in Seq(Tokens) /\ asked > 0 /\ asked \in Nat
  BY <1>4, <1>9 DEF TypeOK, InChunks
<1>11. m \in Nat /\ m <= h - chunkIndex
  <2>1. room \in Int /\ chunkIndex \in Int /\ SizeLimit \in Nat /\ SizeLimit > 0
    BY <1>4, <1>10, ClientAssumption DEF TypeOK
  <2>2. PICK r \in Int : r = room - chunkIndex
    BY <2>1
  <2>3. r % SizeLimit \in Nat
    BY <2>1, <2>2
  <2>4. h - chunkIndex \in Nat /\ Remaining = h - chunkIndex
    BY <1>6, <1>9, <1>10 DEF Remaining
  <2>5. m = Least(r % SizeLimit, h - chunkIndex)
    BY <2>2, <2>4 DEF ToRead
  <2> QED  BY <2>3, <2>4, <2>5 DEF Least
<1> HIDE DEF m, q, h, b, sum
<1>12. PICK at \in Nat : at = 2 + chunkIndex
  BY <1>6, <1>10
<1>13. /\ k \in 1 .. m
       /\ Found(m) \in Seq(Tokens) /\ Len(Found(m)) = k
       /\ \A j \in 1 .. k : Found(m)[j] = q[at + j]
       /\ arrived' \in Seq(Tokens)
       /\ Ahead(Rest', q, at + k)
  <2>1. Ahead(Rest, q, at)  BY <1>9, <1>12
  <2> QED  BY <1>1, <1>3, <1>6, <1>10, <1>11, <2>1, Took
<1> HIDE DEF k
<1>14. chunkIndex' \in 0 .. h /\ k \in Nat
  BY <1>1, <1>6, <1>10, <1>11, <1>13
<1>15. PICK f \in Seq(Tokens) : f = Found(m)
  BY <1>13
<1>16. ASSUME NEW j \in 1 .. Len(f) PROVE f[j] = Of(asked, "unit", Len(received) + j)
  <2>1. j \in 1 .. k
    BY <1>13, <1>15
  <2>2. chunkIndex + j \in 1 .. h /\ at + j = 2 + (chunkIndex + j)
        /\ b + (chunkIndex + j) = Len(received) + j
    BY <1>6, <1>7, <1>9, <1>10, <1>11, <1>12, <1>13, <2>1
  <2>3. f[j] = q[at + j]  BY <1>13, <1>15, <2>1
  <2>4. q[2 + (chunkIndex + j)] = Of(asked, "unit", b + (chunkIndex + j))
    BY <1>6, <2>2
  <2> QED  BY <2>2, <2>3, <2>4
<1>17. received \o f = Units(asked, 0, Len(received \o f))
  <2>1. received = Units(asked, 0, Len(received))
    BY <1>4, <1>10 DEF ReceivedInv
  <2> QED  BY <1>10, <1>15, <1>16, <2>1, ReceivedMore
<1>18. Len(received \o f) = Len(received) + Len(f) /\ received \o f \in Seq(Tokens)
  BY <1>10, <1>15
<1>19. /\ received' \in Seq(Tokens) /\ received' = Units(asked, 0, Len(received'))
       /\ Len(received') = b + chunkIndex'
  <2>1. received' = received \o f  BY <1>1, <1>15
  <2>2. Len(f) = k  BY <1>13, <1>15
  <2>3. Len(received') = Len(received) + k  BY <1>18, <2>1, <2>2
  <2>4. (b + chunkIndex) + k = b + chunkIndex'
    BY <1>1, <1>7, <1>10, <1>14
  <2> QED  BY <1>9, <1>17, <1>18, <2>1, <2>3, <2>4
<1>20. Len(received') <= sum
  <2>1. h \in Nat  BY <1>6
  <2>2. PICK c \in Nat : c = chunkIndex' /\ c <= h  BY <1>14, <2>1
  <2>3. PICK x \in Nat, y \in Nat, z \in Nat : x = b /\ y = h /\ z = sum  BY <1>7, <2>1
  <2>4. x + y <= z /\ c <= y  BY <1>7, <2>2, <2>3
  <2>5. x + c <= z  BY <2>4
  <2> QED  BY <1>19, <2>2, <2>3, <2>5
<1>21. ReceivedInv' /\ LinkInv'
  <2>1. link # "broken"  BY <1>1 DEF Takes, LastMsg
  <2> QED  BY <1>3, <1>8, <1>19, <1>20, <2>1 DEF ReceivedInv, LinkInv, sum
<1>22. turn' = "body"
  BY <1>2, <1>4 DEF InChunks
<1>23. TypeOK'
  <2>1. chunkIndex' \in 0 .. chunkSize' /\ got' \in Nat /\ fatal' \in BOOLEAN
    BY <1>1, <1>2, <1>3, <1>4, <1>9, <1>14 DEF TypeOK
  <2>2. line' \in Seq(Tokens)
    BY <1>1
  <2>3. pc' \in {"app", "headers", "chunked", "crlf", "trailer"}
        /\ turn' \in {"start", "send", "headers", "body", "stop"}
        /\ last' \in {"OK", "TIMEOUT", "END", "ERROR"}
    BY <1>2, <1>4, <1>22 DEF TypeOK
  <2> QED  BY <1>1, <1>4, <1>13, <1>19, <2>1, <2>2, <2>3
           DEF TypeOK, planVars, serverVars, headVars, postVars
<1>24. ASSUME pc' = "crlf" PROVE 2 * chunkIndex' > chunkSize'
  <2>1. chunkIndex + k = h - chunkIndex
    BY <1>1, <1>9, <1>24 DEF ChunkData, GoesOn, Returns, Remaining, m, k
  <2>2. PICK x \in Nat, y \in Nat : x = chunkIndex /\ y = h
    BY <1>6, <1>10
  <2>3. x + k = y - x /\ k > 0 /\ k \in Nat
    BY <1>13, <1>14, <2>1, <2>2
  <2>4. 2 * (x + k) > y
    BY <2>3
  <2> QED  BY <1>1, <1>3, <1>9, <2>2, <2>4
<1>25. ChunksInv'
  <2>1. AtData(Exchange, i)'
    <3>1. 2 + chunkIndex' = at + k
      BY <1>1, <1>10, <1>12, <1>14
    <3>2. /\ chunkSize' = SizeOf(Exchange', i) /\ chunkSize' > 0
          /\ pc' = "crlf" => 2 * chunkIndex' > chunkSize'
          /\ Len(received') = Before(Exchange'.body)[i] + chunkIndex'
      BY <1>1, <1>3, <1>9, <1>19, <1>24 DEF h, b
    <3>3. Ahead(Rest', ChunksFrom(Exchange', asked')[i], 2 + chunkIndex')
      BY <1>3, <1>13, <3>1 DEF q
    <3> QED  BY <3>2, <3>3 DEF AtData
  <2>2. i \in 1 .. Len(Exchange'.body) + 1 /\ stat' = "DATA" /\ pc' # "trailer"
    BY <1>1, <1>2, <1>3
  <2> QED  BY <2>1, <2>2 DEF ChunksInv
<1>26. pc' # "headers"
  BY <1>2
<1> QED  BY <1>1, <1>4, <1>21, <1>22, <1>23, <1>25, <1>26, LoopKeeps

LEMMA LineTextKeeps ==
  ASSUME ClientInv, LineText
  PROVE  ClientInv'
<1>1. /\ pc \in {"crlf", "trailer"} /\ Takes(1) /\ line' = Append(line, Head(arrived))
      /\ UNCHANGED <<planVars, serverVars, fatal, headVars, index, chunkVars, postVars,
                     pc, room, got, turn, last, received>>
  BY DEF LineText
<1>2. /\ Exchange' = Exchange /\ asked' = asked /\ link' = link /\ stat' = stat
      /\ chunkSize' = chunkSize /\ chunkIndex' = chunkIndex
  BY <1>1 DEF planVars, serverVars, chunkVars, Exchange
<1>3. InChunks /\ TypeOK /\ ReceivedInv
  BY <1>1, LoopMeans DEF ClientInv
<1>4. /\ arrived # <<>> /\ link # "broken"
      /\ arrived' = SubSeq(arrived, Taken(1) + 1, Len(arrived))
  BY <1>1 DEF Takes, LastMsg
<1>5. arrived' \in Seq(Tokens) /\ line' \in Seq(Tokens) /\ line' # <<>>
  <2>1. arrived \in Seq(Tokens) /\ line \in Seq(Tokens) /\ Head(arrived) \in Tokens
    BY <1>3, <1>4 DEF TypeOK
  <2>2. Len(arrived) > 0 /\ Taken(1) = 1
    <3>1. PICK a \in Nat : a = Len(arrived) /\ a > 0  BY <1>4, <2>1
    <3> QED  BY <3>1 DEF Taken, Least
  <2>3. arrived' \in Seq(Tokens)
    BY <1>4, <2>1, <2>2
  <2>4. Len(line') = Len(line) + 1 /\ line' \in Seq(Tokens) /\ Len(line) \in Nat
    BY <1>1, <2>1
  <2> QED  BY <2>3, <2>4
<1>6. TypeOK'
  BY <1>1, <1>3, <1>5 DEF TypeOK, planVars, serverVars, headVars, chunkVars, postVars
<1>7. ReceivedInv' /\ LinkInv'
  BY <1>1, <1>2, <1>3, <1>4 DEF ReceivedInv, LinkInv
<1>8. turn' = "body"
  BY <1>1, <1>3 DEF InChunks
<1>9. ChunksInv'
  <2>1. stat # "SIZE" /\ pc' = pc /\ received' = received
    BY <1>1, <1>3 DEF InChunks
  <2>2. ASSUME NEW i \in 1 .. Len(Exchange.body) + 1, AtData(Exchange, i), pc # "trailer"
        PROVE  AtData(Exchange, i)'
    <3>1. pc' = "crlf" /\ line' # <<>>  BY <1>1, <1>5, <2>1, <2>2
    <3> QED  BY <1>2, <2>1, <2>2, <3>1 DEF AtData
  <2> QED  BY <1>2, <1>3, <2>1, <2>2 DEF ChunksInv, InChunks
<1>10. UNCHANGED <<planVars, serverVars, headVars, index, chunked>>
  BY <1>1 DEF chunkVars
<1> QED  BY <1>1, <1>3, <1>6, <1>7, <1>8, <1>9, <1>10, LoopKeeps

(* Where the end of a chunk is looked for too early there is no LF.          *)
LEMMA NoFeed ==
  ASSUME FeedsComeEarly, TypeOK, asked > 0, Exchange.framing = "chunked",
         NEW i \in 1 .. Len(Exchange.body), NEW j \in 1 .. Exchange.body[i],
         Before(Exchange.body)[i] + j \in Exchange.feeds
  PROVE  2 * (j - 1) <= Exchange.body[i]
<1>1. plan \in Plans /\ asked \in 1 .. Len(plan)
  BY PlanMeans DEF TypeOK
<1> QED  BY <1>1 DEF FeedsComeEarly, Exchange

LEMMA ChunkEndsKeeps ==
  ASSUME FeedsComeEarly, ClientInv, ChunkEnds
  PROVE  ClientInv'
<1>1. /\ pc = "crlf" /\ Takes(1) /\ IsEnd(Head(arrived))
      /\ UNCHANGED <<planVars, serverVars, headVars, index, chunked, chunkSize,
                     chunkIndex, postVars, room, got, line, received>>
  BY DEF ChunkEnds
<1>2. \/ /\ line = <<>> /\ stat' = "SIZE" /\ sizeLine' = <<>>
         /\ \/ pc' = "chunked" /\ UNCHANGED <<turn, last, fatal>>
            \/ pc' = "app" /\ turn' = "body" /\ last' = "OK" /\ fatal' = (fatal \/ FALSE)
      \/ /\ line # <<>> /\ UNCHANGED <<stat, sizeLine>>
         /\ pc' = "app" /\ turn' = "stop" /\ last' = "ERROR" /\ fatal' = (fatal \/ TRUE)
  BY DEF ChunkEnds, GoesOn, Returns, TurnAfter, ResetSize
<1>3. Exchange' = Exchange /\ asked' = asked /\ link' = link /\ wire' = wire
  BY <1>1 DEF planVars, serverVars, Exchange
<1>4. InChunks /\ TypeOK /\ ReceivedInv
  BY <1>1, LoopMeans DEF ClientInv
<1>5. stat = "DATA"
  BY <1>1, <1>4 DEF InChunks
<1>6. PICK i \in 1 .. Len(Exchange.body) + 1 : AtData(Exchange, i)
  BY <1>4, <1>5 DEF InChunks
<1> DEFINE q == ChunksFrom(Exchange, asked)[i]
           h == SizeOf(Exchange, i)
           more == ChunksFrom(Exchange, asked)[i + 1]
           b == Before(Exchange.body)[i]
<1>7. /\ q \in Seq(Tokens) /\ h \in Nat
      /\ \A j \in 1 .. h : q[2 + j] = Of(asked, "unit", b + j)
      /\ h > 0 => /\ i \in 1 .. Len(Exchange.body) /\ q[h + 3] = Of(asked, EndOfLine, 0)
                  /\ more \in Seq(Tokens) /\ Len(q) = h + 3 + Len(more)
                  /\ \A j \in 1 .. Len(more) : q[h + 3 + j] = more[j]
  BY <1>4, ChunkAhead DEF InChunks
<1>8. /\ chunkSize = h /\ h > 0 /\ Len(received) = b + chunkIndex
      /\ line = <<>> => Ahead(Rest, q, 2 + chunkIndex)
      /\ 2 * chunkIndex > h
  BY <1>1, <1>6 DEF AtData
<1>9. chunkIndex \in 0 .. h /\ arrived \in Seq(Tokens) /\ wire \in Seq(Tokens)
  BY <1>4, <1>8 DEF TypeOK
<1>10. b + h = Before(Exchange.body)[i + 1] /\ i + 1 \in 1 .. Len(Exchange.body) + 1
  <2>1. /\ i \in 1 .. Len(Exchange.body) /\ Exchange.body \in Seq(Nat)
        /\ i # Len(Exchange.body) + 1
    <3>1. Exchange \in Exchanges  BY <1>4 DEF InChunks
    <3>2. Exchange.body \in Seq(Nat) /\ Len(Exchange.body) \in Nat  BY <3>1, ExchangeMeans
    <3>3. i \in 1 .. Len(Exchange.body)  BY <1>7, <1>8
    <3> QED  BY <3>2, <3>3
  <2>2. h = Exchange.body[i]
    BY <2>1 DEF SizeOf
  <2> QED  BY <2>1, <2>2, BeforeMeans
<1> HIDE DEF q, h, more, b
<1>11. /\ arrived' \in Seq(Tokens) /\ link # "broken"
  <2>1. arrived # <<>> /\ link # "broken"
        /\ arrived' = SubSeq(arrived, Taken(1) + 1, Len(arrived))
    BY <1>1 DEF Takes, LastMsg
  <2>2. Taken(1) = 1 /\ Len(arrived) > 0
    <3>1. PICK a \in Nat : a = Len(arrived) /\ a > 0  BY <1>9, <2>1
    <3> QED  BY <3>1 DEF Taken, Least
  <2> QED  BY <1>9, <2>1, <2>2
<1>12. ReceivedInv' /\ LinkInv'
  BY <1>1, <1>3, <1>4, <1>11 DEF ReceivedInv, LinkInv
<1>13. /\ turn' \in {"body", "stop"} /\ pc' \in {"app", "chunked"} /\ fatal' \in BOOLEAN
       /\ last' \in {"OK", "TIMEOUT", "END", "ERROR"} /\ (pc' = "chunked" => turn' = "body")
  BY <1>2, <1>4 DEF InChunks, TypeOK
<1>14. TypeOK'
  <2>1. stat' \in {"SIZE", "DATA", "END"}
    BY <1>2, <1>5
  <2>2. sizeLine' \in Seq(Nat)
    <3>1. <<>> \in Seq(Nat)  OBVIOUS
    <3>2. sizeLine \in Seq(Nat)  BY <1>4 DEF TypeOK
    <3> QED  BY <1>2, <3>1, <3>2
  <2> QED  BY <1>1, <1>4, <1>11, <1>13, <2>1, <2>2
           DEF TypeOK, planVars, serverVars, headVars, postVars
<1>15. ASSUME turn' = "body" PROVE ChunksInv'
  <2>1. line = <<>> /\ stat' = "SIZE" /\ sizeLine' = <<>>
    BY <1>2, <1>15
  <2>2. PICK at \in Nat : at = 2 + chunkIndex /\ chunkIndex \in Nat
    BY <1>7, <1>9
  <2>3. /\ at + 1 \in 1 .. Len(q) /\ Head(arrived) = q[at + 1] /\ Ahead(Rest', q, at + 1)
    BY <1>1, <1>3, <1>7, <1>8, <1>9, <2>1, <2>2, TookOne
  <2>4. chunkIndex = h
    <3>1. SUFFICES ASSUME chunkIndex # h PROVE FALSE
      OBVIOUS
    <3>2. chunkIndex + 1 \in 1 .. h /\ at + 1 = 2 + (chunkIndex + 1)
      BY <1>7, <1>9, <2>2, <3>1
    <3>3. Head(arrived) = Of(asked, "unit", b + (chunkIndex + 1))
      BY <1>7, <2>3, <3>2
    <3>4. b + (chunkIndex + 1) \in Exchange.feeds
      <4>1. b + (chunkIndex + 1) \in plan[asked].feeds
        BY <1>1, <3>3 DEF IsEnd, Of, EndOfLine
      <4> QED  BY <4>1 DEF Exchange
    <3>5. 2 * ((chunkIndex + 1) - 1) <= h
      <4>1. i \in 1 .. Len(Exchange.body) /\ h = Exchange.body[i]
        <5>1. i \in 1 .. Len(Exchange.body) /\ Len(Exchange.body) \in Nat
          BY <1>4, <1>7, <1>8, ExchangeMeans DEF InChunks
        <5>2. i # Len(Exchange.body) + 1
          BY <5>1
        <5> QED  BY <5>1, <5>2 DEF SizeOf, h
      <4>2. /\ FeedsComeEarly /\ TypeOK /\ asked > 0
            /\ Exchange.framing = "chunked"
        BY <1>4 DEF InChunks
      <4>3. PICK j \in 1 .. Exchange.body[i] : j = chunkIndex + 1
        BY <3>2, <4>1
      <4>4. Before(Exchange.body)[i] + j \in Exchange.feeds
        BY <3>4, <4>3 DEF b
      <4>5. 2 * (j - 1) <= Exchange.body[i]
        BY ONLY <4>1, <4>2, <4>4, NoFeed
      <4> QED  BY <4>1, <4>3, <4>5
    <3> QED  BY <1>7, <1>8, <1>9, <3>5
  <2>5. Ahead(Rest', more, 0)
    <3>1. at + 1 = h + 3
      BY <1>7, <2>2, <2>4
    <3>2. /\ Len(Rest') <= Len(q) - (h + 3)
          /\ \A j \in 1 .. Len(Rest') : Rest'[j] = q[(h + 3) + j]
      BY <2>3, <3>1 DEF Ahead
    <3>3. Rest' \in Seq(Tokens)
      BY <1>3, <1>9, <1>11 DEF Rest
    <3>4. /\ more \in Seq(Tokens) /\ Len(q) = h + 3 + Len(more)
          /\ \A j \in 1 .. Len(more) : q[h + 3 + j] = more[j]
      BY <1>7, <1>8
    <3>5. Len(Rest') <= Len(more) - 0 /\ Len(Rest') <= Len(more)
      BY <1>7, <3>2, <3>3, <3>4
    <3>6. ASSUME NEW j \in 1 .. Len(Rest') PROVE Rest'[j] = more[0 + j]
      <4>1. j \in 1 .. Len(more) /\ 0 + j = j  BY <3>3, <3>4, <3>5
      <4> QED  BY <3>2, <3>4, <4>1
    <3> QED  BY <3>5, <3>6 DEF Ahead
  <2>6. Len(received') = Before(Exchange'.body)[i + 1]
    BY <1>1, <1>3, <1>8, <1>10, <2>4
  <2>7. Ahead(Rest', ChunksFrom(Exchange', asked')[i + 1], 0)
    BY <1>3, <2>5 DEF more
  <2>8. AtSize(Exchange, i + 1)'
    BY <2>1, <2>6, <2>7 DEF AtSize
  <2>9. i + 1 \in 1 .. Len(Exchange'.body) + 1
    BY <1>3, <1>10
  <2> QED  BY <1>13, <2>1, <2>8, <2>9 DEF ChunksInv
<1>16. pc' # "headers" /\ (pc' \in {"chunked", "crlf", "trailer"} => turn' = "body")
  BY <1>13
<1> QED  BY <1>1, <1>4, <1>12, <1>13, <1>14, <1>15, <1>16, LoopKeeps

LEMMA TrailerKeeps ==
  ASSUME ClientInv, LastChunk \/ TrailerLine
  PROVE  ClientInv'
<1>1. InChunks /\ TypeOK /\ ReceivedInv /\ LinkInv
  BY LoopMeans DEF ClientInv, LastChunk, TrailerLine, InLoop
<1>2. CASE LastChunk
  <2>1. /\ pc = "chunked" /\ stat = "DATA" /\ chunkSize = 0
        /\ stat' = "END" /\ line' = <<>> /\ pc' = "trailer"
        /\ UNCHANGED <<planVars, serverVars, arrived, fatal, headVars, index, chunked,
                       sizeLine, chunkSize, chunkIndex, postVars, room, got, turn, last,
                       received>>
        /\ Exchange' = Exchange /\ asked' = asked /\ Rest' = Rest /\ link' = link
    BY <1>2 DEF LastChunk, InLoop, planVars, serverVars, Exchange, Rest
  <2>2. PICK i \in 1 .. Len(Exchange.body) + 1 : AtData(Exchange, i)
    BY <1>1, <2>1 DEF InChunks
  <2>3. /\ SizeOf(Exchange, i) = 0 /\ i = Len(Exchange.body) + 1
    BY <1>1, <2>1, <2>2, ChunkAhead DEF InChunks, AtData
  <2>4. chunkIndex = 0 /\ Before(Exchange.body)[i] \in Nat
    BY <1>1, <2>1, BeforeBound DEF TypeOK, InChunks
  <2>5. Len(received) = SumOf(Exchange.body)
    BY <2>2, <2>3, <2>4 DEF AtData, SumOf
  <2>6. TypeOK'
    <3>1. line' \in Seq(Tokens)  BY <2>1
    <3> QED  BY <1>1, <2>1, <3>1 DEF TypeOK, planVars, serverVars, headVars, postVars
  <2>7. ReceivedInv' /\ LinkInv' /\ turn' = "body" /\ pc' # "headers"
    BY <1>1, <2>1 DEF ReceivedInv, LinkInv, InChunks
  <2>8. ChunksInv'
    BY <2>1, <2>5 DEF ChunksInv
  <2> QED  BY <1>1, <2>1, <2>6, <2>7, <2>8, LoopKeeps
<1>3. CASE TrailerLine
  <2>1. /\ pc = "trailer" /\ Takes(1) /\ line' = <<>>
        /\ \/ pc' = "app" /\ turn' = "body" /\ last' = "OK" /\ fatal' = (fatal \/ FALSE)
           \/ UNCHANGED <<pc, turn, last, fatal>>
        /\ UNCHANGED <<planVars, serverVars, headVars, index, chunkVars, postVars, room,
                       got, received>>
        /\ Exchange' = Exchange /\ asked' = asked /\ link' = link /\ wire' = wire
    BY <1>3 DEF TrailerLine, Returns, TurnAfter, planVars, serverVars, Exchange
  <2>2. stat = "END" /\ Len(received) = SumOf(Exchange.body) /\ turn' = "body"
        /\ pc' \in {"app", "trailer"} /\ fatal' \in BOOLEAN
        /\ last' \in {"OK", "TIMEOUT", "END", "ERROR"}
    BY <1>1, <2>1 DEF InChunks, TypeOK
  <2>3. arrived' \in Seq(Tokens) /\ link # "broken"
    <3>1. arrived # <<>> /\ link # "broken" /\ arrived \in Seq(Tokens)
          /\ arrived' = SubSeq(arrived, Taken(1) + 1, Len(arrived))
      BY <1>1, <2>1 DEF Takes, LastMsg, TypeOK
    <3>2. Taken(1) = 1 /\ Len(arrived) > 0
      <4>1. PICK a \in Nat : a = Len(arrived) /\ a > 0  BY <3>1
      <4> QED  BY <4>1 DEF Taken, Least
    <3> QED  BY <3>1, <3>2
  <2>4. TypeOK'
    <3>1. line' \in Seq(Tokens)  BY <2>1
    <3> QED  BY <1>1, <2>1, <2>2, <2>3, <3>1
             DEF TypeOK, planVars, serverVars, headVars, chunkVars, postVars
  <2>5. ReceivedInv' /\ LinkInv'
    BY <1>1, <2>1, <2>3 DEF ReceivedInv, LinkInv
  <2>6. ChunksInv' /\ UNCHANGED <<planVars, serverVars, headVars, index, chunked>>
    BY <2>1, <2>2 DEF ChunksInv, chunkVars
  <2> QED  BY <1>1, <2>2, <2>4, <2>5, <2>6, LoopKeeps
<1> QED  BY <1>2, <1>3

(* What may be left of this response is left for nobody: it was the last.    *)
LEMMA ChunksEndKeeps ==
  ASSUME ChunksComeLast, ClientInv, ChunksEnd
  PROVE  ClientInv'
<1>1. /\ pc = "chunked" /\ stat = "END" /\ chunked' = FALSE
      /\ pc' = "app" /\ turn' = "start" /\ last' = "END" /\ fatal' = (fatal \/ FALSE)
      /\ UNCHANGED <<planVars, serverVars, arrived, headVars, index, stat, sizeLine,
                     chunkSize, chunkIndex, postVars, room, got, line, received>>
  BY DEF ChunksEnd, InLoop, Returns, TurnAfter
<1>2. InChunks /\ TypeOK /\ ReceivedInv /\ LinkInv /\ PlaceInv
  BY <1>1, LoopMeans DEF ClientInv
<1>3. /\ Exchange' = Exchange /\ asked' = asked /\ plan' = plan /\ answered' = answered
      /\ Rest' = Rest /\ link' = link
  BY <1>1 DEF planVars, serverVars, Exchange, Rest
<1>4. TypeOK'
  BY <1>1, <1>2 DEF TypeOK, planVars, serverVars, headVars, postVars
<1>5. PlaceInv' /\ LinkInv' /\ ReceivedInv' /\ HeadInv' /\ PlainInv' /\ ChunksInv'
      /\ (turn' = "body" => processed' /\ HeadersKnown(Exchange)')
  BY <1>1, <1>2, <1>3
     DEF InChunks, PlaceInv, LinkInv, ReceivedInv, HeadInv, PlainInv, ChunksInv
<1>6. asked = Len(plan)
  <2>1. plan \in Plans /\ asked \in 1 .. Len(plan)
    BY <1>2, PlanMeans DEF TypeOK, InChunks
  <2>2. plan[asked].framing = "chunked" /\ plan[asked].method # "HEAD"
    BY <1>2 DEF InChunks, Exchange
  <2> QED  BY <2>1, <2>2 DEF ChunksComeLast
<1>7. StartInv'
  BY <1>1, <1>2, <1>3, <1>6 DEF StartInv, InChunks
<1> QED  BY <1>4, <1>5, <1>7 DEF ClientInv

-----------------------------------------------------------------------------
(* The theorems *)

LEMMA ClientInvInductive ==
  ASSUME WellSent, ClientInv, [Next]_vars
  PROVE  ClientInv'
<1>0. ChunksComeLast /\ FeedsComeEarly
  BY DEF WellSent
<1>1. CASE UNCHANGED vars
  BY <1>1, StutterKeeps
<1>2. CASE Start
  BY <1>0, <1>2, StartKeeps
<1>3. CASE Sending \/ Refused
  BY <1>3, SendingKeeps
<1>4. CASE GetHeaders
  BY <1>4, HeaderTextKeeps, HeaderLineKeeps, HeadersEndKeeps, WaitsKeep DEF GetHeaders
<1>5. CASE Call
  BY <1>5, CallKeeps, ReceiveNormalKeeps DEF Call
<1>6. CASE Chunked
  BY <1>0, <1>6, SizeKeeps, ChunkDataKeeps, LineTextKeeps, ChunkEndsKeeps, TrailerKeeps,
     ChunksEndKeeps, WaitsKeep DEF Chunked
<1>7. CASE Network \/ Failure
  BY <1>7, RespondKeeps, NetworkKeeps DEF Network
<1> QED  BY <1>1, <1>2, <1>3, <1>4, <1>5, <1>6, <1>7 DEF Next, Client

(* The strengthened invariant holds from the beginning, whatever the server  *)
(* and the link do, when a response in chunks is the last of its connection  *)
(* and its chunks have no LF late in them.                                   *)
THEOREM ClientIsInStep == WellSent => (Spec => []ClientInv)
<1> SUFFICES ASSUME WellSent PROVE Spec => []ClientInv
  OBVIOUS
<1>1. Init => ClientInv
  BY InitKeeps
<1>2. ClientInv /\ [Next]_vars => ClientInv'
  BY ClientInvInductive
<1> QED  BY <1>1, <1>2, PTL DEF Spec

(* TypeOK: no chunk is read beyond its end and no body beyond its declared   *)
(* length, and no more than one text of a header is under way.               *)
THEOREM TypeCorrect == WellSent => (Spec => []TypeOK)
<1>1. ClientInv => TypeOK
  BY DEF ClientInv
<1> QED  BY <1>1, ClientIsInStep, PTL

(* HeadersAsSent: once GetHeaders has said that the headers are there, code, *)
(* ETag, length and framing are those of the response to this request.       *)
THEOREM HeadersAreSent == WellSent => (Spec => []HeadersAsSent)
<1>1. ClientInv => HeadersAsSent
  BY DEF ClientInv, HeadersKnown, HeadersAsSent, DeclaredLength
<1> QED  BY <1>1, ClientIsInStep, PTL

(* BodyAsSent: Receive delivers the body sent in answer to this request, in  *)
(* order and without a gap, and all of it when it says MSG_END for a body    *)
(* whose end is marked, provided that nothing in a chunk can be taken for    *)
(* its end.                                                                  *)
THEOREM BodyIsSent == WellSent => (Spec => []BodyAsSent)
<1>1. ASSUME ClientInv PROVE BodyAsSent
  <2> SUFFICES ASSUME asked > 0, Exchange.method # "HEAD"
               PROVE  /\ IsPrefix(received, Body(Exchange, asked))
                      /\ turn = "start" /\ Exchange.framing \in {"length", "chunked"}
                           => received = Body(Exchange, asked)
    BY DEF BodyAsSent
  <2>1. TypeOK /\ ReceivedInv /\ StartInv /\ received \in Seq(Tokens)
    BY <1>1 DEF ClientInv, TypeOK
  <2>2. asked \in Nat /\ Exchange \in Exchanges
    BY <2>1, AskedMeans
  <2>3. PICK a \in Nat, sum \in Nat :
          /\ a = Len(received) /\ sum = SumOf(Exchange.body) /\ a <= sum
          /\ received = Units(asked, 0, a)
    BY <2>1, <2>2, BodyMeans DEF ReceivedInv
  <2>4. Body(Exchange, asked) = Units(asked, 0, sum)
    BY <2>3 DEF Body
  <2>5. ASSUME NEW n \in Nat
        PROVE  /\ Units(asked, 0, n) \in Seq(Tokens) /\ Len(Units(asked, 0, n)) = n
               /\ \A i \in 1 .. n : Units(asked, 0, n)[i] = Of(asked, "unit", i)
    <3>1. /\ Units(asked, 0, n) \in Seq(Tokens) /\ Len(Units(asked, 0, n)) = n - 0
          /\ \A i \in 1 .. n - 0 : Units(asked, 0, n)[i] = Of(asked, "unit", 0 + i)
      <4>1. 0 \in Nat /\ 0 <= n  OBVIOUS
      <4> QED  BY <2>2, <4>1, UnitsMeans, Zenon
    <3> QED  BY <3>1
  <2> DEFINE r == Units(asked, 0, a)
             u == Units(asked, 0, sum)
  <2>6. /\ r \in Seq(Tokens) /\ Len(r) = a /\ u \in Seq(Tokens) /\ Len(u) = sum
        /\ \A i \in 1 .. a : r[i] = Of(asked, "unit", i)
        /\ \A i \in 1 .. sum : u[i] = Of(asked, "unit", i)
    BY <2>5
  <2> HIDE DEF r, u
  <2>7. IsPrefix(r, u)
    <3>1. /\ SubSeq(u, 1, a) \in Seq(Tokens) /\ Len(SubSeq(u, 1, a)) = a
          /\ \A i \in 1 .. a : SubSeq(u, 1, a)[i] = u[i]
      BY <2>3, <2>6
    <3>2. \A i \in 1 .. a : u[i] = r[i]
      BY <2>3, <2>6
    <3>3. SubSeq(u, 1, a) = r
      <4> DEFINE w == SubSeq(u, 1, a)
      <4>1. w \in Seq(Tokens) /\ Len(w) = a /\ \A i \in 1 .. a : w[i] = r[i]
        BY <3>1, <3>2
      <4> HIDE DEF w
      <4>2. w = r  BY <2>6, <4>1
      <4> QED  BY <4>2 DEF w
    <3>4. SubSeq(r, 1, a) = r
      BY <2>6
    <3> QED  BY <2>3, <2>6, <3>3, <3>4 DEF IsPrefix
  <2>8. turn = "start" /\ Exchange.framing \in {"length", "chunked"} => a = sum
    BY <2>1, <2>3 DEF StartInv
  <2> QED  BY <2>3, <2>4, <2>7, <2>8 DEF r, u
<1> QED  BY <1>1, ClientIsInStep, PTL
=============================================================================
