--------------------------- MODULE HttpdConnProofs ---------------------------
(***************************************************************************)
(* Proofs about HttpdConn, for any requests, lengths, reads and numbers of *)
(* requests. First the framing of the responses on the wire; then that the *)
(* server stays in step with what its client sends; then that HttpdConn    *)
(* implements Exchange.                                                    *)
(***************************************************************************)
EXTENDS HttpdConn, SequenceTheorems, WellFoundedInduction, TLAPS

-----------------------------------------------------------------------------
(* The responses *)

Responses ==
  [head : {"full", "part"}, length : LengthOrNone, body : Nat, done : BOOLEAN]

(* The part of TypeOK that a response depends on.                            *)
AnswerTypeOK ==
  /\ stage \in Stages
  /\ pHeaders \in LengthOrNone /\ outBuf \in LengthOrNone /\ bodySent \in Nat
  /\ out \in Seq(Responses)
  /\ failed \in {"none", "ParseRequest", "SendHeaders"}

Complete(r) == r.done /\ r.head = "full" /\ r.body = Meant(r.length)

(* A response is in flight while its body is being sent; its head was built  *)
(* from the headers that Send still looks at.                                *)
InFlight(r) ==
  /\ ~r.done /\ r.head = "full"
  /\ Meant(r.length) = pHeaders /\ r.body = bodySent /\ bodySent <= pHeaders

FramedInv ==
  /\ \A i \in 1 .. Len(out) - 1 : Complete(out[i])
  /\ stage = "RDY4_SEND_BODY" => out # <<>> /\ InFlight(out[Len(out)])
  /\ stage # "RDY4_SEND_BODY" =>
       /\ bodySent = 0
       /\ out # <<>> => \/ Complete(out[Len(out)])
                        \/ /\ stage = "RDY4_SEND_HEADER" /\ failed = "SendHeaders"
                           /\ ~out[Len(out)].done /\ out[Len(out)].body = 0
  /\ Responding => pHeaders \in Nat
  /\ stage = "RDY4_SEND_HEADER" => pHeaders = Meant(outBuf)

FIInv == AnswerTypeOK /\ FramedInv

-----------------------------------------------------------------------------
(* Replacing the last element of a sequence leaves the others.               *)
LEMMA UpdateLast ==
  ASSUME NEW S, NEW q \in Seq(S), q # <<>>, NEW e \in S,
         NEW p, p = [q EXCEPT ![Len(q)] = e]
  PROVE  /\ p \in Seq(S) /\ Len(p) = Len(q) /\ p[Len(q)] = e
         /\ \A i \in 1 .. Len(q) - 1 : p[i] = q[i]
  OBVIOUS

(* An index of a sequence is its last one or an earlier one.                 *)
LEMMA BelowLast ==
  ASSUME NEW m \in Nat, NEW i \in 1 .. m, i # m
  PROVE  i \in 1 .. m - 1
  OBVIOUS

(* Body units added to a response.                                           *)
LEMMA GrownOK ==
  ASSUME NEW r \in Responses, NEW k \in Nat, NEW done \in BOOLEAN
  PROVE  /\ Grown(r, k, done) \in Responses /\ Grown(r, k, done).done = done
         /\ Grown(r, k, done).head = r.head /\ Grown(r, k, done).length = r.length
         /\ Grown(r, k, done).body = r.body + k
  BY DEF Grown, Responses

(* What the two outcomes of BodyWritten do to the framing: the response in   *)
(* flight is completed ...                                                   *)
LEMMA LastDone ==
  ASSUME FIInv, stage = "RDY4_SEND_BODY", NEW e \in Responses, Complete(e),
         out' = [out EXCEPT ![Len(out)] = e],
         stage' \in {"RDY4_REQUEST", "RDY4_DISCONNECT"}, bodySent' = 0,
         UNCHANGED <<pHeaders, outBuf, failed>>
  PROVE  FIInv'
<1>1. /\ out \in Seq(Responses) /\ out # <<>> /\ Len(out) \in Nat
      /\ \A i \in 1 .. Len(out) - 1 : Complete(out[i])
  BY DEF FIInv, AnswerTypeOK, FramedInv
<1>2. out' \in Seq(Responses) /\ Len(out') = Len(out) /\ out'[Len(out)] = e
  BY <1>1, UpdateLast
<1>3. \A i \in 1 .. Len(out) - 1 : out'[i] = out[i]
  BY <1>1, UpdateLast
<1>4. ASSUME NEW i \in 1 .. Len(out') PROVE Complete(out'[i])
  <2>1. CASE i = Len(out)
    BY <1>2, <2>1, Zenon
  <2>2. CASE i # Len(out)
    <3>1. Len(out) \in Nat /\ Len(out') = Len(out)
      BY <1>1, <1>2, Zenon
    <3>2. i \in 1 .. Len(out) - 1
      BY <2>2, <3>1, BelowLast, Zenon
    <3>3. QED
      BY <1>1, <1>3, <3>2, Zenon
  <2>3. QED
    BY <2>1, <2>2
<1>5. out' # <<>>
  BY <1>1, <1>2
<1>6. AnswerTypeOK'
  BY <1>2 DEF FIInv, AnswerTypeOK, Stages
<1>7. FramedInv'
  <2>1. Len(out') \in Nat /\ \A i \in 1 .. Len(out') - 1 : i \in 1 .. Len(out')
    BY <1>2
  <2>2. Len(out') \in 1 .. Len(out')
    BY <1>2, <1>5
  <2>3. /\ \A i \in 1 .. Len(out') - 1 : Complete(out'[i])
        /\ Complete(out'[Len(out')])
    BY <1>4, <2>1, <2>2, Zenon
  <2>4. stage' # "RDY4_SEND_BODY" /\ stage' # "RDY4_SEND_HEADER"
    OBVIOUS
  <2>5. QED
    BY <2>3, <2>4, Zenon DEF FramedInv, Responding
<1>8. QED
  BY <1>6, <1>7 DEF FIInv

(* ... or it stays in flight.                                                *)
LEMMA LastGrows ==
  ASSUME FIInv, stage = "RDY4_SEND_BODY", NEW e \in Responses, InFlight(e)',
         out' = [out EXCEPT ![Len(out)] = e],
         stage' = stage, bodySent' \in Nat, UNCHANGED <<pHeaders, outBuf, failed>>
  PROVE  FIInv'
<1>1. out \in Seq(Responses) /\ out # <<>> /\ \A i \in 1 .. Len(out) - 1 : Complete(out[i])
  BY DEF FIInv, AnswerTypeOK, FramedInv
<1>2. out' \in Seq(Responses) /\ Len(out') = Len(out) /\ out'[Len(out)] = e
  BY <1>1, UpdateLast
<1>3. \A i \in 1 .. Len(out) - 1 : out'[i] = out[i]
  BY <1>1, UpdateLast
<1>4. \A i \in 1 .. Len(out') - 1 : Complete(out'[i])
  BY <1>1, <1>2, <1>3
<1>5. out' # <<>>
  BY <1>1, <1>2
<1>6. AnswerTypeOK'
  BY <1>2 DEF FIInv, AnswerTypeOK, Stages
<1>7. FramedInv'
  <2>1. InFlight(out[Len(out)])'
    BY <1>2 DEF InFlight
  <2>2. QED
    BY <1>4, <1>5, <2>1 DEF FIInv, FramedInv, Responding
<1>8. QED
  BY <1>6, <1>7 DEF FIInv

(* A new connection has no response on the wire.                             *)
LEMMA InitFIInv == Init => FIInv
  BY DEF Init, FIInv, AnswerTypeOK, FramedInv, Stages, LengthOrNone, Responding

(* Every step keeps the framing, given that the application neither repeats  *)
(* a failed SendHeaders nor replaces the headers of a response in flight.    *)
LEMMA NextFIInv ==
  ASSUME "resend" \notin Habits, "restyle" \notin Habits
  PROVE  FIInv /\ [Next]_vars => FIInv'
<1> SUFFICES ASSUME FIInv, [Next]_vars PROVE FIInv'
  OBVIOUS
<1>1. CASE Client
  BY <1>1 DEF Client, ClientSend, ClientClose, LinkBreaks, answerVars, FIInv, AnswerTypeOK, FramedInv, LengthOrNone, Stages, Responding,
         InFlight, Complete, Responses
<1>2. CASE ReadRequest
  BY <1>2 DEF ReadRequest, ReadPartialRequest, answerVars, FIInv, AnswerTypeOK, FramedInv, LengthOrNone, Stages, Responding,
         InFlight, Complete, Responses
<1>3. CASE ParseRequest
  BY <1>3 DEF ParseRequest, ParseLines, ParseFails, StartPost, answerVars, FIInv, AnswerTypeOK, FramedInv, LengthOrNone, Stages, Responding,
         InFlight, Complete, Responses
<1>4. CASE Recv
  BY <1>4 DEF Recv, Deliver, answerVars, FIInv, AnswerTypeOK, FramedInv, LengthOrNone, Stages, Responding,
         InFlight, Complete, Responses
<1>5. ASSUME NEW length \in Lengths, SetHeaders(length) PROVE FIInv'
  BY <1>5, ConnAssumption DEF SetHeaders, NewHeaders, Meant, FIInv, AnswerTypeOK, FramedInv, LengthOrNone, Stages, Responding,
         InFlight, Complete, Responses
<1>6. CASE SendHeaders
  <2>1. CASE pHeaders = None \/ stage # "RDY4_SEND_HEADER"
    BY <1>6, <2>1 DEF SendHeaders, FIInv, AnswerTypeOK, FramedInv, LengthOrNone, Stages, Responding,
         InFlight, Complete, Responses
  <2>2. CASE pHeaders # None /\ stage = "RDY4_SEND_HEADER"
    <3>1. /\ pHeaders \in Nat /\ Meant(outBuf) = pHeaders /\ bodySent = 0
          /\ failed # "SendHeaders"
          /\ UNCHANGED <<pHeaders, outBuf, bodySent>>
      BY <1>6, <2>2 DEF SendHeaders, FIInv, FramedInv, Responding
    <3>2. out \in Seq(Responses) /\ \A i \in 1 .. Len(out) : Complete(out[i])
      BY <2>2, <3>1 DEF FIInv, FramedInv, AnswerTypeOK
    <3>3. ~Fragment
      BY <3>2 DEF Fragment, Complete
    <3>4. ASSUME NEW head \in {"full", "part"}, out' = Append(out, Response(head))
          PROVE  /\ out' \in Seq(Responses) /\ out' # <<>>
                 /\ \A i \in 1 .. Len(out') - 1 : Complete(out'[i])
                 /\ out'[Len(out')] = Response(head)
      <4>1. Response(head) \in Responses
        BY <3>1 DEF Response, Responses, FIInv, AnswerTypeOK
      <4>2. QED
        BY <3>2, <3>4, <4>1
    <3>5. CASE stage' = "RDY4_SEND_BODY" /\ failed' = "none"
               /\ out' = Append(out, Response("full"))
      <4>1. InFlight(Response("full"))'
        BY <3>1, <3>5 DEF InFlight, Response
      <4>2. QED
        BY <3>1, <3>4, <3>5, <4>1
        DEF FIInv, AnswerTypeOK, FramedInv, Stages, LengthOrNone, Responding,
            InFlight, Response
    <3>6. CASE stage' = stage /\ failed' = "SendHeaders" /\ out' = out
      BY <2>2, <3>1, <3>6 DEF FIInv, AnswerTypeOK, FramedInv, LengthOrNone, Stages, Responding,
         InFlight, Complete, Responses
    <3>7. CASE stage' = stage /\ failed' = "SendHeaders"
               /\ out' = Append(out, Response("part"))
      BY <2>2, <3>1, <3>4, <3>7
      DEF FIInv, AnswerTypeOK, FramedInv, Stages, LengthOrNone, Responding,
          Response
    <3>8. QED
      BY <1>6, <2>2, <3>3, <3>5, <3>6, <3>7 DEF SendHeaders
  <2>3. QED
    BY <2>1, <2>2
<1>7. CASE Send
  <2>1. CASE UNCHANGED <<stage, bodySent, out>>
    BY <1>7, <2>1 DEF Send, FIInv, AnswerTypeOK, FramedInv, LengthOrNone, Stages, Responding,
         InFlight, Complete, Responses
  <2>2. ASSUME stage = "RDY4_SEND_BODY",
               NEW n \in 0 .. MaxSend, NEW k \in 0 .. Room(n), NEW msg \in Msgs,
               BodyWritten(k, msg)
        PROVE  FIInv'
    <3>1. /\ out \in Seq(Responses) /\ Len(out) \in Nat \ {0} /\ InFlight(out[Len(out)])
          /\ pHeaders \in Nat /\ bodySent \in Nat /\ out[Len(out)] \in Responses
          /\ \A i \in 1 .. Len(out) - 1 : Complete(out[i])
      BY <2>2 DEF FIInv, AnswerTypeOK, FramedInv, Responding
    <3>2. Room(n) \in Nat /\ bodySent + Room(n) <= pHeaders
      BY <3>1, ConnAssumption DEF Room, InFlight
    <3>3. k \in Nat /\ bodySent + k <= pHeaders
      BY <3>1, <3>2
    <3>4. UNCHANGED <<pHeaders, outBuf, failed>>
      BY <1>7 DEF Send
    <3>5. CASE bodySent + k = pHeaders
      <4>1. PICK e \in Responses : e = Grown(out[Len(out)], k, TRUE)
        BY <3>1, <3>3, GrownOK
      <4>2. Complete(e)
        <5>1. /\ e.done = TRUE /\ e.head = out[Len(out)].head
              /\ e.length = out[Len(out)].length /\ e.body = out[Len(out)].body + k
          <6>1. e = [head |-> out[Len(out)].head, length |-> out[Len(out)].length,
                     body |-> out[Len(out)].body + k, done |-> TRUE]
            BY <4>1, Zenon DEF Grown
          <6>2. QED
            BY <6>1
        <5>2. QED
          BY <3>1, <3>3, <3>5, <5>1 DEF InFlight, Complete
      <4>3. /\ stage' \in {"RDY4_REQUEST", "RDY4_DISCONNECT"} /\ bodySent' = 0
            /\ out' = [out EXCEPT ![Len(out)] = e]
        <5>1. ~(bodySent + k < pHeaders)
          BY <3>1, <3>3, <3>5
        <5>2. QED
          BY <2>2, <4>1, <5>1, Zenon DEF BodyWritten, AfterBody
      <4>4. QED
        BY <2>2, <3>4, <4>2, <4>3, LastDone
    <3>6. CASE bodySent + k < pHeaders
      <4>1. PICK e \in Responses : e = Grown(out[Len(out)], k, FALSE)
        BY <3>1, <3>3, GrownOK
      <4>2. /\ e.done = FALSE /\ e.head = "full" /\ Meant(e.length) = pHeaders
            /\ e.body = bodySent + k
        <5>1. /\ e.done = FALSE /\ e.head = out[Len(out)].head
              /\ e.length = out[Len(out)].length /\ e.body = out[Len(out)].body + k
          <6>1. e = [head |-> out[Len(out)].head, length |-> out[Len(out)].length,
                     body |-> out[Len(out)].body + k, done |-> FALSE]
            BY <4>1, Zenon DEF Grown
          <6>2. QED
            BY <6>1
        <5>2. QED
          BY <3>1, <5>1 DEF InFlight
      <4>3. /\ stage' = stage /\ bodySent' = bodySent + k
            /\ out' = [out EXCEPT ![Len(out)] = e]
        <5>1. ~(bodySent + k >= pHeaders)
          BY <3>1, <3>3, <3>6
        <5>2. QED
          BY <2>2, <4>1, <5>1, Zenon DEF BodyWritten, AfterBody
      <4>4. InFlight(e)' /\ bodySent' \in Nat
        BY <3>1, <3>3, <3>4, <4>2, <4>3 DEF InFlight
      <4>5. QED
        BY <2>2, <3>4, <4>3, <4>4, LastGrows
    <3>7. QED
      BY <3>1, <3>3, <3>5, <3>6
  <2>3. QED
    BY <1>7, <2>1, <2>2 DEF Send
<1>8. CASE UNCHANGED vars
  BY <1>8 DEF vars, answerVars, FIInv, AnswerTypeOK, FramedInv, LengthOrNone, Stages, Responding,
         InFlight, Complete, Responses
<1>9. QED
  BY <1>1, <1>2, <1>3, <1>4, <1>5, <1>6, <1>7, <1>8 DEF Next, Server

(* Every response on the wire is framed by its Content-Length: a response    *)
(* starts only after the one before it is complete, and a complete response  *)
(* has a full head and exactly the declared number of body units, or none if *)
(* it declared none (SetHeaders, SendHeaders and Send).                      *)
THEOREM Framing ==
  ASSUME "resend" \notin Habits, "restyle" \notin Habits
  PROVE  Spec => []ResponsesFramed
<1>1. FIInv /\ [Next]_vars => FIInv'
  BY NextFIInv
<1>2. FIInv => ResponsesFramed
  <2> SUFFICES ASSUME FIInv, NEW i \in 1 .. Len(out)
               PROVE  /\ i < Len(out) => out[i].done
                      /\ out[i].body <= Meant(out[i].length)
                      /\ out[i].done => /\ out[i].head = "full"
                                        /\ out[i].body = Meant(out[i].length)
    BY DEF ResponsesFramed
  <2>1. out[i] \in Responses /\ i \in Nat /\ Len(out) \in Nat /\ i <= Len(out)
    BY DEF FIInv, AnswerTypeOK
  <2>t. out[i].body \in Nat /\ Meant(out[i].length) \in Nat
    BY <2>1 DEF Responses, Meant, LengthOrNone
  <2>2. CASE Complete(out[i])
    BY <2>1, <2>t, <2>2 DEF Complete
  <2>3. CASE i = Len(out)
    <3>1. CASE stage = "RDY4_SEND_BODY"
      <4>1. /\ ~out[i].done /\ pHeaders \in Nat
            /\ out[i].body = bodySent /\ bodySent <= Meant(out[i].length)
        BY <2>3, <3>1 DEF FIInv, FramedInv, InFlight, Responding
      <4> QED BY <2>1, <2>3, <4>1
    <3>2. CASE stage # "RDY4_SEND_BODY"
      <4>1. Complete(out[i]) \/ (~out[i].done /\ out[i].body = 0)
        BY <2>1, <2>3, <3>2 DEF FIInv, FramedInv
      <4> QED BY <2>1, <2>t, <2>2, <2>3, <4>1
    <3> QED BY <3>1, <3>2
  <2>4. QED
    BY <2>1, <2>2, <2>3 DEF FIInv, FramedInv
<1>3. QED
  BY InitFIInv, <1>1, <1>2, PTL DEF Spec

-----------------------------------------------------------------------------
(* The requests *)

(* What clients send is well formed: a POST has a body, of the length that   *)
(* its one Content-Length says, and no line without a colon; nothing else    *)
(* has a body.                                                               *)
Tidy ==
  \A k \in Kinds :
    IF k.line = "POST"
    THEN /\ k.body > 0
         /\ \A i \in 1 .. Len(k.fields) : k.fields[i][1] # "nocolon"
         /\ \E i \in 1 .. Len(k.fields) :
              /\ k.fields[i] = <<"length", k.body>>
              /\ \A j \in 1 .. Len(k.fields) : k.fields[j][1] = "length" => j = i
    ELSE k.body = 0

(* The tokens of a request, by position.                                     *)
Size(k) == Len(k.fields) + 2 + k.body
At(k, n, i) ==
  IF i = 1 THEN Token(k.line, 0, n)
  ELSE IF i <= Len(k.fields) + 1
  THEN Token(k.fields[i - 1][1], k.fields[i - 1][2], n)
  ELSE IF i = Len(k.fields) + 2 THEN Token("CRLFCRLF", 0, n)
  ELSE Token("unit", 0, n)

(* rest is what is still to come of the requests q: request n begins at      *)
(* S[n], which is zero or less if it was read in part. Nothing is missing at *)
(* the end while the link is up.                                             *)
Starts(q, S, rest, up) ==
  /\ S \in [1 .. Len(q) + 1 -> Int]
  /\ \A n \in 1 .. Len(q) :
       S[n + 1] = S[n] + Size(q[n]) /\ S[n + 1] <= S[Len(q) + 1]
  /\ Len(rest) < S[Len(q) + 1] /\ (up => Len(rest) + 1 = S[Len(q) + 1])
  /\ \A n \in 1 .. Len(q) : \A i \in 1 .. Size(q[n]) :
       S[n] + i - 1 \in 1 .. Len(rest) => rest[S[n] + i - 1] = At(q[n], n, i)

-----------------------------------------------------------------------------
(* A set of natural numbers that is not empty has a least one.               *)
LEMMA LeastOne ==
  ASSUME NEW T \in SUBSET Nat, T # {} PROVE \E x \in T : \A y \in T : x <= y
<1>1. PICK x \in T : \A y \in T : ~ (<<y, x>> \in OpToRel(<, Nat))
  <2>1. IsWellFoundedOn(OpToRel(<, Nat), Nat)
    BY NatLessThanWellFounded
  <2> QED BY <2>1, WFMin
<1>2. \A a, b \in Nat : a < b => <<a, b>> \in OpToRel(<, Nat)
  BY DEF OpToRel
<1>3. \A y \in T : ~(y < x) /\ y \in Nat /\ x \in Nat
  BY <1>1, <1>2, Zenon
<1> QED BY <1>3

LEMMA KindMeans ==
  ASSUME NEW k \in Kinds
  PROVE  /\ k.line \in Lines /\ k.body \in Nat /\ Len(k.fields) \in Nat
         /\ k.fields \in Seq(Fields \X Nat)
         /\ \A i \in 1 .. Len(k.fields) :
              k.fields[i][1] \in Fields /\ k.fields[i][2] \in Nat
<1>1. k.line \in Lines /\ k.body \in Nat /\ k.fields \in Seq(Fields \X Nat)
  BY ConnAssumption DEF KindsOK
<1> QED BY <1>1

LEMMA TokenOK ==
  ASSUME NEW t \in Lines \cup Fields \cup {"CRLFCRLF", "unit"}, NEW v \in Nat, NEW n \in Nat
  PROVE  Token(t, v, n) \in Tokens /\ Token(t, v, n).n = n /\ Token(t, v, n).t = t
BY DEF Token, Tokens

LEMMA AtMeans ==
  ASSUME NEW k \in Kinds, NEW n \in Nat, NEW i \in Nat \ {0}
  PROVE  /\ i = 1 => At(k, n, i) = Token(k.line, 0, n)
         /\ i \in 2 .. Len(k.fields) + 1 =>
              At(k, n, i) = Token(k.fields[i - 1][1], k.fields[i - 1][2], n)
         /\ i = Len(k.fields) + 2 => At(k, n, i) = Token("CRLFCRLF", 0, n)
         /\ i > Len(k.fields) + 2 => At(k, n, i) = Token("unit", 0, n)
<1>1. Len(k.fields) \in Nat
  BY KindMeans
<1> QED BY <1>1 DEF At

LEMMA AtType ==
  ASSUME NEW k \in Kinds, NEW n \in Nat, NEW i \in Nat \ {0}
  PROVE  /\ At(k, n, i) \in Tokens /\ At(k, n, i).n = n
         /\ At(k, n, i).t = "CRLFCRLF" <=> i = Len(k.fields) + 2
         /\ i \in 2 .. Len(k.fields) + 1 => At(k, n, i).t \in Fields
<1>1. /\ k.line \in Lines /\ Len(k.fields) \in Nat
      /\ \A j \in 1 .. Len(k.fields) :
           k.fields[j][1] \in Fields /\ k.fields[j][2] \in Nat
  BY KindMeans
<1> DEFINE T == At(k, n, i)
<1> HIDE DEF T
<1>2. ASSUME NEW t \in Lines \cup Fields \cup {"CRLFCRLF", "unit"}, NEW v \in Nat,
             T = Token(t, v, n)
      PROVE  T \in Tokens /\ T.n = n /\ T.t = t
  <2>1. Token(t, v, n) \in Tokens /\ Token(t, v, n).n = n /\ Token(t, v, n).t = t
    BY TokenOK
  <2> QED BY <1>2, <2>1, Zenon
<1>3. CASE i = 1
  <2>1. T = Token(k.line, 0, n)
    BY <1>3, AtMeans DEF T
  <2>2. T \in Tokens /\ T.n = n /\ T.t = k.line
    BY <1>1, <1>2, <2>1
  <2>3. k.line # "CRLFCRLF" /\ i # Len(k.fields) + 2 /\ ~(i \in 2 .. Len(k.fields) + 1)
    BY <1>1, <1>3 DEF Lines
  <2> QED BY <2>2, <2>3, Zenon DEF T
<1>4. CASE i \in 2 .. Len(k.fields) + 1
  <2>1. T = Token(k.fields[i - 1][1], k.fields[i - 1][2], n)
    BY <1>4, AtMeans DEF T
  <2>2. i - 1 \in 1 .. Len(k.fields)
    BY <1>1, <1>4
  <2>3. k.fields[i - 1][1] \in Fields /\ k.fields[i - 1][2] \in Nat
    BY <1>1, <2>2, Zenon
  <2>4. T \in Tokens /\ T.n = n /\ T.t \in Fields
    BY <1>2, <2>1, <2>3
  <2>5. i # Len(k.fields) + 2 /\ "CRLFCRLF" \notin Fields
    BY <1>1, <1>4 DEF Fields
  <2> QED BY <2>4, <2>5, Zenon DEF T
<1>5. CASE i = Len(k.fields) + 2
  <2>1. T = Token("CRLFCRLF", 0, n)
    BY <1>5, AtMeans DEF T
  <2>2. T \in Tokens /\ T.n = n /\ T.t = "CRLFCRLF"
    BY <1>2, <2>1
  <2>3. ~(i \in 2 .. Len(k.fields) + 1)
    BY <1>1, <1>5
  <2> QED BY <1>5, <2>2, <2>3, Zenon DEF T
<1>6. CASE i > Len(k.fields) + 2
  <2>1. T = Token("unit", 0, n)
    BY <1>6, AtMeans DEF T
  <2>2. T \in Tokens /\ T.n = n /\ T.t = "unit"
    BY <1>2, <2>1
  <2>3. ~(i \in 2 .. Len(k.fields) + 1) /\ i # Len(k.fields) + 2
    BY <1>1, <1>6
  <2> QED BY <2>2, <2>3, Zenon DEF T
<1> QED BY <1>1, <1>3, <1>4, <1>5, <1>6

(* A function on 1 .. n is a sequence.                                       *)
LEMMA IsSeq ==
  ASSUME NEW T, NEW n \in Nat, NEW f \in [1 .. n -> T]
  PROVE  f \in Seq(T) /\ Len(f) = n
  OBVIOUS

LEMMA Joined ==
  ASSUME NEW S, NEW s \in Seq(S), NEW t \in Seq(S), NEW p, p = s \o t
  PROVE  /\ p \in Seq(S) /\ Len(p) = Len(s) + Len(t)
         /\ \A i \in 1 .. Len(s) : p[i] = s[i]
         /\ \A i \in 1 .. Len(t) : p[Len(s) + i] = t[i]
         /\ \A i \in Len(s) + 1 .. Len(s) + Len(t) : p[i] = t[i - Len(s)]
<1>1. /\ p \in Seq(S) /\ Len(p) = Len(s) + Len(t)
      /\ \A i \in 1 .. Len(s) + Len(t) :
           p[i] = IF i <= Len(s) THEN s[i] ELSE t[i - Len(s)]
  BY ConcatProperties
<1>2. Len(s) \in Nat /\ Len(t) \in Nat
  OBVIOUS
<1> QED BY <1>1, <1>2

LEMMA TextMeans ==
  ASSUME NEW k \in Kinds, NEW n \in Nat
  PROVE  /\ Text(k, n) \in Seq(Tokens) /\ Len(Text(k, n)) = Size(k)
         /\ \A i \in 1 .. Size(k) : Text(k, n)[i] = At(k, n, i)
<1> DEFINE A == [i \in 1 .. Len(k.fields) |-> Token(k.fields[i][1], k.fields[i][2], n)]
           B == [i \in 1 .. k.body |-> Token("unit", 0, n)]
           l == Token(k.line, 0, n)
           c == Token("CRLFCRLF", 0, n)
<1>1. /\ k.line \in Lines /\ Len(k.fields) \in Nat /\ k.body \in Nat
      /\ \A j \in 1 .. Len(k.fields) :
           k.fields[j][1] \in Fields /\ k.fields[j][2] \in Nat
  BY KindMeans
<1>2. /\ l \in Tokens /\ c \in Tokens
      /\ A \in [1 .. Len(k.fields) -> Tokens] /\ B \in [1 .. k.body -> Tokens]
  BY <1>1 DEF Token, Tokens
<1>3. /\ A \in Seq(Tokens) /\ Len(A) = Len(k.fields)
      /\ B \in Seq(Tokens) /\ Len(B) = k.body
  BY <1>1, <1>2, IsSeq
<1>4. /\ <<l>> \in Seq(Tokens) /\ Len(<<l>>) = 1 /\ <<l>>[1] = l
      /\ <<c>> \in Seq(Tokens) /\ Len(<<c>>) = 1 /\ <<c>>[1] = c
  BY <1>2
<1>5. \A i \in 1 .. Len(k.fields) : A[i] = Token(k.fields[i][1], k.fields[i][2], n)
  OBVIOUS
<1>6. \A i \in 1 .. k.body : B[i] = Token("unit", 0, n)
  OBVIOUS
<1>7. Text(k, n) = ((<<l>> \o A) \o <<c>>) \o B
  BY DEF Text
<1> HIDE DEF A, B, l, c
<1> DEFINE u == <<l>> \o A
           v == u \o <<c>>
           t == v \o B
           m == Len(k.fields)
<1>8. u = <<l>> \o A /\ v = u \o <<c>> /\ t = v \o B
  OBVIOUS
<1>11. Text(k, n) = t
  BY <1>7
<1> HIDE DEF u, v, t
<1>12. /\ Len(u) = m + 1 /\ Len(v) = m + 2 /\ Len(t) = Size(k) /\ m \in Nat
       /\ u[1] = l /\ v[m + 2] = c /\ t \in Seq(Tokens)
       /\ \A i \in 2 .. m + 1 : u[i] = A[i - 1]
       /\ \A i \in 1 .. m + 1 : v[i] = u[i]
       /\ \A i \in 1 .. m + 2 : t[i] = v[i]
       /\ \A i \in m + 3 .. m + 2 + k.body : t[i] = B[i - (m + 2)]
  <2>1. /\ u \in Seq(Tokens) /\ Len(u) = m + 1 /\ u[1] = l
        /\ \A i \in 2 .. m + 1 : u[i] = A[i - 1]
    <3>1. /\ u \in Seq(Tokens) /\ Len(u) = 1 + m
          /\ \A i \in 1 .. 1 : u[i] = <<l>>[i]
          /\ \A i \in 1 + 1 .. 1 + m : u[i] = A[i - 1]
      <4>1. /\ u \in Seq(Tokens) /\ Len(u) = Len(<<l>>) + Len(A)
            /\ \A i \in 1 .. Len(<<l>>) : u[i] = <<l>>[i]
            /\ \A i \in Len(<<l>>) + 1 .. Len(<<l>>) + Len(A) : u[i] = A[i - Len(<<l>>)]
        BY <1>3, <1>4, <1>8, Joined
      <4> QED BY <1>3, <1>4, <4>1
    <3> QED BY <1>1, <1>4, <3>1
  <2>2. /\ v \in Seq(Tokens) /\ Len(v) = m + 2 /\ v[m + 2] = c
        /\ \A i \in 1 .. m + 1 : v[i] = u[i]
    <3>1. /\ v \in Seq(Tokens) /\ Len(v) = Len(u) + Len(<<c>>)
          /\ \A i \in 1 .. Len(u) : v[i] = u[i]
          /\ \A i \in 1 .. Len(<<c>>) : v[Len(u) + i] = <<c>>[i]
      BY <1>4, <1>8, <2>1, Joined
    <3> QED BY <1>1, <1>4, <2>1, <3>1
  <2>3. /\ t \in Seq(Tokens) /\ Len(t) = m + 2 + k.body
        /\ \A i \in 1 .. m + 2 : t[i] = v[i]
        /\ \A i \in m + 3 .. m + 2 + k.body : t[i] = B[i - (m + 2)]
    <3>1. /\ t \in Seq(Tokens) /\ Len(t) = Len(v) + Len(B)
          /\ \A i \in 1 .. Len(v) : t[i] = v[i]
          /\ \A i \in Len(v) + 1 .. Len(v) + Len(B) : t[i] = B[i - Len(v)]
      <4>1. t = v \o B /\ v \in Seq(Tokens) /\ B \in Seq(Tokens)
        BY <1>3, <1>8, <2>2
      <4> QED BY <4>1, Joined
    <3> QED BY <1>1, <1>3, <2>2, <3>1
  <2> QED BY <1>1, <2>1, <2>2, <2>3 DEF Size
<1>13. ASSUME NEW i \in 1 .. Size(k) PROVE t[i] = At(k, n, i)
  <2>0. i \in Nat \ {0} /\ i <= m + 2 + k.body /\ m \in Nat /\ k.body \in Nat
    BY <1>1, <1>12 DEF Size
  <2>1. CASE i = 1
    <3>1. t[i] = l
      BY <1>12, <2>0, <2>1
    <3> QED BY <2>0, <2>1, <3>1, AtMeans DEF l
  <2>2. CASE i \in 2 .. m + 1
    <3>1. i \in 1 .. m + 1 /\ i \in 1 .. m + 2 /\ i - 1 \in 1 .. m
      BY <2>0, <2>2
    <3>3. t[i] = A[i - 1]
      BY <1>12, <2>2, <3>1, Zenon
    <3>2. A[i - 1] = Token(k.fields[i - 1][1], k.fields[i - 1][2], n)
      BY <1>5, <3>1, Zenon
    <3> QED BY <2>0, <2>2, <3>2, <3>3, AtMeans
  <2>3. CASE i = m + 2
    <3>1. t[i] = c
      <4>1. i \in 1 .. m + 2
        BY <2>0, <2>3
      <4> QED BY <1>12, <2>3, <4>1, Zenon
    <3> QED BY <2>0, <2>3, <3>1, AtMeans DEF c
  <2>4. CASE i > m + 2
    <3>1. i \in m + 3 .. m + 2 + k.body /\ i - (m + 2) \in 1 .. k.body
      BY <2>0, <2>4
    <3>2. t[i] = Token("unit", 0, n)
      BY <1>6, <1>12, <3>1, Zenon
    <3> QED BY <2>0, <2>4, <3>2, AtMeans
  <2>5. i = 1 \/ i \in 2 .. m + 1 \/ i = m + 2 \/ i > m + 2
    BY <2>0
  <2> QED BY <2>1, <2>2, <2>3, <2>4, <2>5
<1> QED BY <1>11, <1>12, <1>13, Zenon

-----------------------------------------------------------------------------
(* What is left of two sequences after the first k tokens.                   *)
LEMMA FromMeans ==
  ASSUME NEW a \in Seq(Tokens), NEW k \in 0 .. Len(a)
  PROVE  /\ From(a, k + 1) \in Seq(Tokens) /\ Len(From(a, k + 1)) = Len(a) - k
         /\ \A i \in 1 .. Len(a) - k : From(a, k + 1)[i] = a[i + k]
<1>1. Len(a) \in Nat /\ \A i \in k + 1 .. Len(a) : a[i] \in Tokens
  OBVIOUS
<1>2. /\ SubSeq(a, k + 1, Len(a)) \in Seq(Tokens)
      /\ Len(SubSeq(a, k + 1, Len(a))) =
           IF k + 1 <= Len(a) THEN Len(a) - (k + 1) + 1 ELSE 0
      /\ \A i \in 1 .. Len(a) - (k + 1) + 1 :
           SubSeq(a, k + 1, Len(a))[i] = a[k + 1 + i - 1]
  BY <1>1, SubSeqProperties
<1> QED BY <1>1, <1>2 DEF From

LEMMA PartMeans ==
  ASSUME NEW a \in Seq(Tokens), NEW k \in 0 .. Len(a)
  PROVE  /\ SubSeq(a, 1, k) \in Seq(Tokens) /\ Len(SubSeq(a, 1, k)) = k
         /\ \A i \in 1 .. k : SubSeq(a, 1, k)[i] = a[i]
<1>1. Len(a) \in Nat /\ \A i \in 1 .. k : a[i] \in Tokens
  OBVIOUS
<1>2. /\ SubSeq(a, 1, k) \in Seq(Tokens)
      /\ Len(SubSeq(a, 1, k)) = IF 1 <= k THEN k - 1 + 1 ELSE 0
      /\ \A i \in 1 .. k - 1 + 1 : SubSeq(a, 1, k)[i] = a[1 + i - 1]
  BY <1>1, SubSeqProperties
<1> QED BY <1>1, <1>2

LEMMA FromJoined ==
  ASSUME NEW a \in Seq(Tokens), NEW w \in Seq(Tokens), NEW k \in 0 .. Len(a)
  PROVE  /\ a \o w \in Seq(Tokens) /\ From(a, k + 1) \o w \in Seq(Tokens)
         /\ k \in 0 .. Len(a \o w) /\ Len(From(a, k + 1) \o w) = Len(a \o w) - k
         /\ \A i \in 1 .. Len(a \o w) - k : (From(a, k + 1) \o w)[i] = (a \o w)[i + k]
<1> DEFINE b == From(a, k + 1)
           p == a \o w
           r == b \o w
<1>1. /\ b \in Seq(Tokens) /\ Len(b) = Len(a) - k
      /\ \A i \in 1 .. Len(a) - k : b[i] = a[i + k]
  BY FromMeans
<1> HIDE DEF b
<1>2. /\ p \in Seq(Tokens) /\ Len(p) = Len(a) + Len(w)
      /\ \A i \in 1 .. Len(a) : p[i] = a[i]
      /\ \A i \in Len(a) + 1 .. Len(a) + Len(w) : p[i] = w[i - Len(a)]
  BY Joined
<1>3. /\ r \in Seq(Tokens) /\ Len(r) = Len(b) + Len(w)
      /\ \A i \in 1 .. Len(b) : r[i] = b[i]
      /\ \A i \in Len(b) + 1 .. Len(b) + Len(w) : r[i] = w[i - Len(b)]
  <2>1. b \in Seq(Tokens)
    BY <1>1
  <2> QED BY <2>1, Joined
<1> HIDE DEF p, r
<1>4. Len(a) \in Nat /\ Len(w) \in Nat
  OBVIOUS
<1>5. k \in 0 .. Len(p) /\ Len(r) = Len(p) - k
  BY <1>1, <1>2, <1>3, <1>4
<1>6. ASSUME NEW i \in 1 .. Len(p) - k PROVE r[i] = p[i + k]
  <2>1. CASE i <= Len(a) - k
    <3>1. i \in 1 .. Len(a) - k /\ i \in 1 .. Len(b) /\ i + k \in 1 .. Len(a)
      BY <1>1, <1>2, <1>4, <2>1
    <3> QED BY <1>1, <1>2, <1>3, <3>1
  <2>2. CASE i > Len(a) - k
    <3>1. /\ i \in Len(b) + 1 .. Len(b) + Len(w)
          /\ i + k \in Len(a) + 1 .. Len(a) + Len(w) /\ i - Len(b) = i + k - Len(a)
      BY <1>1, <1>2, <1>4, <2>2
    <3>2. p[i + k] = w[i + k - Len(a)]
      <4>1. ASSUME NEW j \in Len(a) + 1 .. Len(a) + Len(w) PROVE p[j] = w[j - Len(a)]
        BY <1>2
      <4> QED BY <3>1, <4>1
    <3>3. r[i] = w[i - Len(b)]
      BY <1>3, <3>1, Zenon
    <3> QED BY <3>1, <3>2, <3>3
  <2> QED BY <1>2, <1>4, <2>1, <2>2
<1> QED BY <1>2, <1>3, <1>5, <1>6 DEF b, p, r

(* A read moves tokens from one sequence to the other.                       *)
LEMMA ReadKeeps ==
  ASSUME NEW a \in Seq(Tokens), NEW w \in Seq(Tokens), NEW i \in 0 .. Len(w)
  PROVE  /\ a \o SubSeq(w, 1, i) \in Seq(Tokens) /\ From(w, i + 1) \in Seq(Tokens)
         /\ (a \o SubSeq(w, 1, i)) \o From(w, i + 1) = a \o w
<1>1. Len(w) \in Nat /\ SubSeq(w, 1, i) \in Seq(Tokens) /\ From(w, i + 1) \in Seq(Tokens)
  BY PartMeans, FromMeans
<1>2. SubSeq(w, 1, i) \o SubSeq(w, i + 1, Len(w)) = SubSeq(w, 1, Len(w))
  <2>1. /\ 1 \in 1 .. Len(w) + 1 /\ i \in 1 - 1 .. Len(w) /\ Len(w) \in i .. Len(w)
    BY <1>1
  <2> QED BY <2>1, ConcatAdjacentSubSeq
<1>3. SubSeq(w, 1, Len(w)) = w
  BY SubSeqFull
<1>4. (a \o SubSeq(w, 1, i)) \o From(w, i + 1) = a \o (SubSeq(w, 1, i) \o From(w, i + 1))
  <2> DEFINE x == SubSeq(w, 1, i)
             y == From(w, i + 1)
  <2>1. x \in Seq(Tokens) /\ y \in Seq(Tokens)
    BY <1>1
  <2> HIDE DEF x, y
  <2>2. (a \o x) \o y = a \o (x \o y)
    BY <2>1, ConcatAssociative
  <2> QED BY <2>2 DEF x, y
<1> QED BY <1>1, <1>2, <1>3, <1>4, ConcatProperties, Zenon DEF From

-----------------------------------------------------------------------------
(* What is left after k more tokens were read.                               *)
LEMMA Dropped ==
  ASSUME NEW q \in Seq(Kinds), NEW S, NEW up \in BOOLEAN,
         NEW rest \in Seq(Tokens), NEW less \in Seq(Tokens), NEW k \in 0 .. Len(rest),
         Starts(q, S, rest, up), Len(less) = Len(rest) - k,
         \A i \in 1 .. Len(rest) - k : less[i] = rest[i + k],
         NEW R, R = [n \in 1 .. Len(q) + 1 |-> S[n] - k]
  PROVE  Starts(q, R, less, up)
<1>1. Len(q) \in Nat /\ Len(rest) \in Nat /\ S \in [1 .. Len(q) + 1 -> Int]
  BY DEF Starts
<1>2. R \in [1 .. Len(q) + 1 -> Int] /\ \A n \in 1 .. Len(q) + 1 : R[n] = S[n] - k
  BY <1>1
<1>3. ASSUME NEW n \in 1 .. Len(q)
      PROVE  /\ n \in 1 .. Len(q) + 1 /\ n + 1 \in 1 .. Len(q) + 1 /\ S[n] \in Int
             /\ Size(q[n]) \in Nat /\ S[n + 1] \in Int
  <2>1. q[n] \in Kinds /\ n \in 1 .. Len(q) + 1 /\ n + 1 \in 1 .. Len(q) + 1
    BY <1>1
  <2>2. Size(q[n]) \in Nat
    BY <2>1, KindMeans DEF Size
  <2> QED BY <1>1, <2>1, <2>2
<1>4. Len(q) + 1 \in 1 .. Len(q) + 1 /\ S[Len(q) + 1] \in Int
  <2>1. Len(q) + 1 \in 1 .. Len(q) + 1
    BY <1>1
  <2> QED BY <1>1, <2>1, Zenon
<1>5. \A n \in 1 .. Len(q) :
        R[n + 1] = R[n] + Size(q[n]) /\ R[n + 1] <= R[Len(q) + 1]
  <2> SUFFICES ASSUME NEW n \in 1 .. Len(q)
               PROVE  R[n + 1] = R[n] + Size(q[n]) /\ R[n + 1] <= R[Len(q) + 1]
    OBVIOUS
  <2>1. S[n + 1] = S[n] + Size(q[n]) /\ S[n + 1] <= S[Len(q) + 1]
    BY DEF Starts
  <2>2. R[n] = S[n] - k /\ R[n + 1] = S[n + 1] - k /\ R[Len(q) + 1] = S[Len(q) + 1] - k
    BY <1>2, <1>3, <1>4, Zenon
  <2>3. S[n] \in Int /\ S[n + 1] \in Int /\ S[Len(q) + 1] \in Int /\ Size(q[n]) \in Nat
    BY <1>3, <1>4
  <2>4. k \in Int
    BY <1>1
  <2>5. ASSUME NEW a \in Int, NEW b \in Int, NEW c \in Int, NEW d \in Int,
               b = a + d, b <= c
        PROVE  b - k = (a - k) + d /\ b - k <= c - k
    BY <2>4, <2>5
  <2>6. /\ S[n + 1] - k = (S[n] - k) + Size(q[n])
        /\ S[n + 1] - k <= S[Len(q) + 1] - k
    BY <2>1, <2>3, <2>5
  <2> QED BY <2>2, <2>6, Zenon
<1>6. Len(less) < R[Len(q) + 1] /\ (up => Len(less) + 1 = R[Len(q) + 1])
  BY <1>1, <1>2, <1>4 DEF Starts
<1>7. ASSUME NEW n \in 1 .. Len(q), NEW i \in 1 .. Size(q[n]),
             R[n] + i - 1 \in 1 .. Len(less)
      PROVE  less[R[n] + i - 1] = At(q[n], n, i)
  <2>1. R[n] = S[n] - k /\ S[n] \in Int /\ Size(q[n]) \in Nat
    BY <1>2, <1>3
  <2>2. /\ S[n] + i - 1 \in 1 .. Len(rest) /\ R[n] + i - 1 \in 1 .. Len(rest) - k
        /\ (R[n] + i - 1) + k = S[n] + i - 1
    <3>1. R[n] + i - 1 \in 1 .. Len(rest) - k /\ R[n] + i - 1 = S[n] - k + i - 1
      BY <1>7, <2>1
    <3>2. i \in Int /\ k \in Nat /\ Len(rest) \in Nat /\ S[n] \in Int
      BY <1>1, <2>1
    <3>3. ASSUME NEW x \in Int, x - k + i - 1 \in 1 .. Len(rest) - k
          PROVE  x + i - 1 \in 1 .. Len(rest) /\ (x - k + i - 1) + k = x + i - 1
      BY <3>2, <3>3
    <3> QED BY <3>1, <3>2, <3>3
  <2>3. rest[S[n] + i - 1] = At(q[n], n, i)
    BY <2>2, Zenon DEF Starts
  <2>4. less[R[n] + i - 1] = rest[(R[n] + i - 1) + k]
    BY <2>2, Zenon
  <2> QED BY <2>2, <2>3, <2>4, Zenon
<1> QED BY <1>2, <1>5, <1>6, <1>7 DEF Starts

(* What is left when the link is lost.                                       *)
LEMMA CutOff ==
  ASSUME NEW q \in Seq(Kinds), NEW S, NEW up \in BOOLEAN,
         NEW rest \in Seq(Tokens), NEW less \in Seq(Tokens),
         Starts(q, S, rest, up), Len(less) <= Len(rest),
         \A i \in 1 .. Len(less) : less[i] = rest[i]
  PROVE  Starts(q, S, less, FALSE)
<1>1. Len(q) \in Nat /\ Len(rest) \in Nat /\ Len(less) \in Nat
  OBVIOUS
<1>2. S \in [1 .. Len(q) + 1 -> Int] /\ Len(less) < S[Len(q) + 1]
  <2>1. S \in [1 .. Len(q) + 1 -> Int] /\ Len(rest) < S[Len(q) + 1]
    BY DEF Starts
  <2> QED BY <1>1, <2>1
<1>3. ASSUME NEW n \in 1 .. Len(q), NEW i \in 1 .. Size(q[n]),
             S[n] + i - 1 \in 1 .. Len(less)
      PROVE  less[S[n] + i - 1] = At(q[n], n, i)
  <2>1. S[n] + i - 1 \in 1 .. Len(rest)
    BY <1>1, <1>3
  <2> QED BY <1>3, <2>1 DEF Starts
<1>4. \A n \in 1 .. Len(q) :
        S[n + 1] = S[n] + Size(q[n]) /\ S[n + 1] <= S[Len(q) + 1]
  BY DEF Starts
<1> QED BY <1>2, <1>3, <1>4, Zenon DEF Starts

LEMMA TextAdded ==
  ASSUME NEW rest \in Seq(Tokens), NEW k \in Kinds, NEW n \in Nat
  PROVE  /\ rest \o Text(k, n) \in Seq(Tokens)
         /\ Len(rest \o Text(k, n)) = Len(rest) + Size(k)
         /\ \A i \in 1 .. Len(rest) : (rest \o Text(k, n))[i] = rest[i]
         /\ \A i \in 1 .. Size(k) : (rest \o Text(k, n))[Len(rest) + i] = Text(k, n)[i]
<1> DEFINE text == Text(k, n)
           more == rest \o text
<1>1. text \in Seq(Tokens) /\ Len(text) = Size(k) /\ more = rest \o text
  BY TextMeans
<1> HIDE DEF text, more
<1>2. /\ more \in Seq(Tokens) /\ Len(more) = Len(rest) + Size(k)
      /\ \A i \in 1 .. Len(rest) : more[i] = rest[i]
      /\ \A i \in 1 .. Size(k) : more[Len(rest) + i] = text[i]
  <2>1. text \in Seq(Tokens) /\ more = rest \o text
    BY <1>1
  <2>2. /\ more \in Seq(Tokens) /\ Len(more) = Len(rest) + Len(text)
        /\ \A i \in 1 .. Len(rest) : more[i] = rest[i]
        /\ \A i \in 1 .. Len(text) : more[Len(rest) + i] = text[i]
    BY <2>1, Joined
  <2>3. Len(text) = Size(k)
    BY <1>1
  <2> QED BY <2>2, <2>3, Zenon
<1> QED BY <1>2 DEF more, text

(* What is to come when another request is sent.                             *)
LEMMA OneMore ==
  ASSUME NEW q \in Seq(Kinds), NEW S, NEW rest \in Seq(Tokens), NEW k \in Kinds,
         Starts(q, S, rest, TRUE)
  PROVE  \E R : /\ Starts(Append(q, k), R, rest \o Text(k, Len(q) + 1), TRUE)
                /\ \A n \in 1 .. Len(q) + 1 : R[n] = S[n]
<1> DEFINE m == Len(q) + 1
           text == Text(k, m)
           p == Append(q, k)
           more == rest \o text
           R == [n \in 1 .. m + 1 |-> IF n <= m THEN S[n] ELSE S[m] + Size(k)]
<1>1. Len(q) \in Nat /\ Len(rest) \in Nat /\ m \in Nat /\ m \in 1 .. m
  OBVIOUS
<1>2. /\ S \in [1 .. m -> Int] /\ Len(rest) + 1 = S[m]
      /\ \A n \in 1 .. Len(q) : S[n + 1] = S[n] + Size(q[n]) /\ S[n + 1] <= S[m]
      /\ \A n \in 1 .. Len(q) : \A i \in 1 .. Size(q[n]) :
           S[n] + i - 1 \in 1 .. Len(rest) => rest[S[n] + i - 1] = At(q[n], n, i)
  BY DEF Starts
<1>3. /\ text \in Seq(Tokens) /\ Len(text) = Size(k)
      /\ \A i \in 1 .. Size(k) : text[i] = At(k, m, i)
  BY <1>1, TextMeans
<1>4. /\ p \in Seq(Kinds) /\ Len(p) = m /\ p[m] = k
      /\ \A n \in 1 .. Len(q) : p[n] = q[n]
  BY AppendProperties
<1>5. /\ more \in Seq(Tokens) /\ Len(more) = Len(rest) + Size(k)
      /\ \A i \in 1 .. Len(rest) : more[i] = rest[i]
      /\ \A i \in 1 .. Size(k) : more[Len(rest) + i] = text[i]
  BY <1>1, TextAdded
<1> HIDE DEF text, p, more
<1>6. Size(k) \in Nat /\ \A n \in 1 .. m : S[n] \in Int
  <2>1. Size(k) \in Nat
    BY KindMeans DEF Size
  <2> QED BY <1>2, <2>1
<1>7. /\ R \in [1 .. m + 1 -> Int] /\ R[m + 1] = S[m] + Size(k)
      /\ \A n \in 1 .. m : R[n] = S[n]
  BY <1>1, <1>6
<1> HIDE DEF R, m
<1>8. ASSUME NEW n \in 1 .. m
      PROVE  R[n + 1] = R[n] + Size(p[n]) /\ R[n + 1] <= R[m + 1]
  <2>1. CASE n = m
    BY <1>1, <1>4, <1>6, <1>7, <2>1
  <2>2. CASE n # m
    <3>1. n \in 1 .. Len(q) /\ n + 1 \in 1 .. m
      BY <1>1, <2>2 DEF m
    <3>2. R[n + 1] = S[n + 1] /\ R[n] = S[n] /\ p[n] = q[n]
      BY <1>4, <1>7, <3>1
    <3>3. S[n + 1] = S[n] + Size(q[n]) /\ S[n + 1] <= S[m]
      BY <1>2, <3>1
    <3>4. S[n + 1] \in Int /\ S[m] \in Int
      BY <1>1, <1>6, <3>1
    <3> QED BY <1>6, <1>7, <3>2, <3>3, <3>4
  <2> QED BY <2>1, <2>2
<1>9. Len(more) + 1 = R[m + 1] /\ Len(more) < R[m + 1]
  BY <1>1, <1>2, <1>5, <1>6, <1>7
<1>10. ASSUME NEW n \in 1 .. m, NEW i \in 1 .. Size(p[n]), R[n] + i - 1 \in 1 .. Len(more)
       PROVE  more[R[n] + i - 1] = At(p[n], n, i)
  <2>1. CASE n = m
    <3>1. p[n] = k /\ R[n] = Len(rest) + 1
      BY <1>1, <1>2, <1>4, <1>7, <2>1
    <3>2. i \in 1 .. Size(k)
      BY <3>1
    <3>3. R[n] + i - 1 = Len(rest) + i
      BY <1>1, <1>6, <3>1, <3>2
    <3>4. more[Len(rest) + i] = At(k, m, i)
      BY <1>3, <1>5, <3>2, Zenon
    <3> QED BY <2>1, <3>1, <3>3, <3>4, Zenon
  <2>2. CASE n # m
    <3>1. n \in 1 .. Len(q) /\ n + 1 \in 1 .. m
      BY <1>1, <2>2 DEF m
    <3>2. R[n] = S[n] /\ p[n] = q[n] /\ i \in 1 .. Size(q[n])
      BY <1>4, <1>7, <3>1
    <3>3. S[n + 1] = S[n] + Size(q[n]) /\ S[n + 1] <= S[m]
      BY <1>2, <3>1
    <3>4. S[n] \in Int /\ S[n + 1] \in Int /\ S[m] \in Int
      BY <1>1, <1>6, <3>1
    <3>5. q[n] \in Kinds /\ Size(q[n]) \in Nat
      <4>1. q[n] \in Kinds
        BY <3>1
      <4> QED BY <4>1, KindMeans DEF Size
    <3>6. S[n] + i - 1 \in 1 .. Len(rest)
      BY <1>1, <1>2, <1>10, <3>2, <3>3, <3>4, <3>5
    <3>7. rest[S[n] + i - 1] = At(q[n], n, i)
      BY <1>2, <3>1, <3>2, <3>6
    <3>8. more[S[n] + i - 1] = rest[S[n] + i - 1]
      BY <1>5, <3>6
    <3> QED BY <3>2, <3>7, <3>8
  <2> QED BY <2>1, <2>2
<1>11. Starts(p, R, more, TRUE)
  <2>1. Len(p) = m
    BY <1>4
  <2> QED BY <2>1, <1>7, <1>8, <1>9, <1>10, Zenon DEF Starts
<1> QED BY <1>7, <1>11 DEF p, more, text, m

-----------------------------------------------------------------------------
(* BodyOf(n) has been delivered up to its m-th unit.                         *)
BodyTo(n, m) == Len(body) = m /\ \A i \in 1 .. m : body[i] = Token("unit", 0, n)

Answering == {"RDY4_SET_HEADER", "RDY4_SEND_HEADER", "RDY4_SEND_BODY"}

(* Where the server is in what is still to come, at each stage.              *)
Due(S) ==
  /\ stage = "RDY4_REQUEST" => cur \in 0 .. Len(sent) /\ S[cur + 1] = 1
  /\ stage \in Answering =>
       /\ cur \in 1 .. Len(sent) /\ S[cur + 1] = 1
       /\ BodyTo(cur, sent[cur].body)
  /\ stage = "RDY4_RECV_POST" =>
       /\ cur \in 1 .. Len(sent) /\ BodyTo(cur, postRead)
       /\ postBytes = sent[cur].body /\ postRead < postBytes
       /\ S[cur + 1] = 1 + postBytes - postRead
  /\ stage = "RDY4_PARSE" /\ failed = "none" =>
       /\ cur + 1 \in 1 .. Len(sent) /\ S[cur + 2] = 1 + sent[cur + 1].body
       /\ Len(request) = Len(sent[cur + 1].fields) + 1
       /\ \A i \in 1 .. Len(request) : request[i] = At(sent[cur + 1], cur + 1, i)
  /\ stage = "RDY4_PARSE" /\ failed # "none" /\ request # <<>> =>
       \E n \in 1 .. Len(sent) :
         /\ sent[n].body = 0 /\ S[n + 1] = 1
         /\ \A i \in 1 .. Len(request) : request[i].t \in Fields /\ request[i].n = n

StreamTypeOK ==
  /\ link \in {"up", "closed", "broken"} /\ stage \in Stages
  /\ wire \in Seq(Tokens) /\ curBuf \in Seq(Tokens)
  /\ request \in Seq(Tokens) /\ body \in Seq(Tokens)
  /\ sent \in Seq(Kinds) /\ cur \in Nat
  /\ postBytes \in Nat /\ postRead \in Nat

StreamInv ==
  /\ StreamTypeOK
  /\ \E S : Starts(sent, S, curBuf \o wire, link = "up") /\ Due(S)

(* Steps that neither read nor hand on anything that the client sent.        *)
LEMMA StreamKept ==
  ASSUME StreamInv,
         UNCHANGED <<link, wire, sent, curBuf, request, cur, postBytes, postRead, body>>,
         \/ stage' = stage /\ (stage = "RDY4_PARSE" => failed' = failed)
         \/ stage' = "RDY4_DISCONNECT"
         \/ stage \in Answering /\ stage' \in Answering \cup {"RDY4_REQUEST"}
  PROVE  StreamInv'
<1>1. PICK S : Starts(sent, S, curBuf \o wire, link = "up") /\ Due(S)
  BY DEF StreamInv
<1>2. StreamTypeOK'
  BY DEF StreamInv, StreamTypeOK, Stages, Answering
<1>3. Starts(sent, S, curBuf \o wire, link = "up")'
  BY <1>1, Zenon
<1>4. Due(S)'
  <2>1. CASE stage' = stage /\ (stage = "RDY4_PARSE" => failed' = failed)
    BY <1>1, <2>1 DEF Due, BodyTo
  <2>2. CASE stage' = "RDY4_DISCONNECT"
    BY <2>2 DEF Due, Answering
  <2>3. CASE stage \in Answering /\ stage' \in Answering \cup {"RDY4_REQUEST"}
    <3>1. cur \in 1 .. Len(sent) /\ S[cur + 1] = 1 /\ BodyTo(cur, sent[cur].body)
      BY <1>1, <2>3 DEF Due
    <3>2. cur \in 0 .. Len(sent)
      BY <3>1
    <3>3. stage' \notin {"RDY4_PARSE", "RDY4_RECV_POST"}
      BY <2>3 DEF Answering
    <3>4. UNCHANGED <<sent, cur, body>>
      OBVIOUS
    <3> QED BY <3>1, <3>2, <3>3, <3>4, Zenon DEF Due, BodyTo
  <2> QED BY <2>1, <2>2, <2>3
<1> QED BY <1>2, <1>3, <1>4, Zenon DEF StreamInv

LEMMA ClientSendKeeps ==
  ASSUME StreamInv, NEW k \in Kinds, ClientSend(k) PROVE StreamInv'
<1>1. PICK S : Starts(sent, S, curBuf \o wire, link = "up") /\ Due(S)
  BY DEF StreamInv
<1> DEFINE m == Len(sent) + 1
<1>2. /\ sent \in Seq(Kinds) /\ curBuf \in Seq(Tokens) /\ wire \in Seq(Tokens)
      /\ cur \in Nat /\ Len(sent) \in Nat /\ m \in Nat
  BY DEF StreamInv, StreamTypeOK
<1>3. /\ link = "up" /\ sent' = Append(sent, k) /\ wire' = wire \o Text(k, m)
      /\ UNCHANGED <<link, stage, curBuf, request, cur, postBytes, postRead, body, failed>>
  BY DEF ClientSend, requestVars, postVars
<1>4. Text(k, m) \in Seq(Tokens)
  BY <1>2, TextMeans
<1>5. wire' \in Seq(Tokens) /\ curBuf \o wire \in Seq(Tokens)
  BY <1>2, <1>3, <1>4, ConcatProperties, Zenon
<1>6. curBuf' \o wire' = (curBuf \o wire) \o Text(k, m)
  <2> DEFINE x == Text(k, m)
  <2>1. curBuf \in Seq(Tokens) /\ wire \in Seq(Tokens) /\ x \in Seq(Tokens)
    BY <1>2, <1>4
  <2>2. wire' = wire \o x /\ curBuf' = curBuf
    BY <1>3
  <2> HIDE DEF x
  <2>3. curBuf \o (wire \o x) = (curBuf \o wire) \o x
    BY <2>1, ConcatAssociative
  <2> QED BY <2>2, <2>3 DEF x
<1>7. PICK R : /\ Starts(Append(sent, k), R, (curBuf \o wire) \o Text(k, m), TRUE)
               /\ \A n \in 1 .. m : R[n] = S[n]
  <2>1. Starts(sent, S, curBuf \o wire, TRUE)
    <3>1. (link = "up") = TRUE
      BY <1>3
    <3> QED BY <1>1, <3>1, Zenon
  <2> QED BY <1>2, <1>5, <2>1, OneMore, Zenon
<1>8. Starts(sent, R, curBuf \o wire, link = "up")'
  <2>1. (link' = "up") = TRUE
    BY <1>3
  <2> QED BY <1>3, <1>6, <1>7, <2>1, Zenon
<1>9. /\ sent' \in Seq(Kinds) /\ Len(sent') = m
      /\ \A n \in 1 .. Len(sent) : sent'[n] = sent[n] /\ n \in 1 .. m /\ n + 1 \in 1 .. m
  BY <1>2, <1>3, AppendProperties
<1>10. StreamTypeOK'
  BY <1>3, <1>5, <1>9 DEF StreamInv, StreamTypeOK
<1>11. Due(R)'
  <2>1. stage = "RDY4_REQUEST" => cur \in 0 .. m /\ R[cur + 1] = 1
    <3>1. SUFFICES ASSUME stage = "RDY4_REQUEST" PROVE cur \in 0 .. m /\ R[cur + 1] = 1
      OBVIOUS
    <3>2. cur \in 0 .. Len(sent) /\ S[cur + 1] = 1
      BY <1>1, <3>1 DEF Due
    <3>3. cur + 1 \in 1 .. m /\ cur \in 0 .. m
      BY <1>2, <3>2
    <3> QED BY <1>7, <3>2, <3>3
  <2>2. stage \in Answering =>
          /\ cur \in 1 .. m /\ R[cur + 1] = 1
          /\ BodyTo(cur, sent'[cur].body)
    BY <1>1, <1>7, <1>9, Zenon DEF Due
  <2>3. stage = "RDY4_RECV_POST" =>
          /\ cur \in 1 .. m /\ BodyTo(cur, postRead)
          /\ postBytes = sent'[cur].body /\ postRead < postBytes
          /\ R[cur + 1] = 1 + postBytes - postRead
    BY <1>1, <1>7, <1>9, Zenon DEF Due
  <2>4. stage = "RDY4_PARSE" /\ failed = "none" =>
          /\ cur + 1 \in 1 .. m /\ R[cur + 2] = 1 + sent'[cur + 1].body
          /\ Len(request) = Len(sent'[cur + 1].fields) + 1
          /\ \A i \in 1 .. Len(request) : request[i] = At(sent'[cur + 1], cur + 1, i)
    <3>1. (cur + 1) + 1 = cur + 2
      BY <1>2
    <3> QED BY <1>1, <1>7, <1>9, <3>1, Zenon DEF Due
  <2>5. stage = "RDY4_PARSE" /\ failed # "none" /\ request # <<>> =>
          \E n \in 1 .. m :
            /\ sent'[n].body = 0 /\ R[n + 1] = 1
            /\ \A i \in 1 .. Len(request) : request[i].t \in Fields /\ request[i].n = n
    BY <1>1, <1>7, <1>9, Zenon DEF Due
  <2> HIDE DEF m
  <2> QED BY <1>3, <1>9, <2>1, <2>2, <2>3, <2>4, <2>5, Zenon DEF Due, BodyTo
<1> QED BY <1>8, <1>10, <1>11, Zenon DEF StreamInv

LEMMA ClientLeavesKeeps ==
  ASSUME StreamInv, ClientClose \/ LinkBreaks PROVE StreamInv'
<1>1. PICK S : Starts(sent, S, curBuf \o wire, link = "up") /\ Due(S)
  BY DEF StreamInv
<1>2. sent \in Seq(Kinds) /\ curBuf \in Seq(Tokens) /\ wire \in Seq(Tokens)
  BY DEF StreamInv, StreamTypeOK
<1>3. PICK i \in 0 .. Len(wire) : wire' = SubSeq(wire, 1, i)
  <2>1. CASE ClientClose
    BY <2>1 DEF ClientClose
  <2>2. CASE LinkBreaks
    <3>1. 0 \in 0 .. Len(wire) /\ wire' = SubSeq(wire, 1, 0)
      BY <1>2, <2>2, SubSeqEmpty DEF LinkBreaks
    <3> QED BY <3>1
  <2> QED BY <2>1, <2>2
<1>4. /\ link' \in {"closed", "broken"}
      /\ UNCHANGED <<sent, stage, curBuf, request, cur, postBytes, postRead, body, failed>>
  BY DEF ClientClose, LinkBreaks, requestVars, postVars
<1>5. wire' \in Seq(Tokens) /\ Len(wire') = i /\ \A j \in 1 .. i : wire'[j] = wire[j]
  BY <1>2, <1>3, PartMeans
<1> DEFINE rest == curBuf \o wire
           less == curBuf \o wire'
<1>6. /\ rest \in Seq(Tokens) /\ Len(rest) = Len(curBuf) + Len(wire)
      /\ \A j \in 1 .. Len(curBuf) : rest[j] = curBuf[j]
      /\ \A j \in Len(curBuf) + 1 .. Len(curBuf) + Len(wire) : rest[j] = wire[j - Len(curBuf)]
  BY <1>2, Joined
<1>7. /\ less \in Seq(Tokens) /\ Len(less) = Len(curBuf) + Len(wire')
      /\ \A j \in 1 .. Len(curBuf) : less[j] = curBuf[j]
      /\ \A j \in Len(curBuf) + 1 .. Len(curBuf) + Len(wire') : less[j] = wire'[j - Len(curBuf)]
  <2>1. curBuf \in Seq(Tokens) /\ wire' \in Seq(Tokens) /\ less = curBuf \o wire'
    BY <1>2, <1>5
  <2> HIDE DEF less
  <2> QED BY <2>1, Joined
<1>8. Starts(sent, S, less, FALSE)
  <2>1. Starts(sent, S, rest, link = "up") /\ (link = "up") \in BOOLEAN
    BY <1>1
  <2> HIDE DEF rest, less
  <2>2. Len(curBuf) \in Nat /\ Len(wire) \in Nat /\ i \in Nat
    BY <1>2
  <2>3. Len(less) <= Len(rest)
    BY <1>5, <1>6, <1>7, <2>2
  <2>4. ASSUME NEW j \in 1 .. Len(less) PROVE less[j] = rest[j]
    <3>1. CASE j <= Len(curBuf)
      BY <1>5, <1>6, <1>7, <2>2, <3>1
    <3>2. CASE j > Len(curBuf)
      <4>1. /\ j \in Len(curBuf) + 1 .. Len(curBuf) + Len(wire)
            /\ j \in Len(curBuf) + 1 .. Len(curBuf) + Len(wire')
            /\ j - Len(curBuf) \in 1 .. i
        BY <1>5, <1>7, <2>2, <3>2
      <4> QED BY <1>5, <1>6, <1>7, <4>1, Zenon
    <3> QED BY <1>5, <1>7, <2>2, <3>1, <3>2
  <2> QED BY <1>2, <1>6, <1>7, <2>1, <2>3, <2>4, CutOff
<1>9. Starts(sent, S, curBuf \o wire, link = "up")'
  <2>1. (link' = "up") = FALSE
    BY <1>4
  <2> QED BY <1>4, <1>8, <2>1, Zenon
<1>10. StreamTypeOK'
  BY <1>4, <1>5 DEF StreamInv, StreamTypeOK
<1>11. Due(S)'
  BY <1>1, <1>4 DEF Due, BodyTo
<1> QED BY <1>9, <1>10, <1>11, Zenon DEF StreamInv

-----------------------------------------------------------------------------
LEMMA FirstEndIs ==
  ASSUME NEW buf \in Seq(Tokens), HasHead(buf)
  PROVE  /\ FirstEnd(buf) \in EndOfHead(buf)
         /\ \A j \in EndOfHead(buf) : FirstEnd(buf) <= j
<1>1. EndOfHead(buf) \in SUBSET Nat /\ EndOfHead(buf) # {}
  BY DEF EndOfHead, HasHead
<1>2. \E x \in EndOfHead(buf) : \A y \in EndOfHead(buf) : x <= y
  BY <1>1, LeastOne
<1> QED BY <1>2, Zenon DEF FirstEnd

(* The first empty line that arrives ends the head of the request due.       *)
LEMMA HeadFound ==
  ASSUME NEW q \in Seq(Kinds), NEW S, NEW up \in BOOLEAN, NEW rest \in Seq(Tokens),
         Starts(q, S, rest, up), NEW n \in 0 .. Len(q), S[n + 1] = 1,
         NEW buf \in Seq(Tokens), Len(buf) <= Len(rest), HasHead(buf),
         \A i \in 1 .. Len(buf) : buf[i] = rest[i]
  PROVE  /\ n + 1 \in 1 .. Len(q) /\ FirstEnd(buf) \in 1 .. Len(buf)
         /\ FirstEnd(buf) = Len(q[n + 1].fields) + 2
         /\ \A i \in 1 .. FirstEnd(buf) : buf[i] = At(q[n + 1], n + 1, i)
<1> DEFINE f == FirstEnd(buf)
           k == q[n + 1]
           e == Len(k.fields) + 2
<1>1. Len(q) \in Nat /\ Len(rest) \in Nat /\ Len(buf) \in Nat /\ n \in Nat
  OBVIOUS
<1>2. /\ f \in 1 .. Len(buf) /\ buf[f].t = "CRLFCRLF"
      /\ \A j \in 1 .. Len(buf) : buf[j].t = "CRLFCRLF" => f <= j
  BY FirstEndIs DEF EndOfHead
<1> HIDE DEF f
<1>3. n + 1 \in 1 .. Len(q)
  <2>1. Len(rest) < S[Len(q) + 1]
    BY DEF Starts
  <2>2. ~(Len(rest) < 1)
    BY <1>1, <1>2
  <2>3. n # Len(q)
    BY <2>1, <2>2
  <2> QED BY <1>1, <2>3
<1>4. k \in Kinds /\ Len(k.fields) \in Nat /\ k.body \in Nat
  <2>1. k \in Kinds
    BY <1>3
  <2> QED BY <2>1, KindMeans
<1> HIDE DEF k
<1>5. Size(k) \in Nat /\ e \in 1 .. Size(k) /\ e \in Nat
  BY <1>4 DEF Size
<1>6. ASSUME NEW i \in 1 .. Size(k), i <= Len(buf) PROVE buf[i] = At(k, n + 1, i)
  <2>1. i \in 1 .. Len(buf) /\ i \in 1 .. Len(rest) /\ S[n + 1] + i - 1 = i
    BY <1>1, <1>5, <1>6
  <2>2. S[n + 1] + i - 1 \in 1 .. Len(rest) => rest[S[n + 1] + i - 1] = At(q[n + 1], n + 1, i)
    BY <1>3, Zenon DEF Starts, k
  <2> QED BY <2>1, <2>2 DEF k
<1>7. \A i \in Nat \ {0} : At(k, n + 1, i).t = "CRLFCRLF" <=> i = e
  BY <1>1, <1>4, AtType
<1>8. ~(f < e)
  <2> SUFFICES ASSUME f < e PROVE FALSE
    OBVIOUS
  <2>1. f \in 1 .. Size(k) /\ f <= Len(buf) /\ f \in Nat \ {0} /\ f # e
    BY <1>1, <1>2, <1>5
  <2> QED BY <1>2, <1>6, <1>7, <2>1
<1>9. ~(e < f)
  <2> SUFFICES ASSUME e < f PROVE FALSE
    OBVIOUS
  <2>1. e \in 1 .. Len(buf) /\ e <= Len(buf) /\ e \in Nat \ {0} /\ ~(f <= e)
    BY <1>1, <1>2, <1>5
  <2>2. buf[e].t = "CRLFCRLF"
    BY <1>5, <1>6, <1>7, <2>1
  <2> QED BY <1>2, <2>1, <2>2
<1>10. f = e
  BY <1>1, <1>2, <1>5, <1>8, <1>9
<1>11. ASSUME NEW i \in 1 .. f PROVE buf[i] = At(k, n + 1, i)
  <2>1. i \in 1 .. Size(k) /\ i <= Len(buf)
    BY <1>1, <1>2, <1>5, <1>10
  <2> QED BY <1>6, <2>1
<1> QED BY <1>2, <1>3, <1>10, <1>11 DEF f, k

LEMMA ReadRequestKeeps ==
  ASSUME StreamInv, ReadRequest PROVE StreamInv'
<1>1. PICK S : Starts(sent, S, curBuf \o wire, link = "up") /\ Due(S)
  BY DEF StreamInv
<1>2. /\ sent \in Seq(Kinds) /\ curBuf \in Seq(Tokens) /\ wire \in Seq(Tokens)
      /\ cur \in Nat /\ Len(sent) \in Nat /\ Len(wire) \in Nat
  BY DEF StreamInv, StreamTypeOK
<1>3. UNCHANGED <<link, sent, cur, postBytes, postRead, body>>
  BY DEF ReadRequest, requestVars, postVars
<1>4. CASE UNCHANGED <<wire, stage, curBuf, request, failed>>
  BY <1>3, <1>4, StreamKept
<1>5. ASSUME stage = "RDY4_REQUEST", NEW i \in 1 .. ReadMax, ReadIntoBuf(i),
             ReadPartialRequest(Filled(i))
      PROVE  StreamInv'
  <2> DEFINE buf == Filled(i)
             rest == curBuf \o wire
  <2>1. i \in 0 .. Len(wire) /\ wire' = From(wire, i + 1)
    BY <1>2, <1>5, ConnAssumption DEF ReadIntoBuf, Least
  <2>2. buf \in Seq(Tokens) /\ wire' \in Seq(Tokens) /\ buf \o wire' = rest
    BY <1>2, <2>1, ReadKeeps DEF Filled
  <2>3. rest \in Seq(Tokens)
    BY <1>2, ConcatProperties
  <2> DEFINE up == link = "up"
  <2>4. Starts(sent, S, rest, up) /\ up \in BOOLEAN
    BY <1>1
  <2>5. cur \in 0 .. Len(sent) /\ S[cur + 1] = 1
    BY <1>1, <1>5 DEF Due
  <2> HIDE DEF buf, rest, up
  <2>6. CASE /\ ~HasHead(buf)
             /\ curBuf' = buf /\ UNCHANGED <<stage, request, failed>>
    <3>1. Starts(sent, S, curBuf \o wire, link = "up")'
      BY <1>3, <2>2, <2>4, <2>6 DEF up
    <3>2. StreamTypeOK'
      BY <1>3, <2>2, <2>6 DEF StreamInv, StreamTypeOK
    <3>3. Due(S)'
      BY <1>3, <1>5, <2>5, <2>6 DEF Due, Answering
    <3> QED BY <3>1, <3>2, <3>3, Zenon DEF StreamInv
  <2>7. CASE /\ HasHead(buf)
             /\ request' = SubSeq(buf, 1, FirstEnd(buf) - 1)
             /\ curBuf' = From(buf, FirstEnd(buf) + 1)
             /\ stage' = "RDY4_PARSE" /\ failed' = "none"
    <3>f. PICK f : f = FirstEnd(buf)
      OBVIOUS
    <3>k. PICK k : k = sent[cur + 1]
      OBVIOUS
    <3> DEFINE less == curBuf' \o wire'
    <3>1. /\ Len(buf) <= Len(rest) /\ Len(buf) \in Nat
          /\ \A j \in 1 .. Len(buf) : buf[j] = rest[j]
      <4>1. /\ Len(rest) = Len(buf) + Len(wire')
            /\ \A j \in 1 .. Len(buf) : rest[j] = buf[j]
        <5>1. rest = buf \o wire' /\ buf \in Seq(Tokens) /\ wire' \in Seq(Tokens)
          BY <2>2
        <5> QED BY <5>1, Joined
      <4>2. Len(buf) \in Nat /\ Len(wire') \in Nat
        BY <2>2
      <4> QED BY <4>1, <4>2
    <3>2. /\ cur + 1 \in 1 .. Len(sent) /\ f \in 1 .. Len(buf)
          /\ f = Len(k.fields) + 2 /\ \A j \in 1 .. f : buf[j] = At(k, cur + 1, j)
      <4>1. /\ sent \in Seq(Kinds) /\ cur \in 0 .. Len(sent) /\ S[cur + 1] = 1
            /\ buf \in Seq(Tokens) /\ rest \in Seq(Tokens) /\ HasHead(buf)
        BY <1>2, <2>2, <2>3, <2>5, <2>7
      <4>2. /\ cur + 1 \in 1 .. Len(sent) /\ FirstEnd(buf) \in 1 .. Len(buf)
            /\ FirstEnd(buf) = Len(sent[cur + 1].fields) + 2
            /\ \A j \in 1 .. FirstEnd(buf) : buf[j] = At(sent[cur + 1], cur + 1, j)
        BY <2>4, <3>1, <4>1, HeadFound
      <4> QED BY <3>f, <3>k, <4>2, Zenon
    <3>3. k \in Kinds /\ Len(k.fields) \in Nat /\ k.body \in Nat
      <4>1. k \in Kinds
        BY <1>2, <3>2, <3>k
      <4> QED BY <4>1, KindMeans
    <3>4. f \in 0 .. Len(buf) /\ f - 1 \in 0 .. Len(buf)
      BY <3>1, <3>2
    <3>5. /\ curBuf' \in Seq(Tokens) /\ less \in Seq(Tokens)
          /\ f \in 0 .. Len(rest) /\ Len(less) = Len(rest) - f
          /\ \A j \in 1 .. Len(rest) - f : less[j] = rest[j + f]
      <4>1. curBuf' = From(buf, f + 1)
        BY <2>7, <3>f, Zenon
      <4> HIDE DEF less
      <4>2. less = From(buf, f + 1) \o wire' /\ rest = buf \o wire'
        BY <2>2, <4>1 DEF less
      <4>3. curBuf' \in Seq(Tokens)
        BY <2>2, <3>4, <4>1, FromMeans
      <4>4. /\ From(buf, f + 1) \o wire' \in Seq(Tokens)
            /\ f \in 0 .. Len(buf \o wire')
            /\ Len(From(buf, f + 1) \o wire') = Len(buf \o wire') - f
            /\ \A j \in 1 .. Len(buf \o wire') - f :
                 (From(buf, f + 1) \o wire')[j] = (buf \o wire')[j + f]
        BY <2>2, <3>4, FromJoined
      <4> QED BY <4>2, <4>3, <4>4, Zenon
    <3>R. PICK R : R = [n \in 1 .. Len(sent) + 1 |-> S[n] - f]
      OBVIOUS
    <3>6. Starts(sent, R, less, up)
      <4> HIDE DEF less
      <4>1. /\ less \in Seq(Tokens) /\ f \in 0 .. Len(rest) /\ Len(less) = Len(rest) - f
            /\ \A j \in 1 .. Len(rest) - f : less[j] = rest[j + f]
        BY <3>5
      <4>2. sent \in Seq(Kinds) /\ rest \in Seq(Tokens)
        BY <1>2, <2>3
      <4> QED BY <2>4, <4>1, <4>2, <3>R, Dropped
    <3>7. Starts(sent, R, curBuf \o wire, link = "up")'
      BY <1>3, <3>6 DEF up
    <3>8. /\ request' \in Seq(Tokens) /\ Len(request') = Len(k.fields) + 1
          /\ \A j \in 1 .. Len(request') : request'[j] = At(k, cur + 1, j)
      <4>1. request' = SubSeq(buf, 1, f - 1)
        BY <2>7, <3>f, Zenon
      <4>2. /\ request' \in Seq(Tokens) /\ Len(request') = f - 1
            /\ \A j \in 1 .. f - 1 : request'[j] = buf[j]
        BY <2>2, <3>4, <4>1, PartMeans
      <4> QED BY <3>2, <3>3, <4>2
    <3>9. R[cur + 2] = 1 + k.body
      <4>1. S \in [1 .. Len(sent) + 1 -> Int] /\ S[(cur + 1) + 1] = S[cur + 1] + Size(k)
        BY <2>4, <3>2, <3>k, Zenon DEF Starts
      <4>2. S[cur + 2] = 1 + (Len(k.fields) + 2 + k.body)
        BY <1>2, <2>5, <4>1 DEF Size
      <4>3. R[cur + 2] = S[cur + 2] - f
        BY <1>2, <3>2, <3>R
      <4> QED BY <3>2, <3>3, <4>2, <4>3
    <3>10. StreamTypeOK'
      BY <1>3, <2>2, <2>7, <3>5, <3>8 DEF StreamInv, StreamTypeOK, Stages
    <3>11. Due(R)'
      <4>1. UNCHANGED <<sent, cur>> /\ stage' = "RDY4_PARSE" /\ failed' = "none"
        BY <1>3, <2>7
      <4>2. stage' \notin Answering /\ stage' \notin {"RDY4_REQUEST", "RDY4_RECV_POST"}
        BY <4>1 DEF Answering
      <4>3. /\ cur' + 1 \in 1 .. Len(sent') /\ sent'[cur' + 1] = k
            /\ R[cur' + 2] = 1 + k.body
            /\ \A j \in 1 .. Len(request') : request'[j] = At(k, cur' + 1, j)
        BY <3>2, <3>8, <3>9, <3>k, <4>1, Zenon
      <4> QED BY <3>8, <4>1, <4>2, <4>3, Zenon DEF Due
    <3> QED BY <3>7, <3>10, <3>11, Zenon DEF StreamInv
  <2> QED BY <1>5, <2>6, <2>7 DEF ReadPartialRequest, buf
<1> QED BY <1>4, <1>5 DEF ReadRequest, ReadFails

-----------------------------------------------------------------------------
LEMMA DeliverKeeps ==
  ASSUME StreamInv, stage = "RDY4_RECV_POST", NEW buf \in Seq(Tokens),
         wire' \in Seq(Tokens), buf \o wire' = curBuf \o wire, Deliver(buf),
         UNCHANGED <<link, sent, request, cur, postBytes, failed>>
  PROVE  StreamInv'
<1>1. PICK S : Starts(sent, S, curBuf \o wire, link = "up") /\ Due(S)
  BY DEF StreamInv
<1>2. PICK n, k :
        /\ n \in 0 .. MaxSend
        /\ k = Least(n, Least(postBytes - postRead, Len(buf)))
        /\ body' = body \o SubSeq(buf, 1, k) /\ curBuf' = From(buf, k + 1)
        /\ postRead' = postRead + k
        /\ stage' = IF postRead + k = postBytes THEN "RDY4_SET_HEADER" ELSE stage
  BY DEF Deliver
<1>r. PICK rest : rest = curBuf \o wire
  OBVIOUS
<1>c. PICK c : c = sent[cur]
  OBVIOUS
<1> DEFINE up == link = "up"
           less == curBuf' \o wire'
<1>3. /\ sent \in Seq(Kinds) /\ Len(sent) \in Nat /\ cur \in Nat
      /\ postBytes \in Nat /\ postRead \in Nat /\ body \in Seq(Tokens)
      /\ curBuf \in Seq(Tokens) /\ wire \in Seq(Tokens)
  BY DEF StreamInv, StreamTypeOK
<1>4. Starts(sent, S, rest, up) /\ up \in BOOLEAN /\ rest \in Seq(Tokens)
  BY <1>1, <1>3, <1>r, ConcatProperties
<1> HIDE DEF up
<1>5. /\ cur \in 1 .. Len(sent) /\ BodyTo(cur, postRead)
      /\ postBytes = c.body /\ postRead < postBytes
      /\ S[cur + 1] = 1 + postBytes - postRead
  BY <1>1, <1>c DEF Due
<1>6. Len(buf) \in Nat /\ n \in Nat /\ MaxSend \in Nat
  BY <1>2, ConnAssumption
<1>a. postBytes \in Nat /\ postRead \in Nat /\ postRead < postBytes
  BY <1>3, <1>5
<1>b. S[cur + 1] = 1 + postBytes - postRead
  BY <1>5
<1>7. k \in 0 .. Len(buf) /\ k <= postBytes - postRead /\ k \in Nat
  <2>1. k = Least(n, Least(postBytes - postRead, Len(buf)))
    BY <1>2
  <2>2. postBytes - postRead \in Nat
    BY <1>a
  <2> QED BY <1>6, <2>1, <2>2 DEF Least
<1>8. c \in Kinds /\ Len(c.fields) \in Nat /\ c.body \in Nat /\ Size(c) \in Nat
  <2>1. c \in Kinds
    BY <1>3, <1>5, <1>c
  <2> QED BY <2>1, KindMeans DEF Size
<1>9. /\ Len(rest) = Len(buf) + Len(wire') /\ Len(wire') \in Nat
      /\ \A j \in 1 .. Len(buf) : rest[j] = buf[j]
  <2>1. rest = buf \o wire'
    BY <1>r
  <2> QED BY <2>1, Joined
(* The next units are those of the body due.                                 *)
<1>10. ASSUME NEW j \in 1 .. k PROVE buf[j] = Token("unit", 0, cur)
  <2>1. S[cur + 1] = S[cur] + Size(c) /\ S[cur] \in Int
    <3>1. S[cur + 1] = S[cur] + Size(c)
      BY <1>4, <1>5, <1>c, Zenon DEF Starts
    <3>2. S \in [1 .. Len(sent) + 1 -> Int]
      BY <1>4, Zenon DEF Starts
    <3>3. cur \in 1 .. Len(sent) + 1
      BY <1>3, <1>5
    <3> QED BY <3>1, <3>2, <3>3
  <2> DEFINE i == Size(c) - (postBytes - postRead) + j
  <2>2. /\ i \in 1 .. Size(c) /\ i > Len(c.fields) + 2 /\ i \in Nat \ {0}
        /\ S[cur] + i - 1 = j /\ j \in 1 .. Len(rest) /\ j \in 1 .. Len(buf)
    <3>1. Size(c) = Len(c.fields) + 2 + postBytes
      BY <1>5 DEF Size
    <3>2. S[cur] = (1 + postBytes - postRead) - Size(c)
      <4>1. PICK x \in Int, y \in Int, z \in Int :
              x = S[cur] /\ y = Size(c) /\ z = 1 + postBytes - postRead
        BY <1>8, <1>a, <2>1
      <4>2. z = x + y
        BY <1>b, <2>1, <4>1, Zenon
      <4>3. x = z - y
        BY <4>2
      <4> QED BY <4>1, <4>3, Zenon
    <3>3. j \in Nat /\ 1 <= j /\ j <= k /\ k <= Len(buf)
      BY <1>7
    <3>4. Len(c.fields) \in Nat /\ Len(rest) = Len(buf) + Len(wire') /\ Len(wire') \in Nat
      BY <1>8, <1>9
    <3>5. i = Len(c.fields) + 2 + postRead + j
      BY <1>a, <3>1, <3>3, <3>4
    <3>6. S[cur] = 0 - Len(c.fields) - 1 - postRead
      BY <1>a, <3>1, <3>2, <3>4
    <3> HIDE DEF i
    <3>7. i \in 1 .. Size(c) /\ i > Len(c.fields) + 2 /\ i \in Nat \ {0}
      BY <1>7, <1>a, <3>1, <3>3, <3>4, <3>5
    <3>8. S[cur] + i - 1 = j
      BY <1>a, <3>3, <3>4, <3>5, <3>6
    <3>9. j \in 1 .. Len(rest) /\ j \in 1 .. Len(buf)
      BY <1>6, <1>7, <3>3, <3>4
    <3> QED BY <3>7, <3>8, <3>9
  <2> HIDE DEF i
  <2>3. rest[S[cur] + i - 1] = At(c, cur, i)
    BY <1>4, <1>5, <1>c, <2>2, Zenon DEF Starts
  <2>4. At(c, cur, i) = Token("unit", 0, cur)
    BY <1>3, <1>8, <2>2, AtMeans
  <2> QED BY <1>9, <2>2, <2>3, <2>4
<1>11. /\ curBuf' \in Seq(Tokens) /\ less \in Seq(Tokens)
       /\ k \in 0 .. Len(rest) /\ Len(less) = Len(rest) - k
       /\ \A j \in 1 .. Len(rest) - k : less[j] = rest[j + k]
  <2>1. less = From(buf, k + 1) \o wire' /\ rest = buf \o wire'
    BY <1>2, <1>r
  <2> HIDE DEF less
  <2>2. curBuf' \in Seq(Tokens)
    BY <1>2, <1>7, FromMeans
  <2>3. /\ From(buf, k + 1) \o wire' \in Seq(Tokens)
        /\ k \in 0 .. Len(buf \o wire')
        /\ Len(From(buf, k + 1) \o wire') = Len(buf \o wire') - k
        /\ \A j \in 1 .. Len(buf \o wire') - k :
             (From(buf, k + 1) \o wire')[j] = (buf \o wire')[j + k]
    BY <1>7, FromJoined
  <2> QED BY <2>1, <2>2, <2>3, Zenon
<1>R. PICK R : R = [m \in 1 .. Len(sent) + 1 |-> S[m] - k]
  OBVIOUS
<1>12. Starts(sent, R, less, up)
  <2> HIDE DEF less
  <2>1. /\ less \in Seq(Tokens) /\ k \in 0 .. Len(rest) /\ Len(less) = Len(rest) - k
        /\ \A j \in 1 .. Len(rest) - k : less[j] = rest[j + k]
    BY <1>11
  <2>2. sent \in Seq(Kinds) /\ rest \in Seq(Tokens)
    BY <1>3, <1>4
  <2> QED BY <1>4, <2>1, <2>2, <1>R, Dropped
<1>13. Starts(sent, R, curBuf \o wire, link = "up")'
  BY <1>12 DEF up
<1>14. R[cur + 1] = 1 + postBytes - (postRead + k)
  <2>1. cur + 1 \in 1 .. Len(sent) + 1
    BY <1>3, <1>5
  <2>2. R[cur + 1] = S[cur + 1] - k
    BY <1>R, <2>1
  <2> QED BY <1>3, <1>5, <1>7, <2>2
<1>15. /\ body' \in Seq(Tokens) /\ Len(body') = postRead + k
       /\ \A j \in 1 .. postRead + k : body'[j] = Token("unit", 0, cur)
  <2>p. PICK part : part = SubSeq(buf, 1, k)
    OBVIOUS
  <2>1. /\ part \in Seq(Tokens) /\ Len(part) = k
        /\ \A j \in 1 .. k : part[j] = Token("unit", 0, cur)
    BY <1>7, <1>10, <2>p, PartMeans
  <2>2. body' = body \o part
    BY <1>2, <2>p
  <2>3. /\ body' \in Seq(Tokens) /\ Len(body') = Len(body) + Len(part)
        /\ \A j \in 1 .. Len(body) : body'[j] = body[j]
        /\ \A j \in Len(body) + 1 .. Len(body) + Len(part) : body'[j] = part[j - Len(body)]
    <3>1. part \in Seq(Tokens)
      BY <2>1
    <3> QED BY <1>3, <2>2, <3>1, Joined
  <2>4. Len(body) = postRead /\ \A j \in 1 .. postRead : body[j] = Token("unit", 0, cur)
    BY <1>5 DEF BodyTo
  <2>5. ASSUME NEW j \in 1 .. postRead + k PROVE body'[j] = Token("unit", 0, cur)
    <3>1. CASE j <= postRead
      BY <1>3, <2>3, <2>4, <3>1
    <3>2. CASE j > postRead
      <4>1. /\ j \in Len(body) + 1 .. Len(body) + Len(part)
            /\ j - Len(body) \in 1 .. k
        BY <1>3, <1>7, <2>1, <2>4, <3>2
      <4> QED BY <2>1, <2>3, <4>1, Zenon
    <3> QED BY <1>3, <1>7, <3>1, <3>2
  <2> QED BY <2>1, <2>3, <2>4, <2>5
<1>16. StreamTypeOK'
  <2>1. postRead' \in Nat
    BY <1>2, <1>3, <1>7
  <2>2. stage' \in Stages
    BY <1>2 DEF Stages
  <2> QED BY <1>11, <1>15, <2>1, <2>2 DEF StreamInv, StreamTypeOK
<1>17. Due(R)'
  <2>1. CASE postRead + k = postBytes
    <3>1. /\ stage' = "RDY4_SET_HEADER" /\ cur' = cur /\ sent' = sent
          /\ R[cur + 1] = 1 /\ postRead + k = c.body
      <4>1. /\ stage' = "RDY4_SET_HEADER" /\ cur' = cur /\ sent' = sent
        BY <1>2, <2>1
      <4>2. postBytes = c.body
        BY <1>5
      <4> QED BY <1>7, <1>a, <1>14, <2>1, <4>1, <4>2
    <3>2. BodyTo(cur, c.body)'
      BY <1>15, <3>1, Zenon DEF BodyTo
    <3> QED BY <1>5, <1>c, <3>1, <3>2 DEF Due, Answering
  <2>2. CASE postRead + k # postBytes
    <3>1. /\ stage' = "RDY4_RECV_POST" /\ cur' = cur /\ sent' = sent
          /\ postBytes' = postBytes /\ postRead' = postRead + k
      BY <1>2, <2>2
    <3>2. postRead' < postBytes' /\ R[cur' + 1] = 1 + postBytes' - postRead'
      BY <1>7, <1>a, <1>14, <2>2, <3>1
    <3>3. BodyTo(cur, postRead)'
      BY <1>15, <3>1, Zenon DEF BodyTo
    <3>4. stage' \notin Answering /\ stage' \notin {"RDY4_REQUEST", "RDY4_PARSE"}
      BY <3>1 DEF Answering
    <3> QED BY <1>5, <1>c, <3>1, <3>2, <3>3, <3>4, Zenon DEF Due
  <2> QED BY <2>1, <2>2
<1> QED BY <1>13, <1>16, <1>17, Zenon DEF StreamInv

LEMMA RecvKeeps ==
  ASSUME StreamInv, Recv PROVE StreamInv'
<1>1. curBuf \in Seq(Tokens) /\ wire \in Seq(Tokens) /\ Len(wire) \in Nat
  BY DEF StreamInv, StreamTypeOK
<1>2. UNCHANGED <<link, sent, request, cur, postBytes, failed>>
  BY DEF Recv, requestVars
<1>3. CASE /\ UNCHANGED <<wire, curBuf, postRead, body>>
           /\ stage' \in {stage, "RDY4_DISCONNECT"}
  BY <1>2, <1>3, StreamKept
<1>4. CASE stage = "RDY4_RECV_POST" /\ curBuf # <<>> /\ UNCHANGED wire /\ Deliver(curBuf)
  <2>1. PICK buf : buf = curBuf
    OBVIOUS
  <2>2. buf \in Seq(Tokens) /\ wire' \in Seq(Tokens) /\ buf \o wire' = curBuf \o wire
    BY <1>1, <1>4, <2>1
  <2>3. Deliver(buf) /\ stage = "RDY4_RECV_POST"
    BY <1>4, <2>1, Zenon
  <2> QED BY <1>2, <2>2, <2>3, DeliverKeeps
<1>5. ASSUME stage = "RDY4_RECV_POST", NEW i \in 1 .. ReadMax, ReadIntoBuf(i), Deliver(Filled(i))
      PROVE  StreamInv'
  <2>1. PICK buf : buf = Filled(i)
    OBVIOUS
  <2>2. i \in 0 .. Len(wire) /\ wire' = From(wire, i + 1)
    BY <1>1, <1>5, ConnAssumption DEF ReadIntoBuf, Least
  <2>3. buf \in Seq(Tokens) /\ wire' \in Seq(Tokens) /\ buf \o wire' = curBuf \o wire
    BY <1>1, <2>1, <2>2, ReadKeeps DEF Filled
  <2>4. Deliver(buf) /\ stage = "RDY4_RECV_POST"
    BY <1>5, <2>1, Zenon
  <2> QED BY <1>2, <2>3, <2>4, DeliverKeeps
<1> QED BY <1>3, <1>4, <1>5 DEF Recv, ReadFails

-----------------------------------------------------------------------------
(* The request that ParseRequest looks at, all of it or what a failed call   *)
(* has left of it, belongs to one request of the client's.                   *)
InHand(S, n) ==
  /\ S[n + 1] = 1 + sent[n].body
  /\ \A i \in 1 .. Len(request) : request[i].n = n
  /\ \A i \in 2 .. Len(request) : request[i].t \in Fields
  /\ request[1].t # "POST" => sent[n].body = 0
  /\ request[1].t = "POST" =>
       /\ sent[n].body > 0
       /\ \A i \in 2 .. Len(request) : request[i].t # "nocolon"
       /\ \E i \in 2 .. Len(request) :
            /\ request[i].t = "length" /\ request[i].v = sent[n].body
            /\ \A j \in 2 .. Len(request) : request[j].t = "length" => j = i

LEMMA FieldAt ==
  ASSUME NEW k \in Kinds, NEW n \in Nat, NEW i \in 1 .. Len(k.fields)
  PROVE  /\ At(k, n, i + 1).t = k.fields[i][1] /\ At(k, n, i + 1).v = k.fields[i][2]
         /\ At(k, n, i + 1).n = n /\ k.fields[i][1] \in Fields
<1>1. Len(k.fields) \in Nat /\ k.fields[i][1] \in Fields
  BY KindMeans
<1>2. i + 1 \in 2 .. Len(k.fields) + 1 /\ i + 1 \in Nat \ {0} /\ (i + 1) - 1 = i
  BY <1>1
<1>3. At(k, n, i + 1) = Token(k.fields[i][1], k.fields[i][2], n)
  <2>1. At(k, n, i + 1) = Token(k.fields[(i + 1) - 1][1], k.fields[(i + 1) - 1][2], n)
    BY <1>2, AtMeans
  <2> QED BY <1>2, <2>1, Zenon
<1> QED BY <1>1, <1>3 DEF Token

LEMMA RequestInHand ==
  ASSUME Tidy, StreamTypeOK, NEW S, Due(S), stage = "RDY4_PARSE", request # <<>>
  PROVE  \E n \in 1 .. Len(sent) : InHand(S, n)
<1>1. /\ sent \in Seq(Kinds) /\ Len(sent) \in Nat /\ cur \in Nat
      /\ request \in Seq(Tokens) /\ Len(request) \in Nat /\ 1 \in 1 .. Len(request)
  BY DEF StreamTypeOK
<1>2. CASE failed = "none"
  <2>1. PICK n : n = cur + 1
    OBVIOUS
  <2>2. PICK k : k = sent[n]
    OBVIOUS
  <2>3. /\ n \in 1 .. Len(sent) /\ n \in Nat /\ S[n + 1] = 1 + k.body
        /\ Len(request) = Len(k.fields) + 1
        /\ \A i \in 1 .. Len(request) : request[i] = At(k, n, i)
    <3>1. /\ cur + 1 \in 1 .. Len(sent) /\ S[cur + 2] = 1 + sent[cur + 1].body
          /\ Len(request) = Len(sent[cur + 1].fields) + 1
          /\ \A i \in 1 .. Len(request) : request[i] = At(sent[cur + 1], cur + 1, i)
      BY <1>2, Zenon DEF Due
    <3>2. (cur + 1) + 1 = cur + 2 /\ cur + 1 \in Nat
      BY <1>1
    <3> QED BY <2>1, <2>2, <3>1, <3>2, Zenon
  <2>4. k \in Kinds /\ Len(k.fields) \in Nat /\ k.line \in Lines
    <3>1. k \in Kinds
      BY <1>1, <2>2, <2>3
    <3> QED BY <3>1, KindMeans
  <2>5. \A i \in 1 .. Len(request) : request[i].n = n
    <3>1. \A i \in Nat \ {0} : At(k, n, i).n = n
      BY <2>3, <2>4, AtType
    <3> QED BY <2>3, <3>1
  <2>6. request[1].t = k.line
    <3>1. At(k, n, 1) = Token(k.line, 0, n)
      BY <2>3, <2>4, AtMeans
    <3> QED BY <1>1, <2>3, <3>1 DEF Token
  <2>7. ASSUME NEW i \in 1 .. Len(k.fields)
        PROVE  /\ i + 1 \in 2 .. Len(request)
               /\ request[i + 1].t = k.fields[i][1] /\ request[i + 1].v = k.fields[i][2]
               /\ k.fields[i][1] \in Fields
    <3>1. i + 1 \in 2 .. Len(request) /\ i + 1 \in 1 .. Len(request)
      BY <2>3, <2>4
    <3>2. /\ At(k, n, i + 1).t = k.fields[i][1] /\ At(k, n, i + 1).v = k.fields[i][2]
          /\ k.fields[i][1] \in Fields
      BY <2>3, <2>4, FieldAt
    <3> QED BY <2>3, <3>1, <3>2, Zenon
  <2>8. ASSUME NEW i \in 2 .. Len(request)
        PROVE  /\ i - 1 \in 1 .. Len(k.fields) /\ (i - 1) + 1 = i
               /\ request[i].t = k.fields[i - 1][1] /\ request[i].t \in Fields
    <3>1. i - 1 \in 1 .. Len(k.fields) /\ (i - 1) + 1 = i
      BY <2>3, <2>4
    <3>2. request[(i - 1) + 1].t = k.fields[i - 1][1] /\ k.fields[i - 1][1] \in Fields
      BY <2>7, <3>1, Zenon
    <3> QED BY <3>1, <3>2, Zenon
  <2>9. CASE k.line = "POST"
    <3>1. /\ k.body > 0
          /\ \A i \in 1 .. Len(k.fields) : k.fields[i][1] # "nocolon"
          /\ \E i \in 1 .. Len(k.fields) :
               /\ k.fields[i] = <<"length", k.body>>
               /\ \A j \in 1 .. Len(k.fields) : k.fields[j][1] = "length" => j = i
      BY <2>4, <2>9, Zenon DEF Tidy
    <3>2. \A i \in 2 .. Len(request) : request[i].t # "nocolon"
      <4> SUFFICES ASSUME NEW i \in 2 .. Len(request) PROVE request[i].t # "nocolon"
        OBVIOUS
      <4>1. i - 1 \in 1 .. Len(k.fields) /\ request[i].t = k.fields[i - 1][1]
        BY <2>8
      <4> QED BY <3>1, <4>1
    <3>3. PICK i \in 1 .. Len(k.fields) :
            /\ k.fields[i] = <<"length", k.body>>
            /\ \A j \in 1 .. Len(k.fields) : k.fields[j][1] = "length" => j = i
      BY <3>1
    <3>4. k.fields[i][1] = "length" /\ k.fields[i][2] = k.body
      BY <3>3
    <3>5. i + 1 \in 2 .. Len(request) /\ request[i + 1].t = "length" /\ request[i + 1].v = k.body
      BY <2>7, <3>4, Zenon
    <3>6. ASSUME NEW j \in 2 .. Len(request), request[j].t = "length" PROVE j = i + 1
      <4>1. j - 1 = i /\ (j - 1) + 1 = j
        BY <2>8, <3>3, <3>6, Zenon
      <4> QED BY <4>1, Zenon
    <3>7. \E j \in 2 .. Len(request) :
            /\ request[j].t = "length" /\ request[j].v = k.body
            /\ \A h \in 2 .. Len(request) : request[h].t = "length" => h = j
      BY <3>5, <3>6, Zenon
    <3>8. request[1].t = "POST" /\ sent[n].body > 0 /\ S[n + 1] = 1 + sent[n].body
      BY <2>2, <2>3, <2>6, <2>9, <3>1, Zenon
    <3> QED BY <2>2, <2>3, <2>5, <2>8, <3>2, <3>7, <3>8, Zenon DEF InHand
  <2>10. CASE k.line # "POST"
    <3>1. k.body = 0
      BY <2>4, <2>10, Zenon DEF Tidy
    <3> QED BY <2>2, <2>3, <2>5, <2>6, <2>8, <2>10, <3>1, Zenon DEF InHand
  <2> QED BY <2>9, <2>10
<1>3. CASE failed # "none"
  <2>1. PICK n \in 1 .. Len(sent) :
          /\ sent[n].body = 0 /\ S[n + 1] = 1
          /\ \A i \in 1 .. Len(request) : request[i].t \in Fields /\ request[i].n = n
    BY <1>3 DEF Due
  <2>2. request[1].t # "POST" /\ S[n + 1] = 1 + sent[n].body
    BY <1>1, <2>1 DEF Fields
  <2>3. \A i \in 2 .. Len(request) : i \in 1 .. Len(request)
    OBVIOUS
  <2> QED BY <2>1, <2>2, <2>3, Zenon DEF InHand
<1> QED BY <1>2, <1>3

(* What a failed call leaves.                                                *)
LEMMA LeftOver ==
  ASSUME NEW S, StreamTypeOK, Starts(sent, S, curBuf \o wire, link = "up"),
         stage = "RDY4_PARSE", NEW n \in 1 .. Len(sent), InHand(S, n), sent[n].body = 0,
         request' \in Seq(Tokens),
         \A i \in 1 .. Len(request') : \E j \in 2 .. Len(request) : request'[i] = request[j],
         failed' = "ParseRequest", cur' \in Nat,
         UNCHANGED <<link, wire, sent, curBuf, stage, postBytes, postRead, body>>
  PROVE  StreamInv'
<1>1. StreamTypeOK'
  BY DEF StreamTypeOK
<1>2. Starts(sent, S, curBuf \o wire, link = "up")'
  OBVIOUS
<1>3. \A i \in 1 .. Len(request') : request'[i].t \in Fields /\ request'[i].n = n
  <2>1. \A j \in 2 .. Len(request) : j \in 1 .. Len(request)
    OBVIOUS
  <2>2. \A j \in 1 .. Len(request) : request[j].n = n
    BY Zenon DEF InHand
  <2>3. \A j \in 2 .. Len(request) : request[j].t \in Fields
    BY Zenon DEF InHand
  <2> QED BY <2>1, <2>2, <2>3, Zenon
<1>4. Due(S)'
  <2>1. sent'[n].body = 0 /\ n \in 1 .. Len(sent') /\ S[n + 1] = 1
    BY DEF InHand
  <2>2. stage' \notin Answering /\ stage' \notin {"RDY4_REQUEST", "RDY4_RECV_POST"}
    BY DEF Answering
  <2> QED BY <1>3, <2>1, <2>2 DEF Due
<1> QED BY <1>1, <1>2, <1>4, Zenon DEF StreamInv

(* The lines that ParseRequest enters into the header map.                   *)
LEMMA StopMeans ==
  ASSUME request \in Seq(Tokens)
  PROVE  /\ NoColon = {} => Stop = Len(request) + 1
         /\ NoColon # {} => Stop \in 2 .. Len(request)
<1>1. CASE NoColon = {}
  BY <1>1, Zenon DEF Stop
<1>2. CASE NoColon # {}
  <2>1. NoColon \in SUBSET Nat /\ NoColon \subseteq 2 .. Len(request)
    BY DEF NoColon
  <2>2. \E x \in NoColon : \A y \in NoColon : x <= y
    BY <1>2, <2>1, LeastOne
  <2>3. Stop \in NoColon
    BY <1>2, <2>2, Zenon DEF Stop
  <2> QED BY <1>2, <2>1, <2>3
<1> QED BY <1>1, <1>2

(* The Content-Length of a POST is the length of its body.                   *)
LEMMA LengthFound ==
  ASSUME request \in Seq(Tokens), NoColon = {}, NEW l,
         \E i \in 2 .. Len(request) :
           /\ request[i].t = "length" /\ request[i].v = l
           /\ \A j \in 2 .. Len(request) : request[j].t = "length" => j = i
  PROVE  HeadersAfter.length = l
<1>1. PICK i \in 2 .. Len(request) :
        /\ request[i].t = "length" /\ request[i].v = l
        /\ \A j \in 2 .. Len(request) : request[j].t = "length" => j = i
  OBVIOUS
<1>2. Stop - 1 = Len(request)
  <2>1. Stop = Len(request) + 1
    BY StopMeans
  <2> QED BY <2>1
<1>3. FieldsOf({"length"}) = {i}
  <2>1. FieldsOf({"length"}) = {j \in 2 .. Len(request) : request[j].t \in {"length"}}
    BY <1>2, Zenon DEF FieldsOf
  <2> QED BY <1>1, <2>1
<1>4. Latest({i}) = request[i]
  <2>1. (CHOOSE x \in {i} : \A j \in {i} : j <= x) = i
    <3>1. \E x \in {i} : \A j \in {i} : j <= x
      OBVIOUS
    <3> QED BY <3>1, Zenon
  <2> QED BY <2>1, Zenon DEF Latest
<1>5. FieldsOf({"length"}) # {} /\ Latest(FieldsOf({"length"})).v = l
  BY <1>1, <1>3, <1>4, Zenon
<1> QED BY <1>5 DEF HeadersAfter

LEMMA ParseRequestKeeps ==
  ASSUME Tidy, StreamInv, ParseRequest PROVE StreamInv'
<1>1. PICK S : Starts(sent, S, curBuf \o wire, link = "up") /\ Due(S)
  BY DEF StreamInv
<1>2. /\ sent \in Seq(Kinds) /\ Len(sent) \in Nat /\ cur \in Nat
      /\ request \in Seq(Tokens) /\ Len(request) \in Nat
      /\ postBytes \in Nat /\ postRead \in Nat /\ body \in Seq(Tokens) /\ StreamTypeOK
  BY DEF StreamInv, StreamTypeOK
<1>3. UNCHANGED <<link, wire, sent, curBuf>>
  BY DEF ParseRequest, clientVars
<1>4. Starts(sent, S, curBuf \o wire, link = "up")'
  BY <1>1, <1>3
<1>5. CASE stage # "RDY4_PARSE"
  <2>1. UNCHANGED <<stage, request, cur, postBytes, postRead, body>>
    BY <1>5 DEF ParseRequest, requestVars, postVars
  <2> QED BY <1>3, <1>5, <2>1, StreamKept
<1>6. CASE stage = "RDY4_PARSE" /\ request = <<>>
  <2>1. /\ UNCHANGED <<stage, request, cur, postBytes, postRead, body>>
        /\ failed' = "ParseRequest"
    BY <1>6 DEF ParseRequest, ParseLines, ParseFails, requestVars, postVars
  <2>2. StreamTypeOK'
    BY <1>2, <1>3, <2>1 DEF StreamTypeOK
  <2>3. Due(S)'
    BY <1>6, <2>1 DEF Due, Answering
  <2> QED BY <1>4, <2>2, <2>3, Zenon DEF StreamInv
<1>7. CASE stage = "RDY4_PARSE" /\ request # <<>>
  <2>1. PICK n \in 1 .. Len(sent) : InHand(S, n)
    BY <1>1, <1>2, <1>7, RequestInHand
  <2>2. Head(request) = request[1] /\ 1 \in 1 .. Len(request) /\ request[1].n = n
    BY <1>2, <1>7, <2>1 DEF InHand
  <2>3. n \in Nat /\ n \in 1 .. Len(sent)
    BY <1>2, <2>1
  <2>4. NoColon # {} => request[1].t # "POST"
    BY <2>1 DEF NoColon, InHand
  <2>5. CASE /\ request[1].t \notin Words3 /\ request' = Tail(request)
             /\ failed' = "ParseRequest" /\ UNCHANGED <<stage, cur, postBytes, postRead, body>>
    <3>1. request' \in Seq(Tokens) /\ \A i \in 1 .. Len(request') : request'[i] = request[i + 1]
                                                                    /\ i + 1 \in 2 .. Len(request)
      BY <1>2, <1>7, <2>5
    <3>2. sent[n].body = 0
      BY <2>1, <2>5 DEF InHand, Words3
    <3>3. \A i \in 1 .. Len(request') : \E j \in 2 .. Len(request) : request'[i] = request[j]
      BY <3>1, Zenon
    <3> QED BY <1>1, <1>2, <1>3, <1>7, <2>1, <2>5, <3>1, <3>2, <3>3, LeftOver
  <2>6. CASE /\ NoColon # {} /\ request' = From(request, Stop + 1)
             /\ cur' = n /\ failed' = "ParseRequest"
             /\ UNCHANGED <<stage, postBytes, postRead, body>>
    <3>1. Stop \in 2 .. Len(request) /\ Stop \in 0 .. Len(request)
      <4>1. Stop \in 2 .. Len(request)
        BY <1>2, <2>6, StopMeans
      <4> QED BY <4>1
    <3>2. /\ request' \in Seq(Tokens) /\ Len(request') = Len(request) - Stop
          /\ \A i \in 1 .. Len(request) - Stop : request'[i] = request[i + Stop]
      BY <1>2, <2>6, <3>1, FromMeans
    <3>3. \A i \in 1 .. Len(request') : request'[i] = request[i + Stop]
                                        /\ i + Stop \in 2 .. Len(request)
      BY <1>2, <3>1, <3>2
    <3>4. \A i \in 1 .. Len(request') : \E j \in 2 .. Len(request) : request'[i] = request[j]
      BY <3>3, Zenon
    <3>5. sent[n].body = 0 /\ cur' \in Nat
      BY <2>1, <2>3, <2>4, <2>6 DEF InHand
    <3> QED BY <1>1, <1>2, <1>3, <1>7, <2>1, <2>6, <3>2, <3>4, <3>5, LeftOver
  <2>7. CASE /\ request[1].t # "POST" /\ request' = <<>> /\ body' = <<>>
             /\ cur' = n /\ stage' = "RDY4_SET_HEADER" /\ UNCHANGED <<postBytes, postRead>>
    <3>1. sent[n].body = 0 /\ S[n + 1] = 1
      BY <2>1, <2>7 DEF InHand
    <3>2. StreamTypeOK'
      BY <1>2, <1>3, <2>3, <2>7 DEF StreamTypeOK, Stages
    <3>3. BodyTo(n, 0)'
      BY <2>7 DEF BodyTo
    <3>4. Due(S)'
      BY <1>3, <2>1, <2>7, <3>1, <3>3 DEF Due, Answering
    <3> QED BY <1>4, <3>2, <3>4, Zenon DEF StreamInv
  <2>8. CASE /\ request[1].t = "POST" /\ NoColon = {} /\ request' = <<>> /\ body' = <<>>
             /\ cur' = n /\ postBytes' = HeadersAfter.length /\ postRead' = 0
             /\ stage' = "RDY4_RECV_POST"
    <3>1. HeadersAfter.length = sent[n].body
      <4>1. \E i \in 2 .. Len(request) :
              /\ request[i].t = "length" /\ request[i].v = sent[n].body
              /\ \A j \in 2 .. Len(request) : request[j].t = "length" => j = i
        BY <2>1, <2>8, Zenon DEF InHand
      <4> QED BY <1>2, <2>8, <4>1, LengthFound
    <3>2. sent[n].body \in Nat /\ sent[n].body > 0 /\ S[n + 1] = 1 + sent[n].body
      <4>1. sent[n] \in Kinds
        BY <1>2, <2>1
      <4>2. sent[n].body \in Nat
        BY <4>1, KindMeans
      <4> QED BY <2>1, <2>8, <4>2 DEF InHand
    <3>3. postBytes' = sent[n].body /\ sent' = sent
      BY <1>3, <2>8, <3>1
    <3>4. StreamTypeOK'
      BY <1>2, <1>3, <2>3, <2>8, <3>2, <3>3 DEF StreamTypeOK, Stages
    <3>5. BodyTo(n, 0)'
      BY <2>8 DEF BodyTo
    <3>6. S[n + 1] = 1 + postBytes' - postRead' /\ postRead' < postBytes'
      BY <2>8, <3>2, <3>3
    <3>7. stage' \notin Answering /\ stage' \notin {"RDY4_REQUEST", "RDY4_PARSE"}
      BY <2>8 DEF Answering
    <3>8. Due(S)'
      BY <2>1, <2>8, <3>3, <3>5, <3>6, <3>7 DEF Due
    <3> QED BY <1>4, <3>4, <3>8, Zenon DEF StreamInv
  <2>9. CASE /\ request' = <<>> /\ body' = <<>> /\ cur' = n
             /\ stage' = "RDY4_DISCONNECT" /\ UNCHANGED <<postBytes, postRead>>
    <3>1. StreamTypeOK'
      BY <1>2, <1>3, <2>3, <2>9 DEF StreamTypeOK, Stages
    <3>2. Due(S)'
      BY <2>9 DEF Due, Answering
    <3> QED BY <1>4, <3>1, <3>2, Zenon DEF StreamInv
  <2>10. ParseLines
    BY <1>7 DEF ParseRequest
  <2>11. CASE Head(request).t \notin Words3
    BY <1>7, <2>2, <2>5, <2>10, <2>11 DEF ParseLines, ParseFails, postVars
  <2>12. CASE Head(request).t \in Words3
    <3>1. method' = request[1].t /\ cur' = n /\ headers' = HeadersAfter
      BY <1>7, <2>2, <2>10, <2>12, Zenon DEF ParseLines
    <3> QED BY <1>7, <2>2, <2>6, <2>7, <2>8, <2>9, <2>10, <2>12, <3>1
            DEF ParseLines, ParseFails, StartPost, postVars
  <2> QED BY <2>11, <2>12
<1> QED BY <1>5, <1>6, <1>7

-----------------------------------------------------------------------------
LEMMA AnswerKeeps ==
  ASSUME StreamInv,
         (\E length \in Lengths : SetHeaders(length)) \/ SendHeaders \/ Send
  PROVE  StreamInv'
<1>1. UNCHANGED <<link, wire, sent, curBuf, request, cur, postBytes, postRead, body>>
  BY DEF SetHeaders, SendHeaders, Send, clientVars, requestVars, postVars
<1>2. CASE \E length \in Lengths : SetHeaders(length)
  BY <1>1, <1>2, StreamKept DEF SetHeaders, Answering
<1>3. CASE SendHeaders
  <2>1. \/ stage' = stage /\ (stage = "RDY4_PARSE" => failed' = failed)
        \/ stage \in Answering /\ stage' \in Answering
    BY <1>3 DEF SendHeaders, Answering
  <2> QED BY <1>1, <2>1, StreamKept
<1>4. CASE Send
  <2>1. \/ stage' = stage /\ failed' = failed
        \/ stage \in Answering /\ stage' \in {"RDY4_REQUEST", "RDY4_DISCONNECT"}
    BY <1>4 DEF Send, BodyWritten, AfterBody, Answering
  <2> QED BY <1>1, <2>1, StreamKept
<1> QED BY <1>2, <1>3, <1>4

LEMMA InitStreamInv == Init => StreamInv
<1> SUFFICES ASSUME Init PROVE StreamInv
  OBVIOUS
<1>1. /\ sent = <<>> /\ curBuf = <<>> /\ wire = <<>> /\ stage = "RDY4_REQUEST" /\ cur = 0
      /\ link = "up"
  BY DEF Init
<1>2. StreamTypeOK
  BY DEF Init, StreamTypeOK, Stages
<1>S. PICK S : S = [n \in 1 .. 1 |-> 1]
  OBVIOUS
<1>3. S[1] = 1 /\ S \in [1 .. 1 -> Int]
  BY <1>S
<1>4. Starts(<<>>, S, <<>>, TRUE)
  <2>1. Len(<<>>) + 1 = 1
    OBVIOUS
  <2> QED BY <1>3, <2>1 DEF Starts
<1>5. Due(S)
  BY <1>1, <1>3 DEF Due, Answering
<1>6. Starts(sent, S, curBuf \o wire, link = "up")
  <2>1. curBuf \o wire = <<>> /\ (link = "up") = TRUE
    BY <1>1
  <2> QED BY <1>1, <1>4, <2>1, Zenon
<1> QED BY <1>2, <1>5, <1>6, Zenon DEF StreamInv

LEMMA NextStreamInv ==
  ASSUME Tidy PROVE StreamInv /\ [Next]_vars => StreamInv'
<1> SUFFICES ASSUME StreamInv, [Next]_vars PROVE StreamInv'
  OBVIOUS
<1>1. CASE Client
  BY <1>1, ClientSendKeeps, ClientLeavesKeeps DEF Client
<1>2. CASE ReadRequest
  BY <1>2, ReadRequestKeeps
<1>3. CASE ParseRequest
  BY <1>3, ParseRequestKeeps
<1>4. CASE Recv
  BY <1>4, RecvKeeps
<1>5. CASE (\E length \in Lengths : SetHeaders(length)) \/ SendHeaders \/ Send
  BY <1>5, AnswerKeeps
<1>6. CASE UNCHANGED vars
  BY <1>6, StreamKept DEF vars, clientVars, requestVars, postVars
<1> QED BY <1>1, <1>2, <1>3, <1>4, <1>5, <1>6 DEF Next, Server

-----------------------------------------------------------------------------
(* The head that InStep expects, token by token.                             *)
LEMMA HeadOfMeans ==
  ASSUME sent \in Seq(Kinds), NEW n \in 1 .. Len(sent)
  PROVE  /\ HeadOf(n) \in Seq(Tokens) /\ Len(HeadOf(n)) = Len(sent[n].fields) + 1
         /\ \A i \in 1 .. Len(HeadOf(n)) : HeadOf(n)[i] = At(sent[n], n, i)
<1>k. PICK k : k = sent[n]
  OBVIOUS
<1>t. PICK text : text = Text(k, n)
  OBVIOUS
<1>1. n \in Nat /\ k \in Kinds
  BY <1>k
<1>2. Len(k.fields) \in Nat /\ k.body \in Nat
  BY <1>1, KindMeans
<1>3. /\ text \in Seq(Tokens) /\ Len(text) = Size(k)
      /\ \A i \in 1 .. Size(k) : text[i] = At(k, n, i)
  BY <1>1, <1>t, TextMeans
<1>e. PICK e : e = Len(k.fields) + 2
  OBVIOUS
<1>4. Size(k) \in Nat /\ e \in 1 .. Size(k) /\ e \in Nat /\ e - 1 \in 0 .. Size(k)
  BY <1>2, <1>e DEF Size
<1>5. \A i \in 1 .. Size(k) : text[i].t = "CRLFCRLF" <=> i = e
  <2>1. \A i \in Nat \ {0} : At(k, n, i).t = "CRLFCRLF" <=> i = e
    BY <1>1, <1>e, AtType
  <2>2. \A i \in 1 .. Size(k) : i \in Nat \ {0}
    BY <1>4
  <2> QED BY <1>3, <2>1, <2>2, Zenon
<1>6. EndOfHead(text) = {e}
  BY <1>3, <1>4, <1>5 DEF EndOfHead
<1>7. FirstEnd(text) = e
  <2>1. FirstEnd(text) \in EndOfHead(text)
    BY <1>3, <1>6, FirstEndIs DEF HasHead
  <2> QED BY <1>6, <2>1
<1>8. HeadOf(n) = SubSeq(text, 1, e - 1)
  BY <1>7, <1>k, <1>t, Zenon DEF HeadOf
<1>h. PICK h : h = HeadOf(n)
  OBVIOUS
<1>9. /\ h \in Seq(Tokens) /\ Len(h) = e - 1
      /\ \A i \in 1 .. e - 1 : h[i] = text[i]
  BY <1>3, <1>4, <1>8, <1>h, PartMeans
<1>10. e - 1 = Len(k.fields) + 1 /\ \A i \in 1 .. e - 1 : i \in 1 .. Size(k)
  BY <1>2, <1>4, <1>e
<1> QED BY <1>3, <1>9, <1>10, <1>h, <1>k, Zenon

LEMMA BodyOfMeans ==
  ASSUME sent \in Seq(Kinds), NEW n \in 1 .. Len(sent)
  PROVE  /\ sent[n].body \in Nat /\ BodyOf(n) \in Seq(Tokens)
         /\ Len(BodyOf(n)) = sent[n].body
         /\ \A i \in 1 .. sent[n].body : BodyOf(n)[i] = Token("unit", 0, n)
<1>1. n \in Nat /\ sent[n] \in Kinds
  OBVIOUS
<1>2. sent[n].body \in Nat
  BY <1>1, KindMeans
<1>3. Token("unit", 0, n) \in Tokens
  BY <1>1, TokenOK
<1>4. BodyOf(n) \in [1 .. sent[n].body -> Tokens]
  BY <1>3 DEF BodyOf
<1>5. \A i \in 1 .. sent[n].body : BodyOf(n)[i] = Token("unit", 0, n)
  BY DEF BodyOf
<1> QED BY <1>2, <1>4, <1>5, IsSeq

(* The server takes no token for one of another request: with no request in  *)
(* hand the next token starts the one after the last it served, ParseRequest *)
(* is given exactly the head of that request, and the token next to a body   *)
(* that is due belongs to it (ReadPartialRequest and Recv, for requests of   *)
(* any shape, pipelined or not, cut into reads of any length).               *)
THEOREM StaysInStep ==
  ASSUME Tidy PROVE Spec => []InStep
<1>1. StreamInv /\ [Next]_vars => StreamInv'
  BY NextStreamInv
<1>2. StreamInv => InStep
  <2> SUFFICES ASSUME StreamInv PROVE InStep
    OBVIOUS
  <2>1. PICK S : Starts(sent, S, curBuf \o wire, link = "up") /\ Due(S)
    BY DEF StreamInv
  <2>r. PICK rest : rest = curBuf \o wire
    OBVIOUS
  <2>2. /\ sent \in Seq(Kinds) /\ Len(sent) \in Nat /\ cur \in Nat
        /\ curBuf \in Seq(Tokens) /\ wire \in Seq(Tokens) /\ request \in Seq(Tokens)
        /\ postBytes \in Nat /\ postRead \in Nat
    BY DEF StreamInv, StreamTypeOK
  <2>3. rest \in Seq(Tokens)
    BY <2>2, <2>r, ConcatProperties
  <2>4. /\ S \in [1 .. Len(sent) + 1 -> Int] /\ Len(rest) < S[Len(sent) + 1]
        /\ \A n \in 1 .. Len(sent) : S[n + 1] = S[n] + Size(sent[n])
        /\ \A n \in 1 .. Len(sent) : \A i \in 1 .. Size(sent[n]) :
             S[n] + i - 1 \in 1 .. Len(rest) => rest[S[n] + i - 1] = At(sent[n], n, i)
    BY <2>1, <2>r, Zenon DEF Starts
  <2>5. ASSUME stage = "RDY4_REQUEST", rest # <<>>
        PROVE  Head(rest) = Token(sent[cur + 1].line, 0, cur + 1)
    <3>1. cur \in 0 .. Len(sent) /\ S[cur + 1] = 1
      BY <2>1, <2>5 DEF Due
    <3>2. Len(rest) \in Nat \ {0} /\ Head(rest) = rest[1]
      BY <2>3, <2>5
    <3>3. cur # Len(sent)
      BY <2>4, <3>1, <3>2
    <3>4. cur + 1 \in 1 .. Len(sent) /\ cur + 1 \in Nat
      BY <2>2, <3>1, <3>3
    <3>5. sent[cur + 1] \in Kinds
      BY <2>2, <3>4
    <3>6. 1 \in 1 .. Size(sent[cur + 1])
      BY <3>5, KindMeans DEF Size
    <3>7. S[cur + 1] + 1 - 1 = 1 /\ 1 \in 1 .. Len(rest)
      BY <3>1, <3>2
    <3>8. rest[1] = At(sent[cur + 1], cur + 1, 1)
      BY <2>4, <3>4, <3>6, <3>7
    <3> QED BY <3>2, <3>4, <3>5, <3>8, AtMeans
  <2>6. ASSUME stage = "RDY4_PARSE", failed = "none"
        PROVE  request = HeadOf(cur + 1)
    <3>1. /\ cur + 1 \in 1 .. Len(sent)
          /\ Len(request) = Len(sent[cur + 1].fields) + 1
          /\ \A i \in 1 .. Len(request) : request[i] = At(sent[cur + 1], cur + 1, i)
      BY <2>1, <2>6, Zenon DEF Due
    <3>h. PICK h : h = HeadOf(cur + 1)
      OBVIOUS
    <3>2. /\ h \in Seq(Tokens) /\ Len(h) = Len(sent[cur + 1].fields) + 1
          /\ \A i \in 1 .. Len(h) : h[i] = At(sent[cur + 1], cur + 1, i)
      BY <2>2, <3>1, <3>h, HeadOfMeans
    <3>3. request = h
      BY <2>2, <3>1, <3>2, SeqEqual
    <3> QED BY <3>h, <3>3
  <2>7. ASSUME stage = "RDY4_RECV_POST", rest # <<>>
        PROVE  Head(rest) = Token("unit", 0, cur)
    <3>c. PICK c : c = sent[cur]
      OBVIOUS
    <3>1. /\ cur \in 1 .. Len(sent) /\ postBytes = c.body /\ postRead < postBytes
          /\ S[cur + 1] = 1 + postBytes - postRead
      BY <2>1, <2>7, <3>c DEF Due
    <3>2. Len(rest) \in Nat \ {0} /\ Head(rest) = rest[1]
      BY <2>3, <2>7
    <3>3. c \in Kinds /\ Len(c.fields) \in Nat
      <4>1. c \in Kinds
        BY <2>2, <3>1, <3>c
      <4> QED BY <4>1, KindMeans
    <3>4. Size(c) = Len(c.fields) + 2 + postBytes
      BY <3>1 DEF Size
    <3>5. S[cur + 1] = S[cur] + Size(c) /\ S[cur] \in Int
      BY <2>2, <2>4, <3>1, <3>c
    <3>i. PICK i : i = Len(c.fields) + 3 + postRead
      OBVIOUS
    <3>6. /\ i \in 1 .. Size(c) /\ i > Len(c.fields) + 2 /\ i \in Nat \ {0}
      <4>1. postRead \in Nat /\ postBytes \in Nat /\ postRead < postBytes
        BY <2>2, <3>1
      <4>2. Len(c.fields) \in Nat
        BY <3>3
      <4> QED BY <3>4, <3>i, <4>1, <4>2
    <3>7. S[cur] + i - 1 = 1
      <4>1. PICK x \in Int : x = S[cur]
        BY <3>5
      <4>2. 1 + postBytes - postRead = x + (Len(c.fields) + 2 + postBytes)
        BY <3>1, <3>4, <3>5, <4>1, Zenon
      <4>3. x + (Len(c.fields) + 3 + postRead) - 1 = 1
        <5>1. postRead \in Nat /\ postBytes \in Nat /\ Len(c.fields) \in Nat
          BY <2>2, <3>3
        <5> QED BY <4>2, <5>1
      <4> QED BY <3>i, <4>1, <4>3, Zenon
    <3>8. 1 \in 1 .. Len(rest)
      BY <3>2
    <3>9. rest[1] = At(c, cur, i)
      BY <2>4, <3>1, <3>6, <3>7, <3>8, <3>c
    <3> QED BY <2>2, <3>2, <3>3, <3>6, <3>9, AtMeans
  <2> QED BY <2>5, <2>6, <2>7, <2>r, Zenon DEF InStep
<1> QED BY InitStreamInv, <1>1, <1>2, PTL DEF Spec

(* What Recv delivers is the body that the client sent with the request being *)
(* served, in order and nothing else, and all of it has been delivered when  *)
(* a response may start.                                                     *)
THEOREM DeliversTheBody ==
  ASSUME Tidy PROVE Spec => []BodyIsTheClients
<1>1. StreamInv /\ [Next]_vars => StreamInv'
  BY NextStreamInv
<1>2. StreamInv => BodyIsTheClients
  <2> SUFFICES ASSUME StreamInv PROVE BodyIsTheClients
    OBVIOUS
  <2>1. PICK S : Due(S)
    BY DEF StreamInv
  <2>2. /\ sent \in Seq(Kinds) /\ body \in Seq(Tokens)
        /\ postBytes \in Nat /\ postRead \in Nat
    BY DEF StreamInv, StreamTypeOK
  <2>b. PICK b : b = BodyOf(cur)
    OBVIOUS
  <2>3. ASSUME stage = "RDY4_RECV_POST" PROVE body = SubSeq(BodyOf(cur), 1, postRead)
    <3>1. /\ cur \in 1 .. Len(sent) /\ BodyTo(cur, postRead)
          /\ postBytes = sent[cur].body /\ postRead < postBytes
      BY <2>1, <2>3 DEF Due
    <3>2. /\ b \in Seq(Tokens) /\ Len(b) = postBytes
          /\ \A i \in 1 .. postBytes : b[i] = Token("unit", 0, cur)
      BY <2>2, <2>b, <3>1, BodyOfMeans
    <3>3. postRead \in 0 .. Len(b) /\ \A i \in 1 .. postRead : i \in 1 .. postBytes
      BY <2>2, <3>1, <3>2
    <3>p. PICK part : part = SubSeq(b, 1, postRead)
      OBVIOUS
    <3>4. /\ part \in Seq(Tokens) /\ Len(part) = postRead
          /\ \A i \in 1 .. postRead : part[i] = b[i]
      BY <3>2, <3>3, <3>p, PartMeans
    <3>5. Len(body) = Len(part) /\ \A i \in 1 .. Len(body) : body[i] = part[i]
      BY <3>1, <3>2, <3>3, <3>4, Zenon DEF BodyTo
    <3>6. body = part
      BY <2>2, <3>4, <3>5, SeqEqual
    <3> QED BY <2>b, <3>6, <3>p, Zenon
  <2>4. ASSUME stage = "RDY4_SET_HEADER" \/ Responding PROVE body = BodyOf(cur)
    <3>1. cur \in 1 .. Len(sent) /\ BodyTo(cur, sent[cur].body)
      BY <2>1, <2>4 DEF Due, Responding, Answering
    <3>2. /\ b \in Seq(Tokens) /\ Len(b) = sent[cur].body
          /\ \A i \in 1 .. sent[cur].body : b[i] = Token("unit", 0, cur)
      BY <2>2, <2>b, <3>1, BodyOfMeans
    <3>3. Len(body) = Len(b) /\ \A i \in 1 .. Len(body) : body[i] = b[i]
      BY <3>1, <3>2, Zenon DEF BodyTo
    <3>4. body = b
      BY <2>2, <3>2, <3>3, SeqEqual
    <3> QED BY <2>b, <3>4
  <2> QED BY <2>3, <2>4 DEF BodyIsTheClients
<1> QED BY InitStreamInv, <1>1, <1>2, PTL DEF Spec
-----------------------------------------------------------------------------
(* The refinement *)

(* The application uses the class as documented; clients may pipeline.       *)
Documented == Habits \subseteq {"pipeline"}

(* No request asks both for the connection to be closed and to be kept.      *)
Unambiguous ==
  \A k \in Closers : \A i \in 1 .. Len(k.fields) : k.fields[i][1] # "keep"

ClosesFor(n) == headers.close <=> sent[n] \in Closers

(* Which request the next response is for, and what becomes of the           *)
(* connection after it.                                                      *)
ServeInv ==
  /\ headers.close \in BOOLEAN
  /\ failed = "SendHeaders" => stage = "RDY4_SEND_HEADER"
  /\ failed = "ParseRequest" => stage = "RDY4_PARSE"
  /\ stage = "RDY4_REQUEST" \/ (stage = "RDY4_PARSE" /\ failed = "none") =>
       cur = Len(out) /\ ~headers.close
  /\ \/ stage \in {"RDY4_RECV_POST", "RDY4_SET_HEADER"}
     \/ stage = "RDY4_SEND_HEADER" /\ failed = "none"
     => cur = Len(out) + 1 /\ ClosesFor(cur)
  /\ stage = "RDY4_SEND_BODY" => cur = Len(out) /\ ClosesFor(cur)

ExchangeInv == StreamInv /\ FIInv /\ ServeInv

Step == ServeInv' /\ [Served!Next]_(Served!vars)

-----------------------------------------------------------------------------
LEMMA GreatestOne ==
  ASSUME NEW m \in Nat, NEW T \in SUBSET (0 .. m), T # {}
  PROVE  \E x \in T : \A y \in T : y <= x
<1>1. PICK U : U = {m - y : y \in T}
  OBVIOUS
<1>2. U \in SUBSET Nat /\ U # {}
  <2>1. \A y \in T : m - y \in Nat
    <3> SUFFICES ASSUME NEW y \in T PROVE m - y \in Nat
      OBVIOUS
    <3>1. y \in 0 .. m
      OBVIOUS
    <3> QED BY <3>1
  <2> QED BY <1>1, <2>1
<1>3. PICK u \in U : \A v \in U : u <= v
  BY <1>2, LeastOne
<1>4. PICK x \in T : u = m - x
  BY <1>1, <1>3
<1>5. ASSUME NEW y \in T PROVE y <= x
  <2>1. m - y \in U
    BY <1>1
  <2>2. m - x <= m - y
    BY <1>3, <1>4, <2>1
  <2>3. x \in 0 .. m /\ y \in 0 .. m
    OBVIOUS
  <2> QED BY <2>2, <2>3
<1> QED BY <1>5

(* ParseRequest finds "Connection: close" if and only if it was sent.        *)
LEMMA CloseFound ==
  ASSUME Unambiguous, NEW k \in Kinds, NEW n \in Nat, request \in Seq(Tokens),
         NoColon = {}, Len(request) = Len(k.fields) + 1, ~headers.close,
         headers.close \in BOOLEAN,
         \A i \in 1 .. Len(request) : request[i] = At(k, n, i)
  PROVE  HeadersAfter.close \in BOOLEAN /\ (HeadersAfter.close <=> k \in Closers)
<1>1. Len(k.fields) \in Nat /\ DOMAIN k.fields = 1 .. Len(k.fields)
  BY KindMeans
<1>2. Stop - 1 = Len(request) /\ Len(request) \in Nat
  <2>1. Stop = Len(request) + 1
    BY StopMeans
  <2> QED BY <1>1, <2>1
<1>I. PICK I : I = FieldsOf({"close", "keep"})
  OBVIOUS
<1>3. I = {i \in 2 .. Len(request) : request[i].t \in {"close", "keep"}}
  BY <1>2, <1>I, Zenon DEF FieldsOf
<1>4. ASSUME NEW i \in 2 .. Len(request)
      PROVE  /\ i - 1 \in 1 .. Len(k.fields)
             /\ request[i].t = k.fields[i - 1][1]
  <2>1. i - 1 \in 1 .. Len(k.fields) /\ (i - 1) + 1 = i /\ i \in 1 .. Len(request)
    BY <1>1
  <2>2. At(k, n, (i - 1) + 1).t = k.fields[i - 1][1]
    BY <2>1, FieldAt
  <2> QED BY <2>1, <2>2, Zenon
<1>5. ASSUME NEW i \in 1 .. Len(k.fields)
      PROVE  i + 1 \in 2 .. Len(request) /\ request[i + 1].t = k.fields[i][1]
  <2>1. i + 1 \in 2 .. Len(request) /\ (i + 1) - 1 = i
    BY <1>1
  <2> QED BY <1>4, <2>1, Zenon
<1>6. CASE I = {}
  <2>1. k \notin Closers
    <3> SUFFICES ASSUME k \in Closers PROVE FALSE
      OBVIOUS
    <3>1. PICK i \in 1 .. Len(k.fields) : k.fields[i][1] = "close"
      BY <1>1 DEF Closers
    <3> QED BY <1>3, <1>5, <1>6, <3>1
  <2>2. HeadersAfter.close = headers.close
    BY <1>6, <1>I DEF HeadersAfter
  <2> QED BY <2>1, <2>2
<1>7. CASE I # {}
  <2>1. I \in SUBSET (0 .. Len(request))
    BY <1>2, <1>3
  <2>2. \E x \in I : \A y \in I : y <= x
    BY <1>2, <1>7, <2>1, GreatestOne
  <2>3. PICK x \in I : x = CHOOSE z \in I : \A y \in I : y <= z
    BY <2>2
  <2>4. Latest(I) = request[x]
    BY <2>3, Zenon DEF Latest
  <2>5. HeadersAfter.close = (request[x].t = "close")
    <3>1. HeadersAfter.close = (Latest(I).t = "close")
      BY <1>7, <1>I DEF HeadersAfter
    <3> QED BY <2>4, <3>1
  <2>6. x - 1 \in 1 .. Len(k.fields) /\ request[x].t = k.fields[x - 1][1]
        /\ request[x].t \in {"close", "keep"}
    BY <1>3, <1>4
  <2>7. CASE request[x].t = "close"
    BY <1>1, <2>5, <2>6, <2>7 DEF Closers
  <2>8. CASE request[x].t = "keep"
    BY <2>5, <2>6, <2>8 DEF Unambiguous
  <2> QED BY <2>6, <2>7, <2>8
<1> QED BY <1>6, <1>7

-----------------------------------------------------------------------------
(* Nothing that Exchange speaks of changes.                                  *)
LEMMA Quiet ==
  ASSUME UNCHANGED <<sent, out>>, Phase' = Phase, Phase = "waiting" \/ cur' = cur
  PROVE  [Served!Next]_(Served!vars)
<1>1. Taken' = Taken
  BY DEF Taken
<1>2. Whole' = Whole
  BY DEF Whole, Fragment
<1> QED BY <1>1, <1>2 DEF Served!vars

LEMMA CurSent ==
  ASSUME StreamInv
  PROVE  /\ sent \in Seq(Kinds) /\ Len(sent) \in Nat /\ cur \in Nat
         /\ request \in Seq(Tokens)
         /\ stage \in Answering \cup {"RDY4_RECV_POST"} => cur \in 1 .. Len(sent)
<1>1. PICK S : Due(S)
  BY DEF StreamInv
<1>2. stage \in Answering \cup {"RDY4_RECV_POST"} => cur \in 1 .. Len(sent)
  BY <1>1 DEF Due
<1> QED BY <1>2 DEF StreamInv, StreamTypeOK

LEMMA ClientStep ==
  ASSUME ExchangeInv, Client PROVE Step
<1>1. /\ sent \in Seq(Kinds) /\ Len(sent) \in Nat
      /\ stage \in Answering \cup {"RDY4_RECV_POST"} => cur \in 1 .. Len(sent)
  BY CurSent DEF ExchangeInv
<1>2. UNCHANGED <<stage, headers, cur, out, failed>>
  BY DEF Client, ClientSend, ClientClose, LinkBreaks, requestVars, answerVars
<1>3. \/ UNCHANGED sent
      \/ \E k \in Kinds : sent' = Append(sent, k)
  BY DEF Client, ClientSend, ClientClose, LinkBreaks
<1>4. \A n \in 1 .. Len(sent) : sent'[n] = sent[n]
  BY <1>1, <1>3
<1>5. ServeInv'
  <2>1. stage \in Answering \cup {"RDY4_RECV_POST"} => (ClosesFor(cur)' <=> ClosesFor(cur))
    BY <1>1, <1>2, <1>4 DEF ClosesFor
  <2>2. ServeInv
    BY DEF ExchangeInv
  <2> QED BY <1>2, <2>1, <2>2 DEF ServeInv, Answering
<1>6. Phase' = Phase
  BY <1>2 DEF Phase
<1>7. CASE UNCHANGED sent
  BY <1>2, <1>5, <1>6, <1>7, Quiet DEF Step
<1>8. CASE \E k \in Kinds : sent' = Append(sent, k)
  <2>1. Taken' = Taken
    BY <1>2, <1>6 DEF Taken
  <2>2. Whole' = Whole
    BY <1>2 DEF Whole, Fragment
  <2>3. Served!Ask
    BY <1>6, <1>8, <2>1, <2>2 DEF Served!Ask
  <2> QED BY <1>5, <2>3 DEF Step, Served!Next
<1> QED BY <1>3, <1>7, <1>8

LEMMA ReadStep ==
  ASSUME ExchangeInv, ReadRequest PROVE Step
<1>1. UNCHANGED <<sent, headers, cur, out>> /\ ServeInv
  BY DEF ExchangeInv, ReadRequest, requestVars, answerVars
<1>2. \/ UNCHANGED <<stage, failed>>
      \/ stage = "RDY4_REQUEST" /\ stage' = "RDY4_PARSE" /\ failed' = "none"
  BY DEF ReadRequest, ReadPartialRequest
<1>3. ServeInv'
  BY <1>1, <1>2 DEF ServeInv, ClosesFor
<1>4. Phase' = Phase
  BY <1>1, <1>2 DEF ServeInv, Phase
<1> QED BY <1>1, <1>3, <1>4, Quiet DEF Step

LEMMA ParseStep ==
  ASSUME Documented, Unambiguous, ExchangeInv, ParseRequest PROVE Step
<1>1. UNCHANGED <<sent, out>> /\ ServeInv
  BY DEF ExchangeInv, ParseRequest, clientVars, answerVars
<1>2. CASE stage # "RDY4_PARSE"
  <2>1. UNCHANGED <<stage, headers, cur, failed>>
    BY <1>2 DEF ParseRequest, requestVars
  <2>2. ServeInv' /\ Phase' = Phase
    BY <1>1, <2>1 DEF ServeInv, Phase, ClosesFor
  <2> QED BY <1>1, <2>1, <2>2, Quiet DEF Step
<1>3. CASE stage = "RDY4_PARSE"
  <2>1. failed = "none" /\ ParseLines /\ cur = Len(out) /\ ~headers.close /\ Phase = "waiting"
    <3>1. failed # "ParseRequest" /\ ParseLines
      BY <1>3 DEF ParseRequest, Documented
    <3>2. failed \in {"none", "ParseRequest", "SendHeaders"}
      BY DEF ExchangeInv, FIInv, AnswerTypeOK
    <3>3. failed = "none"
      BY <1>1, <1>3, <3>1, <3>2 DEF ServeInv
    <3> QED BY <1>1, <1>3, <3>1, <3>3 DEF ServeInv, Phase
  <2>n. PICK n : n = cur + 1
    OBVIOUS
  <2>k. PICK k : k = sent[n]
    OBVIOUS
  <2>2. /\ n \in 1 .. Len(sent) /\ n \in Nat /\ k \in Kinds /\ request \in Seq(Tokens)
        /\ Len(request) = Len(k.fields) + 1 /\ Len(k.fields) \in Nat
        /\ \A i \in 1 .. Len(request) : request[i] = At(k, n, i)
    <3>1. PICK S : Due(S)
      BY DEF ExchangeInv, StreamInv
    <3>2. /\ cur + 1 \in 1 .. Len(sent)
          /\ Len(request) = Len(sent[cur + 1].fields) + 1
          /\ \A i \in 1 .. Len(request) : request[i] = At(sent[cur + 1], cur + 1, i)
      BY <1>3, <2>1, <3>1, Zenon DEF Due
    <3>3. sent \in Seq(Kinds) /\ cur \in Nat /\ request \in Seq(Tokens)
      BY CurSent DEF ExchangeInv
    <3>4. n \in 1 .. Len(sent) /\ n \in Nat
      BY <2>n, <3>2, <3>3
    <3>5. k \in Kinds
      BY <2>k, <3>3, <3>4
    <3>6. Len(k.fields) \in Nat
      BY <3>5, KindMeans
    <3>7. /\ Len(request) = Len(k.fields) + 1
          /\ \A i \in 1 .. Len(request) : request[i] = At(k, n, i)
      BY <2>k, <2>n, <3>2, Zenon
    <3> QED BY <3>3, <3>4, <3>5, <3>6, <3>7, Zenon
  <2>3. request # <<>> /\ Head(request).n = n
    <3>1. 1 \in 1 .. Len(request) /\ Head(request) = request[1] /\ request # <<>>
      BY <2>2
    <3>2. At(k, n, 1).n = n
      BY <2>2, AtType
    <3> QED BY <2>2, <3>1, <3>2
  <2>4. CASE failed' = "ParseRequest" /\ UNCHANGED stage
    <3>1. headers'.close \in BOOLEAN
      <4>1. headers' = headers \/ headers' = HeadersAfter
        BY <2>1, <2>3, Zenon DEF ParseLines
      <4>2. HeadersAfter.close =
              IF FieldsOf({"close", "keep"}) = {} THEN headers.close
              ELSE Latest(FieldsOf({"close", "keep"})).t = "close"
        BY DEF HeadersAfter
      <4>3. HeadersAfter.close \in BOOLEAN
        BY <1>1, <4>2 DEF ServeInv
      <4> QED BY <1>1, <4>1, <4>3 DEF ServeInv
    <3>2. ServeInv'
      BY <1>1, <1>3, <2>4, <3>1 DEF ServeInv
    <3>3. Phase' = Phase
      BY <1>3, <2>1, <2>4 DEF Phase
    <3> QED BY <1>1, <2>1, <3>2, <3>3, Quiet DEF Step
  <2>5. CASE /\ stage' \in {"RDY4_SET_HEADER", "RDY4_RECV_POST", "RDY4_DISCONNECT"}
             /\ NoColon = {} /\ headers' = HeadersAfter /\ cur' = n /\ UNCHANGED failed
    <3>1. headers'.close \in BOOLEAN /\ (headers'.close <=> k \in Closers)
      BY <1>1, <2>1, <2>2, <2>5, CloseFound DEF ServeInv
    <3>2. ClosesFor(n)'
      BY <1>1, <2>k, <3>1 DEF ClosesFor
    <3>3. ServeInv'
      BY <1>1, <2>1, <2>5, <2>n, <3>1, <3>2 DEF ServeInv
    <3>4. Phase' \in {"serving", "closed"}
      BY <2>1, <2>5 DEF Phase
    <3>5. Taken = cur /\ Taken' = cur + 1 /\ cur < Len(sent)
      <4>1. cur \in Nat /\ Len(sent) \in Nat
        BY CurSent DEF ExchangeInv
      <4>2. Taken = cur
        BY <2>1 DEF Taken
      <4>3. Taken' = cur + 1
        BY <2>5, <2>n, <3>4 DEF Taken
      <4> QED BY <2>2, <2>n, <4>1, <4>2, <4>3
    <3>6. Whole' = Whole
      BY <1>1 DEF Whole, Fragment
    <3>7. Served!Take
      BY <1>1, <2>1, <3>4, <3>5, <3>6 DEF Served!Take
    <3> QED BY <3>3, <3>7 DEF Step, Served!Next
  <2>6. \/ failed' = "ParseRequest" /\ UNCHANGED stage
        \/ /\ stage' \in {"RDY4_SET_HEADER", "RDY4_RECV_POST", "RDY4_DISCONNECT"}
           /\ NoColon = {} /\ headers' = HeadersAfter /\ cur' = n /\ UNCHANGED failed
    BY <2>1, <2>3 DEF ParseLines, ParseFails
  <2> QED BY <2>4, <2>5, <2>6
<1> QED BY <1>2, <1>3

LEMMA RecvStep ==
  ASSUME ExchangeInv, Recv PROVE Step
<1>1. UNCHANGED <<sent, headers, cur, out, failed>> /\ ServeInv
  BY DEF ExchangeInv, Recv, requestVars, answerVars
<1>2. \/ UNCHANGED stage
      \/ stage = "RDY4_RECV_POST" /\ stage' \in {"RDY4_SET_HEADER", "RDY4_DISCONNECT"}
  BY DEF Recv, Deliver
<1>3. ServeInv'
  BY <1>1, <1>2 DEF ServeInv, ClosesFor
<1>4. CASE stage' = "RDY4_DISCONNECT" /\ stage = "RDY4_RECV_POST"
  <2>1. failed # "SendHeaders"
    BY <1>1, <1>4 DEF ServeInv
  <2>2. Phase = "serving" /\ Phase' = "closed"
    BY <1>4, <2>1 DEF Phase
  <2>3. Taken' = Taken /\ Whole' = Whole
    BY <1>1, <2>2 DEF Taken, Whole, Fragment
  <2>4. Served!GiveUp
    BY <1>1, <2>2, <2>3 DEF Served!GiveUp
  <2> QED BY <1>3, <2>4 DEF Step, Served!Next
<1>5. CASE ~(stage' = "RDY4_DISCONNECT" /\ stage = "RDY4_RECV_POST")
  <2>1. Phase' = Phase
    BY <1>1, <1>2, <1>5 DEF Phase, ServeInv
  <2> QED BY <1>1, <1>3, <2>1, Quiet DEF Step
<1> QED BY <1>4, <1>5

LEMMA SetHeadersStep ==
  ASSUME Documented, ExchangeInv, NEW length \in Lengths, SetHeaders(length) PROVE Step
<1>1. UNCHANGED <<sent, headers, cur, out, failed>> /\ ServeInv
  BY DEF ExchangeInv, SetHeaders, requestVars, clientVars
<1>2. \/ UNCHANGED stage
      \/ stage = "RDY4_SET_HEADER" /\ stage' = "RDY4_SEND_HEADER"
  BY DEF SetHeaders
<1>3. ServeInv'
  BY <1>1, <1>2 DEF ServeInv, ClosesFor
<1>4. Phase' = Phase
  BY <1>1, <1>2 DEF Phase, ServeInv
<1> QED BY <1>1, <1>3, <1>4, Quiet DEF Step

LEMMA SendHeadersStep ==
  ASSUME Documented, ExchangeInv, SendHeaders PROVE Step
<1>1. /\ UNCHANGED <<sent, headers, cur>> /\ ServeInv
      /\ out \in Seq(Responses) /\ Len(out) \in Nat
  BY DEF ExchangeInv, FIInv, AnswerTypeOK, SendHeaders, requestVars, clientVars
<1>2. CASE UNCHANGED <<stage, out, failed>>
  <2>1. ServeInv' /\ Phase' = Phase
    BY <1>1, <1>2 DEF ServeInv, ClosesFor, Phase
  <2> QED BY <1>1, <1>2, <2>1, Quiet DEF Step
<1>3. CASE /\ pHeaders # None /\ stage = "RDY4_SEND_HEADER" /\ failed # "SendHeaders"
           /\ ~UNCHANGED <<stage, out, failed>>
  <2>1. /\ failed = "none" /\ Phase = "serving" /\ cur = Len(out) + 1
        /\ Taken = cur
    <3>1. failed \in {"none", "ParseRequest", "SendHeaders"}
      BY DEF ExchangeInv, FIInv, AnswerTypeOK
    <3>2. failed = "none"
      BY <1>1, <1>3, <3>1 DEF ServeInv
    <3>3. Phase = "serving"
      BY <1>3, <3>2 DEF Phase
    <3> QED BY <1>1, <1>3, <3>2, <3>3 DEF ServeInv, Taken
  <2>2. ~Fragment
    <3>1. FramedInv
      BY DEF ExchangeInv, FIInv
    <3>2. out # <<>> => Complete(out[Len(out)])
      BY <1>3, <3>1 DEF FramedInv
    <3> QED BY <3>2 DEF Fragment, Complete
  <2>3. Whole = out
    BY <2>2 DEF Whole
  <2>r. \A head : /\ Response(head).head = head /\ Response(head).length = outBuf
                  /\ Response(head).body = 0 /\ Response(head).done = FALSE
    BY DEF Response
  <2>4. CASE out' = Append(out, Response("full")) /\ stage' = "RDY4_SEND_BODY" /\ failed' = "none"
    <3>r. PICK r : r = Response("full")
      OBVIOUS
    <3>1. /\ out' = Append(out, r) /\ Len(out') = cur /\ out'[Len(out')] = r
          /\ r.head = "full" /\ r.body = 0 /\ ~r.done
      BY <1>1, <2>1, <2>4, <2>r, <3>r
    <3>2. Phase' = "responding"
      BY <2>4 DEF Phase
    <3>3. Whole' = out'
      BY <3>1 DEF Whole, Fragment
    <3>4. Taken' = cur
      BY <1>1, <3>2 DEF Taken
    <3>5. Served!Latest(Whole') = r
      BY <3>1, <3>3, Zenon DEF Served!Latest
    <3>6. Served!Respond
      BY <1>1, <2>1, <2>3, <3>1, <3>2, <3>3, <3>4, <3>5, Zenon DEF Served!Respond
    <3>7. ServeInv'
      BY <1>1, <1>3, <2>1, <2>4, <3>1 DEF ServeInv, ClosesFor
    <3> QED BY <3>6, <3>7 DEF Step, Served!Next
  <2>5. CASE /\ out' \in {out, Append(out, Response("part"))}
             /\ stage' = stage /\ failed' = "SendHeaders"
    <3>1. Whole' = out
      <4>1. CASE out' = out
        BY <2>2, <4>1 DEF Whole, Fragment
      <4>2. CASE out' = Append(out, Response("part"))
        <5>r. PICK r : r = Response("part")
          OBVIOUS
        <5>1. r.head = "part"
          BY <2>r, <5>r
        <5>2. r \in Responses
          <6>1. outBuf \in LengthOrNone
            BY DEF ExchangeInv, FIInv, AnswerTypeOK
          <6> QED BY <5>r, <6>1 DEF Response, Responses
        <5>3. /\ out' = Append(out, r) /\ Len(out') = Len(out) + 1 /\ out' # <<>>
              /\ out'[Len(out')] = r
          BY <1>1, <4>2, <5>r, <5>2
        <5>4. Whole' = SubSeq(out', 1, Len(out') - 1)
          BY <5>1, <5>3 DEF Whole, Fragment
        <5>5. SubSeq(Append(out, r), 1, Len(out)) = out
          BY <1>1, <5>2
        <5> QED BY <1>1, <5>3, <5>4, <5>5
      <4> QED BY <2>5, <4>1, <4>2
    <3>2. Phase' = "closed"
      BY <1>3, <2>5 DEF Phase
    <3>3. Taken' = cur
      BY <1>1, <3>2 DEF Taken
    <3>4. Served!GiveUp
      BY <1>1, <2>1, <2>3, <3>1, <3>2, <3>3, Zenon DEF Served!GiveUp
    <3>5. ServeInv'
      BY <1>1, <1>3, <2>5 DEF ServeInv
    <3> QED BY <3>4, <3>5 DEF Step, Served!Next
  <2> QED BY <1>3, <2>2, <2>4, <2>5 DEF SendHeaders
<1> QED BY <1>2, <1>3 DEF SendHeaders, Documented

LEMMA GrownLast ==
  ASSUME NEW q \in Seq(Responses), NEW c \in 1 .. Len(q), NEW e \in Responses,
         e.head = q[c].head, e.length = q[c].length
  PROVE  [q EXCEPT ![c] = e] = [q EXCEPT ![c].body = e.body, ![c].done = e.done]
<1>1. q[c] \in Responses
  OBVIOUS
<1>2. [[q[c] EXCEPT !.body = e.body] EXCEPT !.done = e.done] = e
  BY <1>1 DEF Responses
<1>3. [q EXCEPT ![c].body = e.body, ![c].done = e.done]
        = [q EXCEPT ![c] = [[q[c] EXCEPT !.body = e.body] EXCEPT !.done = e.done]]
  OBVIOUS
<1> QED BY <1>2, <1>3

LEMMA SendStep ==
  ASSUME ExchangeInv, Send PROVE Step
<1>1. /\ UNCHANGED <<sent, headers, cur, pHeaders, failed>> /\ ServeInv
      /\ out \in Seq(Responses) /\ Len(out) \in Nat
  BY DEF ExchangeInv, FIInv, AnswerTypeOK, Send, requestVars, clientVars
<1>2. CASE UNCHANGED <<stage, out>>
  <2>1. ServeInv' /\ Phase' = Phase
    BY <1>1, <1>2 DEF ServeInv, ClosesFor, Phase
  <2> QED BY <1>1, <1>2, <2>1, Quiet DEF Step
<1>3. ASSUME stage = "RDY4_SEND_BODY", NEW n \in 0 .. MaxSend, NEW k \in 0 .. Room(n),
             NEW msg \in Msgs, BodyWritten(k, msg)
      PROVE  Step
  <2>r. PICK r : r = out[Len(out)]
    OBVIOUS
  <2>1. /\ Len(out) \in 1 .. Len(out) /\ r \in Responses /\ InFlight(r)
        /\ pHeaders \in Nat /\ bodySent \in Nat
    <3>1. FramedInv /\ AnswerTypeOK
      BY DEF ExchangeInv, FIInv
    <3>2. out # <<>> /\ InFlight(r) /\ pHeaders \in Nat /\ bodySent \in Nat
      BY <1>3, <2>r, <3>1 DEF FramedInv, AnswerTypeOK, Responding
    <3>3. Len(out) \in 1 .. Len(out)
      BY <1>1, <3>2
    <3>4. r \in Responses
      BY <1>1, <2>r, <3>3
    <3> QED BY <3>2, <3>3, <3>4
  <2>2. k \in Nat /\ bodySent + k <= pHeaders
    <3>1. Room(n) \in Nat /\ bodySent + Room(n) <= pHeaders
      BY <2>1, ConnAssumption DEF Room, InFlight
    <3> QED BY <2>1, <3>1
  <2>3. /\ cur = Len(out) /\ cur \in 1 .. Len(out) /\ ClosesFor(cur)
        /\ failed # "SendHeaders" /\ failed # "ParseRequest"
    BY <1>1, <1>3, <2>1 DEF ServeInv
  <2>4. Phase = "responding" /\ Taken = cur
    BY <1>3, <2>3 DEF Phase, Taken
  <2>5. Whole = out
    BY <2>1, <2>r DEF Whole, Fragment, InFlight
  <2>6. ASSUME NEW done \in BOOLEAN, NEW e, e = Grown(r, k, done),
               out' = [out EXCEPT ![Len(out)] = e], Taken' = cur
        PROVE  /\ Served!Grows /\ Len(out') = Len(out)
               /\ Served!Latest(Whole') = e /\ Served!Latest(Whole) = r
    <3>1. /\ e \in Responses /\ e.done = done /\ e.head = r.head
          /\ e.length = r.length /\ e.body = r.body + k
      BY <2>1, <2>2, <2>6, GrownOK
    <3>2. Len(out') = Len(out) /\ out'[Len(out)] = e
      BY <1>1, <2>1, <2>6, <3>1
    <3>3. Whole' = out'
      BY <2>1, <3>1, <3>2 DEF Whole, Fragment, InFlight
    <3>4. Served!Latest(Whole') = e /\ Served!Latest(Whole) = r
      BY <2>5, <2>r, <3>2, <3>3, Zenon DEF Served!Latest
    <3>5. r.body <= e.body /\ e.body <= Served!Due(r)
      BY <2>1, <2>2, <3>1 DEF InFlight, Meant, Served!Due
    <3>6. out' = [out EXCEPT ![cur].body = e.body, ![cur].done = e.done]
      <4>1. out' = [out EXCEPT ![cur] = e]
        BY <2>3, <2>6, Zenon
      <4>2. e.head = out[cur].head /\ e.length = out[cur].length
        BY <2>3, <2>r, <3>1, Zenon
      <4> QED BY <1>1, <2>3, <3>1, <4>1, <4>2, GrownLast
    <3> QED BY <1>1, <2>3, <2>4, <2>5, <2>6, <3>2, <3>3, <3>4, <3>5, <3>6, Zenon
            DEF Served!Grows
  <2>7. CASE bodySent + k >= pHeaders
    <3>e. PICK e : e = Grown(r, k, TRUE)
      OBVIOUS
    <3>1. /\ out' = [out EXCEPT ![Len(out)] = e] /\ stage' = AfterBody
      <4>1. ~(bodySent + k < pHeaders)
        BY <2>1, <2>2, <2>7
      <4> QED BY <1>3, <2>r, <3>e, <4>1, Zenon DEF BodyWritten
    <3>2. /\ e.done /\ e.body = Served!Due(r)
      <4>1. e.done = TRUE /\ e.body = r.body + k
        BY <2>1, <2>2, <3>e, GrownOK
      <4>2. r.body = bodySent /\ Served!Due(r) = pHeaders
        BY <2>1 DEF InFlight, Meant, Served!Due
      <4> QED BY <2>1, <2>2, <2>7, <4>1, <4>2
    <3>l. Len(out') = Len(out)
      <4>1. e \in Responses
        BY <2>1, <2>2, <3>e, GrownOK
      <4> QED BY <1>1, <2>1, <3>1, <4>1
    <3>3. Phase' = IF sent[cur] \in Closers THEN "closed" ELSE "waiting"
      BY <1>1, <2>3, <3>1 DEF Phase, AfterBody, ClosesFor
    <3>4. Taken' = cur
      BY <1>1, <2>3, <3>l DEF Taken
    <3>5. /\ Served!Grows /\ Served!Latest(Whole') = e /\ Served!Latest(Whole) = r
      BY <2>6, <3>1, <3>4, <3>e
    <3>6. Served!Finish
      BY <2>4, <3>2, <3>3, <3>5, Zenon DEF Served!Finish
    <3>7. ServeInv'
      BY <1>1, <2>3, <3>1, <3>l DEF ServeInv, AfterBody
    <3> QED BY <3>6, <3>7 DEF Step, Served!Next
  <2>8. CASE bodySent + k < pHeaders
    <3>e. PICK e : e = Grown(r, k, FALSE)
      OBVIOUS
    <3>1. /\ out' = [out EXCEPT ![Len(out)] = e] /\ stage' = stage
      <4>1. ~(bodySent + k >= pHeaders)
        BY <2>1, <2>2, <2>8
      <4> QED BY <1>3, <2>r, <3>e, <4>1, Zenon DEF BodyWritten
    <3>2. ~e.done
      BY <2>1, <2>2, <3>e, GrownOK
    <3>l. Len(out') = Len(out)
      <4>1. e \in Responses
        BY <2>1, <2>2, <3>e, GrownOK
      <4> QED BY <1>1, <2>1, <3>1, <4>1
    <3>3. Phase' = Phase
      BY <1>1, <3>1 DEF Phase
    <3>4. Taken' = cur
      BY <1>1, <2>4, <3>3 DEF Taken
    <3>5. /\ Served!Grows /\ Served!Latest(Whole') = e
      BY <2>6, <3>1, <3>4, <3>e
    <3>6. Served!Continue
      BY <3>2, <3>3, <3>5, Zenon DEF Served!Continue
    <3>7. ServeInv'
      BY <1>1, <1>3, <3>1, <3>l DEF ServeInv, ClosesFor
    <3> QED BY <3>6, <3>7 DEF Step, Served!Next
  <2> QED BY <2>1, <2>2, <2>7, <2>8
<1> QED BY <1>2, <1>3 DEF Send

-----------------------------------------------------------------------------
LEMMA InitExchange == Init => ExchangeInv /\ Served!Init
<1> SUFFICES ASSUME Init PROVE ExchangeInv /\ Served!Init
  OBVIOUS
<1>1. StreamInv /\ FIInv
  BY InitStreamInv, InitFIInv
<1>2. ServeInv
  BY DEF Init, ServeInv
<1>3. Phase = "waiting" /\ out = <<>> /\ sent = <<>>
  BY DEF Init, Phase
<1>4. Taken = 0 /\ Whole = <<>>
  BY <1>3 DEF Taken, Whole, Fragment
<1> QED BY <1>1, <1>2, <1>3, <1>4 DEF ExchangeInv, Served!Init

LEMMA NextExchange ==
  ASSUME Tidy, Documented, Unambiguous
  PROVE  ExchangeInv /\ [Next]_vars => ExchangeInv' /\ [Served!Next]_(Served!vars)
<1> SUFFICES ASSUME ExchangeInv, [Next]_vars
             PROVE  ExchangeInv' /\ [Served!Next]_(Served!vars)
  OBVIOUS
<1>1. StreamInv'
  BY NextStreamInv DEF ExchangeInv
<1>2. FIInv'
  <2>1. "resend" \notin Habits /\ "restyle" \notin Habits
    BY DEF Documented
  <2> QED BY <2>1, NextFIInv DEF ExchangeInv
<1>3. Step
  <2>1. CASE Client
    BY <2>1, ClientStep
  <2>2. CASE ReadRequest
    BY <2>2, ReadStep
  <2>3. CASE ParseRequest
    BY <2>3, ParseStep
  <2>4. CASE Recv
    BY <2>4, RecvStep
  <2>5. CASE \E length \in Lengths : SetHeaders(length)
    BY <2>5, SetHeadersStep
  <2>6. CASE SendHeaders
    BY <2>6, SendHeadersStep
  <2>7. CASE Send
    BY <2>7, SendStep
  <2>8. CASE UNCHANGED vars
    <3>1. UNCHANGED <<stage, failed, headers, cur, sent, out>>
      BY <2>8 DEF vars, clientVars, requestVars, answerVars
    <3>2. ServeInv' /\ Phase' = Phase
      BY <3>1 DEF ExchangeInv, ServeInv, ClosesFor, Phase
    <3> QED BY <3>1, <3>2, Quiet DEF Step
  <2> QED BY <2>1, <2>2, <2>3, <2>4, <2>5, <2>6, <2>7, <2>8 DEF Next, Server
<1> QED BY <1>1, <1>2, <1>3 DEF ExchangeInv, Step

(* The connection implements Exchange when it is used as documented: every   *)
(* response is the one to the request taken last, requests are taken in the  *)
(* order they were sent and only after the response before is complete, and  *)
(* the connection is given up after a response exactly when its request      *)
(* asked for that (the stages of mpo_httpd and the end of Send).             *)
THEOREM ImplementsExchange ==
  ASSUME Tidy, Documented, Unambiguous
  PROVE  Spec => ServesInOrder
<1>1. Init => ExchangeInv /\ Served!Init
  BY InitExchange
<1>2. ExchangeInv /\ [Next]_vars => ExchangeInv' /\ [Served!Next]_(Served!vars)
  BY NextExchange
<1> QED BY <1>1, <1>2, PTL DEF Spec, ServesInOrder, Served!Spec
=============================================================================
