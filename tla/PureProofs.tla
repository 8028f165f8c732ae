----------------------------- MODULE PureProofs ------------------------------
(***************************************************************************)
(* Proofs about the pure functions, for inputs of any length: conversions  *)
(* of numbers of any width, UTF-8, and the clock with any length of a      *)
(* second, any number of seconds kept and any width of the result.         *)
(***************************************************************************)
EXTENDS MCPure, NaturalsInduction, WellFoundedInduction, TLAPS

(* --------------------- loops, as recursive functions --------------------- *)

LEMMA LeastOf ==
  ASSUME NEW T \in SUBSET Nat, T # {} PROVE \E x \in T : \A y \in T : x <= y
<1>1. PICK x \in T : \A y \in T : ~ (<<y, x>> \in OpToRel(<, Nat))
  <2>1. IsWellFoundedOn(OpToRel(<, Nat), Nat)
    BY NatLessThanWellFounded
  <2> QED  BY <2>1, WFMin
<1>2. \A a, b \in Nat : a < b => <<a, b>> \in OpToRel(<, Nat)
  BY DEF OpToRel
<1>3. \A y \in T : ~(y < x) /\ y \in Nat /\ x \in Nat
  BY <1>1, <1>2, Zenon
<1> QED  BY <1>3

(* What holds at 0 and passes from each number to the next holds up to n.    *)
LEMMA UpTo ==
  ASSUME NEW n \in Nat, NEW Good, 0 \in Good,
         \A i \in 1 .. n : i - 1 \in Good => i \in Good
  PROVE  \A i \in 0 .. n : i \in Good
<1> DEFINE Bad == {i \in 0 .. n : i \notin Good}
<1>1. SUFFICES ASSUME Bad # {} PROVE FALSE
  OBVIOUS
<1>2. PICK x \in Bad : \A y \in Bad : x <= y
  <2>1. Bad \in SUBSET Nat  OBVIOUS
  <2> HIDE DEF Bad
  <2> QED  BY <1>1, <2>1, LeastOf
<1>3. x \in 1 .. n /\ x - 1 \in 0 .. n /\ ~(x <= x - 1)
  BY <1>2
<1>4. x - 1 \notin Bad
  <2> HIDE DEF Bad
  <2> QED  BY <1>2, <1>3
<1> QED  BY <1>2, <1>3, <1>4

(* What a loop goes through from one state to the next.                      *)
Runs(X, n, first, step) ==
  {g \in [0 .. n -> X] :
     g[0] = first /\ \A i \in 1 .. n : g[i] = step[<<i, g[i - 1]>>]}

LEMMA Loops ==
  ASSUME NEW X, NEW n \in Nat, NEW first \in X,
         NEW step \in [(1 .. n) \X X -> X]
  PROVE  Runs(X, n, first, step) # {}
<1> DEFINE Is(k, g) == /\ g[0] = first
                       /\ \A i \in 1 .. k : g[i] = step[<<i, g[i - 1]>>]
           Good == {k \in 0 .. n : \E g \in [0 .. k -> X] : Is(k, g)}
<1>1. 0 \in Good
  <2>1. [i \in 0 .. 0 |-> first] \in [0 .. 0 -> X] /\ Is(0, [i \in 0 .. 0 |-> first])
    OBVIOUS
  <2>2. \E g \in [0 .. 0 -> X] : Is(0, g)
    <3> HIDE DEF Is
    <3> QED  BY <2>1
  <2> HIDE DEF Is
  <2> QED  BY <2>2
<1>2. ASSUME NEW k \in 1 .. n, k - 1 \in Good PROVE k \in Good
  <2>1. PICK g \in [0 .. k - 1 -> X] : Is(k - 1, g)
    BY <1>2
  <2> DEFINE h == [i \in 0 .. k |-> IF i = k THEN step[<<k, g[k - 1]>>] ELSE g[i]]
  <2>2. h \in [0 .. k -> X]
    <3>1. k - 1 \in 0 .. k - 1  OBVIOUS
    <3>2. step[<<k, g[k - 1]>>] \in X  BY <3>1
    <3>3. ASSUME NEW i \in 0 .. k PROVE h[i] \in X
      <4>1. i = k \/ i \in 0 .. k - 1  OBVIOUS
      <4> QED  BY <3>2, <4>1
    <3> QED  BY <3>3
  <2>3. Is(k, h)
    <3>1. h[0] = first  BY <2>1
    <3>2. ASSUME NEW i \in 1 .. k PROVE h[i] = step[<<i, h[i - 1]>>]
      <4>1. i - 1 \in 0 .. k /\ i - 1 # k /\ i \in 0 .. k  OBVIOUS
      <4>2. h[i - 1] = g[i - 1]  BY <4>1
      <4>3. CASE i = k  BY <4>1, <4>2, <4>3
      <4>4. CASE i # k
        <5>1. i \in 1 .. k - 1 /\ h[i] = g[i]  BY <4>1, <4>4
        <5> QED  BY <2>1, <4>2, <5>1
      <4> QED  BY <4>3, <4>4
    <3> QED  BY <3>1, <3>2
  <2> HIDE DEF h, Is
  <2>4. \E e \in [0 .. k -> X] : Is(k, e)  BY <2>2, <2>3
  <2> QED  BY <2>4
<1>3. n \in Good
  <2>1. \A i \in 1 .. n : i - 1 \in Good => i \in Good  BY <1>2
  <2> HIDE DEF Good
  <2>2. \A i \in 0 .. n : i \in Good  BY <1>1, <2>1, UpTo
  <2> QED  BY <2>2
<1> QED  BY <1>3 DEF Runs

(* s begins with t.                                                          *)
Begins(s, t) == Len(t) <= Len(s) /\ \A k \in 1 .. Len(t) : s[k] = t[k]

LEMMA Joins ==
  ASSUME NEW s \in Seq(Nat), NEW t \in Seq(Nat)
  PROVE  /\ s \o t \in Seq(Nat) /\ Len(s \o t) = Len(s) + Len(t) /\ Begins(s \o t, s)
         /\ \A k \in 1 .. Len(t) : (s \o t)[Len(s) + k] = t[k]
BY DEF Begins

IsJoin(r, s, t) ==
  /\ r \in Seq(Nat) /\ Len(r) = Len(s) + Len(t)
  /\ \A k \in 1 .. Len(s) : r[k] = s[k]
  /\ \A k \in 1 .. Len(t) : r[Len(s) + k] = t[k]

LEMMA JoinIs ==
  ASSUME NEW s \in Seq(Nat), NEW t \in Seq(Nat) PROVE IsJoin(s \o t, s, t)
<1>1. s \o t \in Seq(Nat) /\ Len(s \o t) = Len(s) + Len(t)
  OBVIOUS
<1>2. \A k \in 1 .. Len(s) : (s \o t)[k] = s[k]
  OBVIOUS
<1>3. \A k \in 1 .. Len(t) : (s \o t)[Len(s) + k] = t[k]
  OBVIOUS
<1> QED  BY <1>1, <1>2, <1>3 DEF IsJoin

(* -------------------------- numbers and digits --------------------------- *)

(* The digits ds, read from the left, make the number u.                     *)
Spells(ds, u, base) ==
  /\ ds \in Seq(Nat) /\ u \in Nat
  /\ \E p \in [0 .. Len(ds) -> Nat] :
       /\ p[0] = 0 /\ p[Len(ds)] = u
       /\ \A i \in 1 .. Len(ds) :
            ds[i] \in 0 .. base - 1 /\ p[i] = p[i - 1] * base + ds[i]

(* One digit more.                                                           *)
LEMMA SpellsMore ==
  ASSUME NEW base \in {10, 16}, NEW ds, NEW u, Spells(ds, u, base),
         NEW d \in 0 .. base - 1
  PROVE  Spells(Append(ds, d), u * base + d, base)
<1>1. PICK p \in [0 .. Len(ds) -> Nat] :
        /\ p[0] = 0 /\ p[Len(ds)] = u
        /\ \A i \in 1 .. Len(ds) :
             ds[i] \in 0 .. base - 1 /\ p[i] = p[i - 1] * base + ds[i]
  BY DEF Spells
<1> DEFINE n == Len(ds)
           es == Append(ds, d)
           q == [i \in 0 .. n + 1 |-> IF i = n + 1 THEN u * base + d ELSE p[i]]
<1>2. /\ n \in Nat /\ u \in Nat /\ es \in Seq(Nat) /\ Len(es) = n + 1
      /\ u * base + d \in Nat /\ es[n + 1] = d /\ \A i \in 1 .. n : es[i] = ds[i]
  BY DEF Spells
<1> HIDE DEF es
<1>3. q \in [0 .. n + 1 -> Nat] /\ q[0] = 0 /\ q[n + 1] = u * base + d
  BY <1>1, <1>2
<1>4. ASSUME NEW i \in 1 .. n + 1
      PROVE  es[i] \in 0 .. base - 1 /\ q[i] = q[i - 1] * base + es[i]
  <2>1. CASE i = n + 1
    BY <1>1, <1>2, <2>1
  <2>2. CASE i # n + 1
    <3>1. i \in 1 .. n /\ i - 1 \in 0 .. n + 1 /\ i - 1 # n + 1
      BY <1>2, <2>2
    <3>2. q[i] = p[i] /\ q[i - 1] = p[i - 1]
      BY <2>2, <3>1
    <3> QED  BY <1>1, <1>2, <3>1, <3>2
  <2> QED  BY <2>1, <2>2
<1> HIDE DEF q, n
<1>5. Spells(es, u * base + d, base)
  BY <1>2, <1>3, <1>4 DEF Spells
<1> QED  BY <1>5 DEF es

LEMMA SpellsOne ==
  ASSUME NEW base \in {10, 16}, NEW d \in 0 .. base - 1
  PROVE  Spells(<<d>>, d, base)
<1> DEFINE p == [i \in 0 .. 1 |-> IF i = 1 THEN d ELSE 0]
<1>1. p \in [0 .. 1 -> Nat] /\ p[0] = 0 /\ p[1] = d
  OBVIOUS
<1>2. \A i \in 1 .. 1 : <<d>>[i] \in 0 .. base - 1 /\ p[i] = p[i - 1] * base + <<d>>[i]
  BY <1>1
<1>3. <<d>> \in Seq(Nat) /\ Len(<<d>>) = 1 /\ d \in Nat
  OBVIOUS
<1> HIDE DEF p
<1> QED  BY <1>1, <1>2, <1>3 DEF Spells

(* Zeros in front change nothing.                                            *)
LEMMA SpellsPadded ==
  ASSUME NEW base \in {10, 16}, NEW ds, NEW u, Spells(ds, u, base), NEW k \in Nat
  PROVE  Spells([i \in 1 .. k |-> 0] \o ds, u, base)
<1>1. PICK p \in [0 .. Len(ds) -> Nat] :
        /\ p[0] = 0 /\ p[Len(ds)] = u
        /\ \A i \in 1 .. Len(ds) :
             ds[i] \in 0 .. base - 1 /\ p[i] = p[i - 1] * base + ds[i]
  BY DEF Spells
<1> DEFINE n == Len(ds)
           es == [i \in 1 .. k |-> 0] \o ds
           q == [i \in 0 .. k + n |-> IF i <= k THEN 0 ELSE p[i - k]]
<1>2. /\ n \in Nat /\ u \in Nat /\ es \in Seq(Nat) /\ Len(es) = k + n
      /\ \A i \in 1 .. k + n : es[i] = IF i <= k THEN 0 ELSE ds[i - k]
  <2>1. ds \in Seq(Nat) /\ [i \in 1 .. k |-> 0] \in Seq(Nat)
        /\ Len([i \in 1 .. k |-> 0]) = k /\ u \in Nat
    BY DEF Spells
  <2> QED  BY <2>1
<1> HIDE DEF es
<1>3. q \in [0 .. k + n -> Nat] /\ q[0] = 0 /\ q[k + n] = u
  <2>1. ASSUME NEW i \in 0 .. k + n PROVE q[i] \in Nat
    <3>1. i <= k \/ i - k \in 0 .. n  BY <1>2
    <3> QED  BY <3>1
  <2>2. q[k + n] = u
    <3>1. CASE n = 0  BY <1>1, <1>2, <3>1
    <3>2. CASE n # 0  BY <1>1, <1>2, <3>2
    <3> QED  BY <3>1, <3>2
  <2> QED  BY <1>2, <2>1, <2>2
<1>4. ASSUME NEW i \in 1 .. k + n
      PROVE  es[i] \in 0 .. base - 1 /\ q[i] = q[i - 1] * base + es[i]
  <2>1. CASE i <= k
    BY <1>2, <2>1
  <2>2. CASE i = k + 1
    <3>1. q[i] = p[1] /\ q[i - 1] = 0 /\ es[i] = ds[1] /\ 1 \in 1 .. n
      BY <1>2, <2>2
    <3>2. p[1] = p[0] * base + ds[1] /\ ds[1] \in 0 .. base - 1
      BY <1>1, <3>1
    <3> QED  BY <1>1, <3>1, <3>2
  <2>3. CASE i > k + 1
    <3>1. i - k \in 1 .. n /\ q[i] = p[i - k] /\ q[i - 1] = p[(i - k) - 1]
          /\ es[i] = ds[i - k]
      BY <1>2, <2>3
    <3> QED  BY <1>1, <3>1
  <2> QED  BY <1>2, <2>1, <2>2, <2>3
<1> HIDE DEF q, n
<1>5. Spells(es, u, base)
  BY <1>2, <1>3, <1>4 DEF Spells
<1> QED  BY <1>5 DEF es

(* On its way the loop never sees a number greater than the whole.           *)
LEMMA Growing ==
  ASSUME NEW base \in {10, 16}, NEW n \in Nat, NEW p \in [0 .. n -> Nat], NEW ds,
         \A i \in 1 .. n : ds[i] \in 0 .. base - 1 /\ p[i] = p[i - 1] * base + ds[i]
  PROVE  \A i \in 0 .. n : p[i] <= p[n]
<1> DEFINE Good == {k \in 0 .. n : p[n - k] <= p[n]}
<1>1. 0 \in Good
  OBVIOUS
<1>2. ASSUME NEW k \in 1 .. n, k - 1 \in Good PROVE k \in Good
  <2>1. PICK i \in 1 .. n : i = n - (k - 1)
    <3>1. n - (k - 1) \in 1 .. n  OBVIOUS
    <3> QED  BY <3>1
  <2>2. n - k = i - 1 /\ i - 1 \in 0 .. n /\ i \in 0 .. n /\ p[i] <= p[n]
    BY <1>2, <2>1
  <2>3. p[i] = p[i - 1] * base + ds[i] /\ ds[i] \in Nat
    OBVIOUS
  <2>4. p[i - 1] \in Nat /\ p[i] \in Nat /\ p[n] \in Nat
    BY <2>2
  <2>5. p[i - 1] <= p[i]
    <3>1. CASE base = 10  BY <2>3, <2>4, <3>1
    <3>2. CASE base = 16  BY <2>3, <2>4, <3>2
    <3> QED  BY <3>1, <3>2
  <2>6. p[n - k] = p[i - 1]
    BY <2>2
  <2>7. p[i - 1] <= p[n]
    BY <2>2, <2>4, <2>5
  <2> QED  BY <2>6, <2>7
<1>3. \A k \in 0 .. n : k \in Good
  <2> HIDE DEF Good
  <2> QED  BY <1>1, <1>2, UpTo
<1> QED
  <2> TAKE i \in 0 .. n
  <2>1. n - i \in 0 .. n /\ n - (n - i) = i  OBVIOUS
  <2>2. n - i \in Good  BY <1>3, <2>1
  <2> QED  BY <2>1, <2>2

(* The digits that are written make the number, and there is one at least.   *)
LEMMA DigitsSpell ==
  ASSUME NEW base \in {10, 16}, NEW u \in Nat
  PROVE  Spells(Digits(u, base), u, base) /\ Len(Digits(u, base)) >= 1
<1> DEFINE Writes(f, n) ==
             f[n] = IF n < base THEN <<n>> ELSE Append(f[n \div base], n % base)
           Right(ds, n) == Spells(ds, n, base) /\ Len(ds) >= 1
           Good == {m \in 0 .. u : \E g \in [0 .. m -> Seq(Nat)] :
                      \A n \in 0 .. m : Writes(g, n) /\ Right(g[n], n)}
<1>1. ASSUME NEW n \in Nat, n >= base
      PROVE  n \div base \in 0 .. n - 1 /\ n % base \in 0 .. base - 1
             /\ (n \div base) * base + (n % base) = n
  <2>1. CASE base = 10  BY <1>1, <2>1
  <2>2. CASE base = 16  BY <1>1, <2>2
  <2> QED  BY <2>1, <2>2
<1>2. 0 \in Good
  <2> DEFINE g == [n \in 0 .. 0 |-> <<0>>]
  <2>1. g \in [0 .. 0 -> Seq(Nat)] /\ Writes(g, 0)
    OBVIOUS
  <2>2. Right(g[0], 0)
    <3>1. 0 \in 0 .. base - 1 /\ Len(<<0>>) >= 1  OBVIOUS
    <3> QED  BY <3>1, SpellsOne
  <2>3. \A n \in 0 .. 0 : Writes(g, n) /\ Right(g[n], n)
    <3> HIDE DEF g, Writes, Right
    <3> QED  BY <2>1, <2>2
  <2> HIDE DEF g, Writes, Right
  <2> QED  BY <2>1, <2>3
<1>3. ASSUME NEW m \in 1 .. u, m - 1 \in Good PROVE m \in Good
  <2>1. PICK g \in [0 .. m - 1 -> Seq(Nat)] :
          \A n \in 0 .. m - 1 : Writes(g, n) /\ Right(g[n], n)
    BY <1>3
  <2> DEFINE new == IF m < base THEN <<m>> ELSE Append(g[m \div base], m % base)
             h == [n \in 0 .. m |-> IF n = m THEN new ELSE g[n]]
  <2>2. new \in Seq(Nat) /\ Right(new, m)
    <3>1. CASE m < base
      <4>1. m \in 0 .. base - 1 /\ new = <<m>> /\ Len(<<m>>) >= 1 /\ <<m>> \in Seq(Nat)
        BY <3>1
      <4>2. Spells(<<m>>, m, base)
        BY <4>1, SpellsOne
      <4> QED  BY <4>1, <4>2
    <3>2. CASE m >= base
      <4>1. /\ m \div base \in 0 .. m - 1 /\ m % base \in 0 .. base - 1
            /\ (m \div base) * base + (m % base) = m
        BY <1>1, <3>2
      <4>2. PICK ds \in Seq(Nat) : ds = g[m \div base]
        BY <4>1
      <4>3. Spells(ds, m \div base, base) /\ Len(ds) >= 1
        BY <2>1, <4>1, <4>2
      <4>4. new = Append(ds, m % base)
        BY <3>2, <4>2
      <4>5. Spells(new, m, base)
        BY <4>1, <4>3, <4>4, SpellsMore
      <4>6. new \in Seq(Nat) /\ Len(new) >= 1
        BY <4>1, <4>2, <4>3, <4>4
      <4> QED  BY <4>5, <4>6
    <3> QED  BY <3>1, <3>2
  <2> HIDE DEF Right
  <2>3. h \in [0 .. m -> Seq(Nat)]
    BY <2>2
  <2>4. ASSUME NEW n \in 0 .. m PROVE Writes(h, n) /\ Right(h[n], n)
    <3>1. ASSUME n >= base PROVE h[n \div base] = g[n \div base]
      <4>1. n \div base \in 0 .. n - 1
        BY <1>1, <3>1
      <4> QED  BY <4>1
    <3>2. CASE n = m
      <4>1. h[n] = new /\ Right(h[n], n)
        BY <2>2, <3>2
      <4>2. CASE n < base
        BY <3>2, <4>1, <4>2
      <4>3. CASE n >= base
        <5>1. new = Append(g[n \div base], n % base)
          BY <3>2, <4>3
        <5>2. h[n \div base] = g[n \div base]
          BY <3>1, <4>3
        <5> HIDE DEF h, new
        <5> QED  BY <4>1, <4>3, <5>1, <5>2
      <4> QED  BY <4>1, <4>2, <4>3
    <3>3. CASE n # m
      <4>1. n \in 0 .. m - 1 /\ h[n] = g[n]  BY <3>3
      <4>2. Writes(g, n) /\ Right(g[n], n)  BY <2>1, <4>1
      <4>3. g[n] = IF n < base THEN <<n>> ELSE Append(g[n \div base], n % base)
        BY <4>2
      <4> HIDE DEF h
      <4>4. CASE n < base
        BY <4>1, <4>2, <4>3, <4>4
      <4>5. CASE n >= base
        BY <3>1, <4>1, <4>2, <4>3, <4>5
      <4> QED  BY <4>4, <4>5
    <3> QED  BY <3>2, <3>3
  <2> HIDE DEF h, Writes
  <2>5. \E e \in [0 .. m -> Seq(Nat)] : \A n \in 0 .. m : Writes(e, n) /\ Right(e[n], n)
    BY <2>3, <2>4
  <2>6. m \in 0 .. u
    OBVIOUS
  <2> QED  BY <2>5, <2>6, Zenon
<1>4. PICK g \in [0 .. u -> Seq(Nat)] :
        \A n \in 0 .. u : Writes(g, n) /\ Right(g[n], n)
  <2>1. \A i \in 1 .. u : i - 1 \in Good => i \in Good
    BY <1>3
  <2>2. u \in 0 .. u
    OBVIOUS
  <2>3. u \in Good
    <3> HIDE DEF Good
    <3> QED  BY <1>2, <2>1, <2>2, UpTo
  <2> QED  BY <2>3
<1> DEFINE Is(f) == f = [n \in 0 .. u |->
                          IF n < base THEN <<n>> ELSE Append(f[n \div base], n % base)]
           b == CHOOSE f : Is(f)
<1>5. Is(b)
  <2>1. Is(g)
    BY <1>4
  <2> HIDE DEF Is
  <2> QED  BY <2>1
<1>6. Digits(u, base) = b[u]
  BY DEF Digits
<1> DEFINE Same == {m \in 0 .. u : \A n \in 0 .. m : b[n] = g[n]}
<1>7. ASSUME NEW n \in 0 .. u, \A m \in 0 .. n - 1 : b[m] = g[m] PROVE b[n] = g[n]
  <2>1. b[n] = IF n < base THEN <<n>> ELSE Append(b[n \div base], n % base)
    <3> HIDE DEF b
    <3> QED  BY <1>5
  <2>2. g[n] = IF n < base THEN <<n>> ELSE Append(g[n \div base], n % base)
    BY <1>4
  <2>3. ASSUME n >= base PROVE b[n \div base] = g[n \div base]
    <3>1. n \div base \in 0 .. n - 1
      BY <1>1, <2>3
    <3> HIDE DEF b
    <3> QED  BY <1>7, <3>1
  <2> QED  BY <2>1, <2>2, <2>3
<1> HIDE DEF b
<1>8. 0 \in Same
  BY <1>7
<1>9. ASSUME NEW m \in 1 .. u, m - 1 \in Same PROVE m \in Same
  <2>1. \A n \in 0 .. m - 1 : b[n] = g[n]
    BY <1>9
  <2>2. b[m] = g[m]
    BY <1>7, <2>1
  <2>3. ASSUME NEW n \in 0 .. m PROVE b[n] = g[n]
    <3>1. n = m \/ n \in 0 .. m - 1
      OBVIOUS
    <3> QED  BY <2>1, <2>2, <3>1
  <2> QED  BY <2>3
<1>10. b[u] = g[u]
  <2>1. \A i \in 1 .. u : i - 1 \in Same => i \in Same
    BY <1>9
  <2>2. u \in 0 .. u
    OBVIOUS
  <2>3. u \in Same
    <3> HIDE DEF Same
    <3> QED  BY <1>8, <2>1, <2>2, UpTo
  <2> QED  BY <2>2, <2>3
<1>11. Right(g[u], u)
  BY <1>4
<1> QED  BY <1>6, <1>10, <1>11

(* The loop of ToUint.                                                       *)
UintState == [found : BOOLEAN, done : BOOLEAN, num : Nat]
UintStart == [found |-> FALSE, done |-> FALSE, num |-> 0]
UintStep(s, ch, base) ==
  IF s.done \/ ~(s.found \/ IsDigit(ch, base)) THEN s
  ELSE IF IsDigit(ch, base)
       THEN [s EXCEPT !.found = TRUE, !.num = Wrap(s.num * base + ch)]
       ELSE [s EXCEPT !.done = base # 16]

LEMMA UintLoop ==
  ASSUME NEW base \in {10, 16}, NEW str \in Seq(Nat)
  PROVE  \E s \in [0 .. Len(str) -> UintState] :
           /\ s[0] = UintStart
           /\ \A i \in 1 .. Len(str) : s[i] = UintStep(s[i - 1], str[i], base)
           /\ ToUint(str, base) = s[Len(str)].num
<1> DEFINE n == Len(str)
           step == [p \in (1 .. n) \X UintState |-> UintStep(p[2], str[p[1]], base)]
           Is(f) == f = [i \in 0 .. n |-> IF i = 0 THEN UintStart
                                          ELSE UintStep(f[i - 1], str[i], base)]
           b == CHOOSE f : Is(f)
<1>1. n \in Nat /\ \A i \in 1 .. n : str[i] \in Nat
  OBVIOUS
<1>2. \A s \in UintState, ch \in Nat : UintStep(s, ch, base) \in UintState
  <2>1. ASSUME NEW s \in UintState, NEW ch \in Nat
        PROVE  UintStep(s, ch, base) \in UintState
    <3>1. s.num * base + ch \in Nat
      BY DEF UintState
    <3>2. Wrap(s.num * base + ch) \in Nat
      BY <3>1, NumAssumption DEF Wrap
    <3> QED  BY <3>2 DEF UintStep, UintState
  <2> QED  BY <2>1
<1>3. step \in [(1 .. n) \X UintState -> UintState] /\ UintStart \in UintState
  BY <1>1, <1>2 DEF UintStart, UintState
<1>4. PICK g \in [0 .. n -> UintState] :
        g[0] = UintStart /\ \A i \in 1 .. n : g[i] = step[<<i, g[i - 1]>>]
  <2>1. n \in Nat
    BY <1>1
  <2> HIDE DEF n, step
  <2>2. Runs(UintState, n, UintStart, step) # {}
    BY <1>3, <2>1, Loops, Zenon
  <2> QED  BY <2>2 DEF Runs
<1>5. ASSUME NEW i \in 1 .. n PROVE g[i] = UintStep(g[i - 1], str[i], base)
  <2>1. i - 1 \in 0 .. n
    BY <1>1
  <2>2. <<i, g[i - 1]>> \in (1 .. n) \X UintState
    BY <2>1
  <2> QED  BY <1>4, <2>2
<1> HIDE DEF n, step
<1>6. Is(b)
  <2>1. Is(g)
    BY <1>1, <1>4, <1>5
  <2> HIDE DEF Is
  <2> QED  BY <2>1
<1>7. ToUint(str, base) = b[n].num
  BY DEF ToUint, UintStep, UintStart, n
<1> DEFINE Good == {i \in 0 .. n : b[i] = g[i]}
<1> HIDE DEF b
<1>8. 0 \in Good
  BY <1>1, <1>4, <1>6
<1>9. ASSUME NEW i \in 1 .. n, i - 1 \in Good PROVE i \in Good
  <2>1. b[i] = UintStep(b[i - 1], str[i], base) /\ b[i - 1] = g[i - 1]
    BY <1>1, <1>6, <1>9
  <2>2. b[i] = g[i]
    BY <1>5, <2>1
  <2> QED  BY <2>2
<1>10. n \in Good
  <2>1. \A i \in 1 .. n : i - 1 \in Good => i \in Good
    BY <1>9
  <2>2. n \in 0 .. n
    BY <1>1
  <2> HIDE DEF Good
  <2> QED  BY <1>1, <1>8, <2>1, <2>2, UpTo
<1>11. ToUint(str, base) = g[n].num
  BY <1>7, <1>10
<1> QED  BY <1>4, <1>5, <1>11 DEF n

(* ds stands in str after "from" characters.                                 *)
StandsIn(ds, str, from) ==
  /\ str \in Seq(Nat) /\ ds \in Seq(Nat) /\ from \in Nat
  /\ from + Len(ds) <= Len(str)
  /\ \A i \in 1 .. Len(ds) : str[from + i] = ds[i]

LEMMA UintStepBefore ==
  ASSUME NEW base, NEW ch, ~IsDigit(ch, base)
  PROVE  UintStep(UintStart, ch, base) = UintStart
BY DEF UintStep, UintStart

LEMMA UintStepDigit ==
  ASSUME NEW base, NEW ch, IsDigit(ch, base), NEW q, NEW f \in BOOLEAN,
         q * base + ch \in Numbers
  PROVE  UintStep([found |-> f, done |-> FALSE, num |-> q], ch, base)
           = [found |-> TRUE, done |-> FALSE, num |-> q * base + ch]
<1>1. Wrap(q * base + ch) = q * base + ch
  <2>1. \A k \in Numbers : Wrap(k) = k
    BY NumAssumption DEF Numbers, Wrap
  <2> QED  BY <2>1
<1> QED  BY <1>1 DEF UintStep

LEMMA UintStepAfter ==
  ASSUME NEW base \in {10, 16}, NEW ch, NEW q, NEW d \in BOOLEAN, d \/ ~IsDigit(ch, base)
  PROVE  UintStep([found |-> TRUE, done |-> d, num |-> q], ch, base)
           = [found |-> TRUE, done |-> (d \/ base = 10), num |-> q]
<1>1. CASE d
  BY <1>1 DEF UintStep
<1>2. CASE ~d
  <2>1. (base # 16) = (base = 10) /\ (d \/ base = 10) = (base = 10)
    BY <1>2
  <2> QED  BY <1>2, <2>1 DEF UintStep
<1> QED  BY <1>1, <1>2

(* A number that stands in a text is found, if no digit is before it and     *)
(* either no digit after it or, in base 10, something else.                  *)
LEMMA UintFound ==
  ASSUME NEW base \in {10, 16}, NEW ds, NEW u \in Numbers, Spells(ds, u, base),
         Len(ds) >= 1, NEW str, NEW from, StandsIn(ds, str, from),
         \A i \in 1 .. from : ~IsDigit(str[i], base),
         \A i \in from + Len(ds) + 1 .. Len(str) :
           ~IsDigit(str[i], base) \/ (base = 10 /\ i > from + Len(ds) + 1)
  PROVE  ToUint(str, base) = u
<1> DEFINE n == Len(ds)  m == Len(str)
<1>1. PICK p \in [0 .. n -> Nat] :
        /\ p[0] = 0 /\ p[n] = u
        /\ \A i \in 1 .. n :
             ds[i] \in 0 .. base - 1 /\ p[i] = p[i - 1] * base + ds[i]
  BY DEF Spells
<1>2. /\ n \in Nat /\ m \in Nat /\ from \in Nat /\ from + n <= m /\ n >= 1
      /\ str \in Seq(Nat) /\ \A i \in 1 .. n : str[from + i] = ds[i]
  BY DEF StandsIn
<1>3. \A i \in 0 .. n : p[i] \in Numbers
  <2>1. n \in Nat /\ p \in [0 .. n -> Nat]
        /\ \A i \in 1 .. n : ds[i] \in 0 .. base - 1 /\ p[i] = p[i - 1] * base + ds[i]
    BY <1>1, <1>2
  <2>2. \A i \in 0 .. n : p[i] <= p[n]
    <3> HIDE DEF n
    <3> QED  BY <2>1, Growing, Zenon
  <2>3. ASSUME NEW i \in 0 .. n PROVE p[i] \in Numbers
    <3>1. p[i] \in Nat /\ p[i] <= u /\ u \in 0 .. 2 * Half - 1 /\ Half \in Nat
      BY <1>1, <2>2, NumAssumption DEF Numbers
    <3> QED  BY <3>1 DEF Numbers
  <2> QED  BY <2>3
<1>4. PICK s \in [0 .. m -> UintState] :
        /\ s[0] = UintStart
        /\ \A i \in 1 .. m : s[i] = UintStep(s[i - 1], str[i], base)
        /\ ToUint(str, base) = s[m].num
  BY <1>2, UintLoop
<1>5. \A i \in from + n + 1 .. m :
        ~IsDigit(str[i], base) \/ (base = 10 /\ i > from + n + 1)
  OBVIOUS
<1> HIDE DEF n, m
<1>6. \A i \in 0 .. from : s[i] = UintStart
  <2> DEFINE Good == {i \in 0 .. from : s[i] = UintStart}
  <2>1. 0 \in Good
    BY <1>2, <1>4
  <2>2. ASSUME NEW i \in 1 .. from, i - 1 \in Good PROVE i \in Good
    <3>1. i \in 1 .. m /\ ~IsDigit(str[i], base)
      BY <1>2
    <3>2. s[i - 1] = UintStart
      BY <2>2
    <3>3. s[i] = UintStart
      BY <1>4, <3>1, <3>2, UintStepBefore
    <3> QED  BY <3>3
  <2>3. \A i \in 0 .. from : i \in Good
    <3> HIDE DEF Good
    <3> QED  BY <1>2, <2>1, <2>2, UpTo
  <2> QED  BY <2>3
<1> DEFINE At(i) == [found |-> i > 0, done |-> FALSE, num |-> p[i]]
<1>7. \A i \in 0 .. n : s[from + i] = At(i)
  <2> DEFINE Good == {i \in 0 .. n : s[from + i] = At(i)}
  <2>1. 0 \in Good
    <3>1. s[from] = UintStart /\ from + 0 = from /\ 0 \in 0 .. n
      BY <1>2, <1>6
    <3>2. UintStart = At(0)
      <4>1. (0 > 0) = FALSE /\ p[0] = 0
        BY <1>1
      <4> QED  BY <4>1 DEF UintStart
    <3> QED  BY <3>1, <3>2
  <2>2. ASSUME NEW i \in 1 .. n, i - 1 \in Good PROVE i \in Good
    <3>1. s[from + (i - 1)] = At(i - 1)
      BY <2>2
    <3>2. /\ from + i \in 1 .. m /\ (from + i) - 1 = from + (i - 1)
          /\ str[from + i] = ds[i]
      <4>1. i \in 1 .. n /\ i \in Int
        OBVIOUS
      <4>2. str[from + i] = ds[i]
        BY <1>2
      <4>3. from + i \in 1 .. m /\ (from + i) - 1 = from + (i - 1)
        BY ONLY <1>2, <4>1
      <4> QED  BY <4>2, <4>3
    <3>3. ds[i] \in 0 .. base - 1 /\ p[i] = p[i - 1] * base + ds[i] /\ p[i] \in Numbers
      BY <1>1, <1>2, <1>3
    <3>4. IsDigit(ds[i], base)
      BY <3>3 DEF IsDigit
    <3>5. UintStep(At(i - 1), ds[i], base)
            = [found |-> TRUE, done |-> FALSE, num |-> p[i]]
      <4>1. (i - 1 > 0) \in BOOLEAN
        OBVIOUS
      <4> QED  BY <3>3, <3>4, <4>1, UintStepDigit
    <3>6. s[from + i] = UintStep(At(i - 1), ds[i], base)
      <4> HIDE DEF At
      <4> QED  BY <1>4, <3>1, <3>2
    <3>7. (i > 0) = TRUE /\ i \in 0 .. n
      BY <1>2
    <3>8. s[from + i] = At(i)
      BY <3>5, <3>6, <3>7
    <3> QED  BY <3>7, <3>8
  <2>3. \A i \in 0 .. n : i \in Good
    <3> HIDE DEF Good
    <3> QED  BY <1>2, <2>1, <2>2, UpTo
  <2> QED  BY <2>3
<1> DEFINE After(k) == [found |-> TRUE, done |-> (k > 0 /\ base = 10), num |-> u]
           l == m - (from + n)
<1>8. l \in Nat /\ from + n + l = m
  BY <1>2
<1>9. \A k \in 0 .. l : s[from + n + k] = After(k)
  <2> DEFINE Good == {k \in 0 .. l : s[from + n + k] = After(k)}
  <2>1. 0 \in Good
    <3>1. s[from + n] = At(n) /\ from + n + 0 = from + n
      BY <1>2, <1>7
    <3>2. At(n) = After(0)
      <4>1. (n > 0) = TRUE /\ (0 > 0 /\ base = 10) = FALSE /\ p[n] = u
        BY <1>1, <1>2
      <4> QED  BY <4>1
    <3> QED  BY <1>8, <3>1, <3>2
  <2>2. ASSUME NEW k \in 1 .. l, k - 1 \in Good PROVE k \in Good
    <3>1. s[from + n + (k - 1)] = After(k - 1)
      BY <2>2
    <3>2. PICK i \in from + n + 1 .. m :
            i = from + n + k /\ i - 1 = from + n + (k - 1) /\ i \in 1 .. m
      <4>1. /\ from + n + k \in from + n + 1 .. m /\ from + n + k \in 1 .. m
            /\ (from + n + k) - 1 = from + n + (k - 1)
        BY <1>2
      <4> QED  BY <4>1
    <3>3. s[i] = UintStep(After(k - 1), str[i], base)
      <4> HIDE DEF After
      <4> QED  BY <1>4, <3>1, <3>2
    <3>4. (k - 1 > 0 /\ base = 10) \/ ~IsDigit(str[i], base)
      BY <1>2, <1>5, <3>2
    <3>5. UintStep(After(k - 1), str[i], base)
            = [found |-> TRUE, done |-> ((k - 1 > 0 /\ base = 10) \/ base = 10), num |-> u]
      <4> DEFINE d == k - 1 > 0 /\ base = 10
      <4>1. d \in BOOLEAN /\ (d \/ ~IsDigit(str[i], base))
        BY <3>4
      <4>2. After(k - 1) = [found |-> TRUE, done |-> d, num |-> u]
        OBVIOUS
      <4> HIDE DEF d, After
      <4>3. UintStep(After(k - 1), str[i], base)
              = [found |-> TRUE, done |-> (d \/ base = 10), num |-> u]
        BY <4>1, <4>2, UintStepAfter
      <4> QED  BY <4>3 DEF d
    <3>6. ((k - 1 > 0 /\ base = 10) \/ base = 10) = (k > 0 /\ base = 10)
      OBVIOUS
    <3>7. s[from + n + k] = After(k)
      BY <3>2, <3>3, <3>5, <3>6
    <3> QED  BY <3>7
  <2>3. \A k \in 0 .. l : k \in Good
    <3> HIDE DEF Good, l
    <3> QED  BY <1>8, <2>1, <2>2, UpTo
  <2> QED  BY <2>3
<1>10. s[m] = After(l)
  <2>1. l \in 0 .. l
    BY <1>8
  <2> QED  BY <1>8, <1>9, <2>1
<1> QED  BY <1>4, <1>10

(* The loop of ToInt32.                                                      *)
IntState == [found : BOOLEAN, done : BOOLEAN, sign : {-1, 1}, num : Nat]
IntStart == [found |-> FALSE, done |-> FALSE, sign |-> 1, num |-> 0]
IntStep(s, ch) ==
  IF s.done THEN s
  ELSE IF ch <= 9 THEN [s EXCEPT !.found = TRUE, !.num = Wrap(s.num * 10 + ch)]
  ELSE IF s.found THEN [s EXCEPT !.done = TRUE]
  ELSE [s EXCEPT !.sign = IF ch = Minus THEN -1 ELSE s.sign]

LEMMA IntLoop ==
  ASSUME NEW str \in Seq(Nat)
  PROVE  \E s \in [0 .. Len(str) -> IntState] :
           /\ s[0] = IntStart
           /\ \A i \in 1 .. Len(str) : s[i] = IntStep(s[i - 1], str[i])
           /\ ToInt32(str) = Signed(Wrap(s[Len(str)].num * s[Len(str)].sign))
<1> DEFINE n == Len(str)
           step == [p \in (1 .. n) \X IntState |-> IntStep(p[2], str[p[1]])]
           Is(f) == f = [i \in 0 .. n |-> IF i = 0 THEN IntStart
                                          ELSE IntStep(f[i - 1], str[i])]
           b == CHOOSE f : Is(f)
<1>1. n \in Nat /\ \A i \in 1 .. n : str[i] \in Nat
  OBVIOUS
<1>2. \A s \in IntState, ch \in Nat : IntStep(s, ch) \in IntState
  <2>1. ASSUME NEW s \in IntState, NEW ch \in Nat
        PROVE  IntStep(s, ch) \in IntState
    <3>1. s.num * 10 + ch \in Nat
      BY DEF IntState
    <3>2. Wrap(s.num * 10 + ch) \in Nat
      BY <3>1, NumAssumption DEF Wrap
    <3> QED  BY <3>2 DEF IntStep, IntState
  <2> QED  BY <2>1
<1>3. step \in [(1 .. n) \X IntState -> IntState] /\ IntStart \in IntState
  BY <1>1, <1>2 DEF IntStart, IntState
<1>4. PICK g \in [0 .. n -> IntState] :
        g[0] = IntStart /\ \A i \in 1 .. n : g[i] = step[<<i, g[i - 1]>>]
  <2>1. n \in Nat
    BY <1>1
  <2> HIDE DEF n, step
  <2>2. Runs(IntState, n, IntStart, step) # {}
    BY <1>3, <2>1, Loops, Zenon
  <2> QED  BY <2>2 DEF Runs
<1>5. ASSUME NEW i \in 1 .. n PROVE g[i] = IntStep(g[i - 1], str[i])
  <2>1. i - 1 \in 0 .. n
    BY <1>1
  <2>2. <<i, g[i - 1]>> \in (1 .. n) \X IntState
    BY <2>1
  <2> QED  BY <1>4, <2>2
<1> HIDE DEF n, step
<1>6. Is(b)
  <2>1. Is(g)
    BY <1>1, <1>4, <1>5
  <2> HIDE DEF Is
  <2> QED  BY <2>1
<1>7. ToInt32(str) = Signed(Wrap(b[n].num * b[n].sign))
  BY DEF ToInt32, IntStep, IntStart, n
<1> DEFINE Good == {i \in 0 .. n : b[i] = g[i]}
<1> HIDE DEF b
<1>8. 0 \in Good
  BY <1>1, <1>4, <1>6
<1>9. ASSUME NEW i \in 1 .. n, i - 1 \in Good PROVE i \in Good
  <2>1. b[i] = IntStep(b[i - 1], str[i]) /\ b[i - 1] = g[i - 1]
    BY <1>1, <1>6, <1>9
  <2>2. b[i] = g[i]
    BY <1>5, <2>1
  <2> QED  BY <2>2
<1>10. n \in Good
  <2>1. \A i \in 1 .. n : i - 1 \in Good => i \in Good
    BY <1>9
  <2>2. n \in 0 .. n
    BY <1>1
  <2> HIDE DEF Good
  <2> QED  BY <1>1, <1>8, <2>1, <2>2, UpTo
<1>11. ToInt32(str) = Signed(Wrap(g[n].num * g[n].sign))
  BY <1>7, <1>10
<1> QED  BY <1>4, <1>5, <1>11 DEF n

LEMMA IntStepBefore ==
  ASSUME NEW ch, ~(ch <= 9), NEW g
  PROVE  IntStep([found |-> FALSE, done |-> FALSE, sign |-> g, num |-> 0], ch)
           = [found |-> FALSE, done |-> FALSE,
              sign |-> IF ch = Minus THEN -1 ELSE g, num |-> 0]
BY DEF IntStep

LEMMA IntStepAfter ==
  ASSUME NEW ch, NEW q, NEW g, NEW d \in BOOLEAN, d \/ ~(ch <= 9)
  PROVE  IntStep([found |-> TRUE, done |-> d, sign |-> g, num |-> q], ch)
           = [found |-> TRUE, done |-> TRUE, sign |-> g, num |-> q]
<1>1. CASE d
  BY <1>1 DEF IntStep
<1>2. CASE ~d
  BY <1>2 DEF IntStep
<1> QED  BY <1>1, <1>2

LEMMA IntStepDigit ==
  ASSUME NEW ch, ch <= 9, NEW q, NEW f \in BOOLEAN, NEW g, q * 10 + ch \in Numbers
  PROVE  IntStep([found |-> f, done |-> FALSE, sign |-> g, num |-> q], ch)
           = [found |-> TRUE, done |-> FALSE, sign |-> g, num |-> q * 10 + ch]
<1>1. Wrap(q * 10 + ch) = q * 10 + ch
  <2>1. \A k \in Numbers : Wrap(k) = k
    BY NumAssumption DEF Numbers, Wrap
  <2> QED  BY <2>1
<1> QED  BY <1>1 DEF IntStep

(* A number that stands in a text is found, if no digit is before it and     *)
(* none directly after it; it is negative if a minus is before it.           *)
SignIn(str, from) == IF \E i \in 1 .. from : str[i] = Minus THEN -1 ELSE 1

LEMMA IntFound ==
  ASSUME NEW ds, NEW u \in Numbers, Spells(ds, u, 10),
         Len(ds) >= 1, NEW str, NEW from, StandsIn(ds, str, from),
         \A i \in 1 .. from : ~(str[i] <= 9),
         Len(str) > from + Len(ds) => ~(str[from + Len(ds) + 1] <= 9)
  PROVE  ToInt32(str) = Signed(Wrap(u * SignIn(str, from)))
<1> DEFINE n == Len(ds)  m == Len(str)
<1>1. PICK p \in [0 .. n -> Nat] :
        /\ p[0] = 0 /\ p[n] = u
        /\ \A i \in 1 .. n :
             ds[i] \in 0 .. 10 - 1 /\ p[i] = p[i - 1] * 10 + ds[i]
  BY DEF Spells
<1>2. /\ n \in Nat /\ m \in Nat /\ from \in Nat /\ from + n <= m /\ n >= 1
      /\ str \in Seq(Nat) /\ \A i \in 1 .. n : str[from + i] = ds[i]
  BY DEF StandsIn
<1>3. \A i \in 0 .. n : p[i] \in Numbers
  <2>1. n \in Nat /\ p \in [0 .. n -> Nat] /\ 10 \in {10, 16}
        /\ \A i \in 1 .. n : ds[i] \in 0 .. 10 - 1 /\ p[i] = p[i - 1] * 10 + ds[i]
    BY <1>1, <1>2
  <2>2. \A i \in 0 .. n : p[i] <= p[n]
    <3> HIDE DEF n
    <3> QED  BY <2>1, Growing, Zenon
  <2>3. ASSUME NEW i \in 0 .. n PROVE p[i] \in Numbers
    <3>1. p[i] \in Nat /\ p[i] <= u /\ u \in 0 .. 2 * Half - 1 /\ Half \in Nat
      BY <1>1, <2>2, NumAssumption DEF Numbers
    <3> QED  BY <3>1 DEF Numbers
  <2> QED  BY <2>3
<1>4. PICK s \in [0 .. m -> IntState] :
        /\ s[0] = IntStart
        /\ \A i \in 1 .. m : s[i] = IntStep(s[i - 1], str[i])
        /\ ToInt32(str) = Signed(Wrap(s[m].num * s[m].sign))
  BY <1>2, IntLoop
<1>5. m > from + n => ~(str[from + n + 1] <= 9)
  OBVIOUS
<1> HIDE DEF n, m
<1> DEFINE Sign(i) == IF \E j \in 1 .. i : str[j] = Minus THEN -1 ELSE 1
           Before(i) == [found |-> FALSE, done |-> FALSE, sign |-> Sign(i), num |-> 0]
<1>6. \A i \in 0 .. from : s[i] = Before(i)
  <2> DEFINE Good == {i \in 0 .. from : s[i] = Before(i)}
  <2>1. 0 \in Good
    <3>1. Sign(0) = 1
      OBVIOUS
    <3> HIDE DEF Sign
    <3> QED  BY <1>2, <1>4, <3>1 DEF IntStart
  <2>2. ASSUME NEW i \in 1 .. from, i - 1 \in Good PROVE i \in Good
    <3>1. i \in 1 .. m /\ ~(str[i] <= 9)
      BY <1>2
    <3>2. s[i - 1] = Before(i - 1)
      BY <2>2
    <3>3. Sign(i) = IF str[i] = Minus THEN -1 ELSE Sign(i - 1)
      <4>1. \A j : j \in 1 .. i <=> j \in 1 .. i - 1 \/ j = i
        OBVIOUS
      <4> QED  BY <4>1
    <3> HIDE DEF Sign
    <3>4. s[i] = IntStep(Before(i - 1), str[i])
      <4> HIDE DEF Before
      <4> QED  BY <1>4, <3>1, <3>2
    <3>5. IntStep(Before(i - 1), str[i]) = Before(i)
      BY <3>1, <3>3, IntStepBefore
    <3> QED  BY <3>4, <3>5
  <2>3. \A i \in 0 .. from : i \in Good
    <3> HIDE DEF Good
    <3> QED  BY <1>2, <2>1, <2>2, UpTo
  <2> QED  BY <2>3
<1> DEFINE sg == Sign(from)
<1> HIDE DEF Sign
<1> DEFINE At(i) == [found |-> i > 0, done |-> FALSE, sign |-> sg, num |-> p[i]]
<1>7. \A i \in 0 .. n : s[from + i] = At(i)
  <2> DEFINE Good == {i \in 0 .. n : s[from + i] = At(i)}
  <2>1. 0 \in Good
    <3>1. s[from] = Before(from) /\ from + 0 = from /\ 0 \in 0 .. n
      BY <1>2, <1>6
    <3>2. Before(from) = At(0)
      <4>1. (0 > 0) = FALSE /\ p[0] = 0
        BY <1>1
      <4> QED  BY <4>1
    <3> QED  BY <3>1, <3>2
  <2>2. ASSUME NEW i \in 1 .. n, i - 1 \in Good PROVE i \in Good
    <3>1. s[from + (i - 1)] = At(i - 1)
      BY <2>2
    <3>2. /\ from + i \in 1 .. m /\ (from + i) - 1 = from + (i - 1)
          /\ str[from + i] = ds[i]
      <4>1. i \in 1 .. n /\ i \in Int
        OBVIOUS
      <4>2. str[from + i] = ds[i]
        BY <1>2
      <4>3. from + i \in 1 .. m /\ (from + i) - 1 = from + (i - 1)
        BY ONLY <1>2, <4>1
      <4> QED  BY <4>2, <4>3
    <3>3. ds[i] \in 0 .. 10 - 1 /\ p[i] = p[i - 1] * 10 + ds[i] /\ p[i] \in Numbers
      BY <1>1, <1>2, <1>3
    <3>5. IntStep(At(i - 1), ds[i])
            = [found |-> TRUE, done |-> FALSE, sign |-> sg, num |-> p[i]]
      <4> DEFINE f == i - 1 > 0
                 q == p[i - 1]
      <4>1. f \in BOOLEAN
        OBVIOUS
      <4>2. ds[i] <= 9
        BY <3>3
      <4>3. q * 10 + ds[i] \in Numbers /\ q * 10 + ds[i] = p[i]
        BY <3>3
      <4>4. At(i - 1) = [found |-> f, done |-> FALSE, sign |-> sg, num |-> q]
        OBVIOUS
      <4> HIDE DEF f, At, sg, q
      <4>5. IntStep(At(i - 1), ds[i])
              = [found |-> TRUE, done |-> FALSE, sign |-> sg, num |-> q * 10 + ds[i]]
        BY <4>1, <4>2, <4>3, <4>4, IntStepDigit
      <4> QED  BY <4>3, <4>5
    <3>6. s[from + i] = IntStep(At(i - 1), ds[i])
      <4> HIDE DEF At
      <4> QED  BY <1>4, <3>1, <3>2
    <3>7. (i > 0) = TRUE /\ i \in 0 .. n
      BY <1>2
    <3>8. s[from + i] = At(i)
      BY <3>5, <3>6, <3>7
    <3> QED  BY <3>7, <3>8
  <2>3. \A i \in 0 .. n : i \in Good
    <3> HIDE DEF Good
    <3> QED  BY <1>2, <2>1, <2>2, UpTo
  <2> QED  BY <2>3
<1> DEFINE After(k) == [found |-> TRUE, done |-> k > 0, sign |-> sg, num |-> u]
           l == m - (from + n)
<1>8. l \in Nat /\ from + n + l = m
  BY <1>2
<1>9. \A k \in 0 .. l : s[from + n + k] = After(k)
  <2> DEFINE Good == {k \in 0 .. l : s[from + n + k] = After(k)}
  <2>1. 0 \in Good
    <3>1. s[from + n] = At(n) /\ from + n + 0 = from + n
      BY <1>2, <1>7
    <3>2. At(n) = After(0)
      <4>1. (n > 0) = TRUE /\ (0 > 0) = FALSE /\ p[n] = u
        BY <1>1, <1>2
      <4> QED  BY <4>1
    <3> QED  BY <1>8, <3>1, <3>2
  <2>2. ASSUME NEW k \in 1 .. l, k - 1 \in Good PROVE k \in Good
    <3>1. s[from + n + (k - 1)] = After(k - 1)
      BY <2>2
    <3>2. PICK i \in from + n + 1 .. m :
            i = from + n + k /\ i - 1 = from + n + (k - 1) /\ i \in 1 .. m
      <4>1. /\ from + n + k \in from + n + 1 .. m /\ from + n + k \in 1 .. m
            /\ (from + n + k) - 1 = from + n + (k - 1)
        BY <1>2
      <4> QED  BY <4>1
    <3>3. s[i] = IntStep(After(k - 1), str[i])
      <4> HIDE DEF After
      <4> QED  BY <1>4, <3>1, <3>2
    <3>4. k - 1 > 0 \/ ~(str[i] <= 9)
      <4>1. k - 1 > 0 \/ (i = from + n + 1 /\ m > from + n)
        BY <1>2, <3>2
      <4> QED  BY <1>5, <4>1, Zenon
    <3>5. IntStep(After(k - 1), str[i]) = After(k)
      <4> DEFINE d == k - 1 > 0
      <4>1. d \in BOOLEAN /\ (d \/ ~(str[i] <= 9))
        BY <3>4
      <4>2. After(k - 1) = [found |-> TRUE, done |-> d, sign |-> sg, num |-> u]
        OBVIOUS
      <4>3. After(k) = [found |-> TRUE, done |-> TRUE, sign |-> sg, num |-> u]
        <5>1. (k > 0) = TRUE
          OBVIOUS
        <5> QED  BY <5>1
      <4> HIDE DEF d, After, sg
      <4> QED  BY <4>1, <4>2, <4>3, IntStepAfter
    <3>6. s[from + n + k] = After(k)
      BY <3>2, <3>3, <3>5
    <3> QED  BY <3>6
  <2>3. \A k \in 0 .. l : k \in Good
    <3> HIDE DEF Good, l
    <3> QED  BY <1>8, <2>1, <2>2, UpTo
  <2> QED  BY <2>3
<1>10. s[m] = After(l)
  <2>1. l \in 0 .. l
    BY <1>8
  <2> QED  BY <1>8, <1>9, <2>1
<1>11. s[m].num = u /\ s[m].sign = sg
  BY <1>10
<1> QED  BY <1>4, <1>11 DEF Sign, SignIn

(* What UToStr and IToStr write: a sign if there is one, then digits.        *)
Written(str, u, base, min, neg) ==
  LET at == IF neg THEN 1 ELSE 0
  IN \E ds : /\ Spells(ds, u, base) /\ Len(ds) >= 1 /\ Len(ds) >= min
             /\ StandsIn(ds, str, at) /\ Len(str) = at + Len(ds)
             /\ neg => str[1] = Minus

LEMMA PaddedSpells ==
  ASSUME NEW base \in {10, 16}, NEW u \in Nat, NEW min \in Nat, NEW neg \in BOOLEAN
  PROVE  Written(Padded(Digits(u, base), min, neg), u, base, min, neg)
<1>1. PICK d : d = Digits(u, base)
  OBVIOUS
<1>2. Spells(d, u, base) /\ Len(d) >= 1 /\ d \in Seq(Nat) /\ Len(d) \in Nat
  <2>1. Spells(d, u, base) /\ Len(d) >= 1
    BY <1>1, DigitsSpell
  <2>2. d \in Seq(Nat)
    BY <2>1, Zenon DEF Spells
  <2> QED  BY <2>1, <2>2
<1>3. PICK k \in Nat : k = IF min > Len(d) THEN min - Len(d) ELSE 0
  <2>1. (IF min > Len(d) THEN min - Len(d) ELSE 0) \in Nat
    BY <1>2
  <2> QED  BY <2>1
<1> DEFINE zs == [i \in 1 .. k |-> 0]
           ds == zs \o d
           sign == IF neg THEN <<Minus>> ELSE <<>>
           str == Padded(d, min, neg)
           at == IF neg THEN 1 ELSE 0
<1>4. str = (sign \o zs) \o d
  BY <1>3 DEF Padded
<1>5. zs \in Seq(Nat) /\ Len(zs) = k
  OBVIOUS
<1>6. sign \in Seq(Nat) /\ Len(sign) = at /\ (neg => sign[1] = Minus) /\ at \in Nat
  BY DEF Minus
<1>7. Spells(ds, u, base)
  BY <1>2, SpellsPadded
<1> HIDE DEF zs, sign, at, str
<1> DEFINE head == sign \o zs
<1>8. ds \in Seq(Nat) /\ Len(ds) = k + Len(d) /\ Len(ds) >= 1 /\ Len(ds) >= min
  <2>1. ds \in Seq(Nat) /\ Len(ds) = k + Len(d)
    BY <1>2, <1>5, Joins
  <2> QED  BY <1>2, <1>3, <2>1
<1>9. /\ \A i \in 1 .. k : ds[i] = zs[i]
      /\ \A i \in 1 .. Len(d) : ds[k + i] = d[i]
  BY <1>2, <1>5, Joins DEF Begins
<1>10. /\ head \in Seq(Nat) /\ Len(head) = at + k
       /\ \A i \in 1 .. at : head[i] = sign[i]
       /\ \A i \in 1 .. k : head[at + i] = zs[i]
  BY <1>5, <1>6, Joins DEF Begins
<1> HIDE DEF head, ds
<1>11. /\ str \in Seq(Nat) /\ Len(str) = at + Len(ds)
       /\ \A i \in 1 .. at + k : str[i] = head[i]
       /\ \A i \in 1 .. Len(d) : str[(at + k) + i] = d[i]
  <2>1. IsJoin(str, head, d)
    <3>1. str = head \o d
      BY <1>4 DEF head
    <3>2. IsJoin(head \o d, head, d)
      BY <1>2, <1>10, JoinIs, Zenon
    <3> QED  BY <3>1, <3>2
  <2>2. /\ str \in Seq(Nat) /\ Len(str) = (at + k) + Len(d)
        /\ \A i \in 1 .. at + k : str[i] = head[i]
        /\ \A i \in 1 .. Len(d) : str[(at + k) + i] = d[i]
    BY <1>10, <2>1, Zenon DEF IsJoin
  <2>3. (at + k) + Len(d) = at + Len(ds)
    BY <1>2, <1>6, <1>8
  <2> QED  BY <2>2, <2>3
<1>15. ASSUME NEW i \in 1 .. Len(ds) PROVE str[at + i] = ds[i]
  <2>1. CASE i <= k
    <3>1. i \in 1 .. k /\ at + i \in 1 .. at + k
      BY <1>6, <2>1
    <3> QED  BY <1>9, <1>10, <1>11, <3>1
  <2>2. CASE i > k
    <3>1. PICK j \in 1 .. Len(d) : i = k + j /\ at + i = (at + k) + j
      <4>1. i - k \in 1 .. Len(d) /\ i = k + (i - k) /\ at + i = (at + k) + (i - k)
        BY <1>2, <1>6, <1>8, <2>2
      <4> QED  BY <4>1
    <3> QED  BY <1>9, <1>11, <3>1
  <2> QED  BY <1>8, <2>1, <2>2
<1>16. neg => str[1] = Minus
  <2>1. ASSUME neg PROVE 1 \in 1 .. at /\ 1 \in 1 .. at + k
    BY <2>1 DEF at
  <2> QED  BY <1>6, <1>10, <1>11, <2>1
<1>12. StandsIn(ds, str, at)
  <2>1. at + Len(ds) <= Len(str)
    BY <1>6, <1>8, <1>11
  <2> QED  BY <1>6, <1>8, <1>11, <1>15, <2>1 DEF StandsIn
<1>13. /\ Spells(ds, u, base) /\ Len(ds) >= 1 /\ Len(ds) >= min
       /\ StandsIn(ds, str, at) /\ Len(str) = at + Len(ds) /\ (neg => str[1] = Minus)
  <2>1. Spells(ds, u, base)
    BY <1>7 DEF ds
  <2> QED  BY <1>8, <1>11, <1>12, <1>16, <2>1
<1>14. str = Padded(Digits(u, base), min, neg) /\ at = (IF neg THEN 1 ELSE 0)
  BY <1>1 DEF str, at
<1> QED  BY <1>13, <1>14, Zenon DEF Written

(* The same with other text on both sides of it.                             *)
IsFramed(all, front, str, back) ==
  /\ Len(all) = 1 + Len(str) + Len(back)
  /\ all[1] = front /\ \A i \in 1 .. Len(str) : all[i + 1] = str[i]
  /\ \A i \in 1 .. Len(back) : all[1 + Len(str) + i] = back[i]

LEMMA Framed ==
  ASSUME NEW ds, NEW str, NEW at, StandsIn(ds, str, at), Len(str) = at + Len(ds),
         NEW front \in Nat, NEW back \in Seq(Nat)
  PROVE  /\ StandsIn(ds, <<front>> \o str \o back, at + 1)
         /\ IsFramed(<<front>> \o str \o back, front, str, back)
<1> DEFINE one == <<front>>
           head == one \o str
           all == head \o back
<1>1. /\ str \in Seq(Nat) /\ ds \in Seq(Nat) /\ at \in Nat
      /\ \A i \in 1 .. Len(ds) : str[at + i] = ds[i]
  BY DEF StandsIn
<1>2. one \in Seq(Nat) /\ Len(one) = 1 /\ one[1] = front
  OBVIOUS
<1> HIDE DEF one
<1>3. IsJoin(head, one, str)
  BY <1>1, <1>2, JoinIs, Zenon
<1> HIDE DEF head
<1>4. head \in Seq(Nat)
  BY <1>3 DEF IsJoin
<1>5. IsJoin(all, head, back)
  BY <1>4, JoinIs, Zenon
<1> HIDE DEF all
<1>6. PICK n \in Nat, l \in Nat, k \in Nat : n = Len(str) /\ l = Len(ds) /\ k = Len(back)
  BY <1>1
<1>7. /\ Len(head) = 1 + n /\ head[1] = front
      /\ \A i \in 1 .. n : head[1 + i] = str[i]
  <2>1. 1 \in 1 .. 1
    OBVIOUS
  <2> QED  BY <1>2, <1>3, <1>6, <2>1, Zenon DEF IsJoin
<1>8. /\ all \in Seq(Nat) /\ Len(all) = 1 + n + k
      /\ \A i \in 1 .. 1 + n : all[i] = head[i]
      /\ \A i \in 1 .. k : all[1 + n + i] = back[i]
  BY <1>5, <1>6, <1>7, Zenon DEF IsJoin
<1>9. all[1] = front
  BY <1>7, <1>8
<1>10. \A i \in 1 .. n : all[i + 1] = str[i]
  <2>1. \A i \in 1 .. n : i + 1 \in 1 .. 1 + n /\ i + 1 = 1 + i
    OBVIOUS
  <2> QED  BY <1>7, <1>8, <2>1
<1>11. ASSUME NEW i \in 1 .. l PROVE all[(at + 1) + i] = ds[i]
  <2>1. at + i \in 1 .. n /\ (at + 1) + i = (at + i) + 1
    BY <1>1, <1>6
  <2> QED  BY <1>1, <1>6, <1>10, <2>1
<1>12. StandsIn(ds, all, at + 1)
  BY <1>1, <1>6, <1>8, <1>11 DEF StandsIn
<1>13. IsFramed(all, front, str, back)
  BY <1>6, <1>8, <1>9, <1>10, Zenon DEF IsFramed
<1> QED  BY <1>12, <1>13 DEF all, head, one

(* The magnitude of a number, and what its sign makes of it again.           *)
Magnitude(num) == IF num >= 0 THEN num ELSE Wrap(-num)

LEMMA SignedAgain ==
  ASSUME NEW u \in Numbers
  PROVE  /\ Signed(u) \in Int /\ Magnitude(Signed(u)) \in Numbers
         /\ Magnitude(Signed(u)) \in Nat
         /\ Signed(Wrap(Magnitude(Signed(u)) * IF Signed(u) < 0 THEN -1 ELSE 1))
              = Signed(u)
<1>1. PICK h \in Nat : h = Half /\ h >= 1 /\ u \in 0 .. 2 * h - 1
  BY NumAssumption DEF Numbers
<1>2. \A k \in 0 .. 2 * h - 1 : Wrap(k) = k
  BY <1>1 DEF Wrap
<1>3. CASE u >= h
  <2>1. Signed(u) = u - 2 * h /\ Signed(u) < 0 /\ -Signed(u) = 2 * h - u
    BY <1>1, <1>3 DEF Signed
  <2>2. Wrap(2 * h - u) = 2 * h - u
    BY <1>1, <1>2, <1>3
  <2>3. Magnitude(Signed(u)) = 2 * h - u
    BY <1>1, <2>1, <2>2 DEF Magnitude
  <2>4. Wrap((2 * h - u) * (-1)) = u
    <3>1. (2 * h - u) * (-1) = u - 2 * h /\ (u - 2 * h) % (2 * h) = u
      BY <1>1, <1>3
    <3> QED  BY <1>1, <3>1 DEF Wrap
  <2> QED  BY <1>1, <1>3, <2>1, <2>3, <2>4 DEF Numbers
<1>4. CASE u < h
  <2>1. Signed(u) = u /\ ~(Signed(u) < 0) /\ u * 1 = u /\ Magnitude(u) = u
    BY <1>1, <1>4 DEF Signed, Magnitude
  <2>2. Wrap(u) = u
    BY <1>1, <1>2
  <2> QED  BY <1>1, <2>1, <2>2 DEF Numbers
<1> QED  BY <1>1, <1>3, <1>4

LEMMA DigitsOnly ==
  ASSUME NEW base \in {10, 16}, NEW ds, NEW u, Spells(ds, u, base)
  PROVE  ds \in Seq(Nat) /\ \A i \in 1 .. Len(ds) : ds[i] \in 0 .. base - 1
BY DEF Spells

LEMMA IntRoundTrip ==
  ASSUME NEW u \in Numbers, NEW min \in Nat
  PROVE  LET num == Signed(u)
             str == IToStr(num, 10, min)
         IN /\ ToInt32(str) = num
            /\ ToInt32(<<Other>> \o str \o <<Other, 1>>) = num
            /\ \A i \in 1 .. Len(str) : str[i] = Minus => i = 1
            /\ num < 0 => Len(str) >= min + 1
<1>1. PICK num : num = Signed(u)
  OBVIOUS
<1>2. /\ num \in Int /\ Magnitude(num) \in Numbers /\ Magnitude(num) \in Nat
      /\ Signed(Wrap(Magnitude(num) * IF num < 0 THEN -1 ELSE 1)) = num
  BY <1>1, SignedAgain
<1>3. PICK neg \in BOOLEAN, mag \in Numbers : neg = (num < 0) /\ mag = Magnitude(num)
  <2>1. (num < 0) \in BOOLEAN
    OBVIOUS
  <2> QED  BY <1>2, <2>1, Zenon
<1>4. PICK at \in {0, 1} : at = IF neg THEN 1 ELSE 0
  OBVIOUS
<1>5. PICK str : str = IToStr(num, 10, min)
  OBVIOUS
<1>6. str = Padded(Digits(mag, 10), min, neg)
  BY <1>3, <1>5 DEF IToStr, Magnitude
<1>7. PICK ds : /\ Spells(ds, mag, 10) /\ Len(ds) >= 1 /\ Len(ds) >= min
                /\ StandsIn(ds, str, at) /\ Len(str) = at + Len(ds)
                /\ neg => str[1] = Minus
  <2>1. mag \in Nat /\ 10 \in {10, 16}
    BY <1>2, <1>3
  <2>2. Written(str, mag, 10, min, neg)
    BY <1>6, <2>1, PaddedSpells, Zenon
  <2> QED  BY <1>4, <2>2, Zenon DEF Written
<1>8. /\ ds \in Seq(Nat) /\ Len(ds) \in Nat /\ str \in Seq(Nat)
      /\ \A i \in 1 .. Len(ds) : str[at + i] = ds[i] /\ ds[i] \in 0 .. 9
  <2>1. 10 \in {10, 16} /\ 10 - 1 = 9
    OBVIOUS
  <2> QED  BY <1>7, <2>1, DigitsOnly DEF StandsIn
<1>9. at = 1 => neg /\ ~(str[1] <= 9) /\ str[1] = Minus
  BY <1>4, <1>7 DEF Minus
<1>10. ToInt32(str) = num
  <2>1. \A i \in 1 .. at : ~(str[i] <= 9)
    BY <1>4, <1>9
  <2>2. ~(Len(str) > at + Len(ds))
    BY <1>4, <1>7, <1>8
  <2>3. ToInt32(str) = Signed(Wrap(mag * SignIn(str, at)))
    BY <1>7, <2>1, <2>2, IntFound
  <2>4. (\E i \in 1 .. at : str[i] = Minus) <=> neg
    BY <1>4, <1>9
  <2>5. ToInt32(str) = Signed(Wrap(mag * IF neg THEN -1 ELSE 1))
    BY <2>3, <2>4 DEF SignIn
  <2> QED  BY <1>2, <1>3, <2>5
<1>11. ToInt32(<<Other>> \o str \o <<Other, 1>>) = num
  <2> DEFINE back == <<Other, 1>>
             all == <<Other>> \o str \o back
             from == at + 1
  <2>1. Other \in Nat /\ back \in Seq(Nat) /\ Len(back) = 2 /\ back[1] = Other
    BY DEF Other
  <2> HIDE DEF back
  <2>2. /\ StandsIn(ds, all, from) /\ Len(all) = 1 + Len(str) + 2
        /\ all[1] = Other /\ \A i \in 1 .. Len(str) : all[i + 1] = str[i]
        /\ \A i \in 1 .. 2 : all[1 + Len(str) + i] = back[i]
    <3>1. StandsIn(ds, all, from) /\ IsFramed(all, Other, str, back)
      BY <1>7, <2>1, Framed, Zenon
    <3> HIDE DEF all
    <3>2. /\ StandsIn(ds, all, from) /\ Len(all) = 1 + Len(str) + Len(back)
          /\ all[1] = Other /\ \A i \in 1 .. Len(str) : all[i + 1] = str[i]
          /\ \A i \in 1 .. Len(back) : all[1 + Len(str) + i] = back[i]
      BY <3>1, Zenon DEF IsFramed
    <3> HIDE DEF from
    <3> QED  BY <2>1, <3>2, Zenon
  <2> HIDE DEF all
  <2>3. Len(str) \in Nat /\ Len(str) >= 1
    BY <1>4, <1>7, <1>8
  <2>4. neg => all[2] = Minus
    <3>1. 1 \in 1 .. Len(str)
      BY <2>3
    <3> QED  BY <1>7, <2>2, <3>1
  <2>5. \A i \in 1 .. from : ~(all[i] <= 9)
    <3>1. ~(Other <= 9) /\ ~(Minus <= 9)
      BY DEF Other, Minus
    <3>2. ASSUME NEW i \in 1 .. from PROVE i = 1 \/ (i = 2 /\ neg)
      BY <1>4
    <3> QED  BY <2>2, <2>4, <3>1, <3>2
  <2>6. ~(all[from + Len(ds) + 1] <= 9)
    <3>1. from + Len(ds) + 1 = 1 + Len(str) + 1
      BY <1>4, <1>7, <1>8
    <3>2. all[1 + Len(str) + 1] = Other
      BY <2>1, <2>2
    <3> QED  BY <3>1, <3>2 DEF Other
  <2>7. ToInt32(all) = Signed(Wrap(mag * SignIn(all, from)))
    <3>1. mag \in Numbers
      OBVIOUS
    <3> HIDE DEF from
    <3>2. Len(all) > from + Len(ds) => ~(all[from + Len(ds) + 1] <= 9)
      BY <2>6
    <3>3. StandsIn(ds, all, from) /\ Spells(ds, mag, 10) /\ Len(ds) >= 1
      BY <1>7, <2>2
    <3> QED  BY ONLY <2>5, <3>1, <3>2, <3>3, IntFound
  <2>8. (\E i \in 1 .. from : all[i] = Minus) <=> neg
    <3>1. CASE neg
      <4>1. 2 \in 1 .. from
        BY <1>4, <3>1
      <4> QED  BY <2>4, <3>1, <4>1
    <3>2. CASE ~neg
      <4>1. from = 1 /\ Other # Minus
        BY <1>4, <3>2 DEF Other, Minus
      <4> QED  BY <2>2, <3>2, <4>1
    <3> QED  BY <3>1, <3>2
  <2>9. ToInt32(all) = Signed(Wrap(mag * IF neg THEN -1 ELSE 1))
    BY <2>7, <2>8, Zenon DEF SignIn
  <2> QED  BY <1>2, <1>3, <2>9 DEF all, back
<1>12. ASSUME NEW i \in 1 .. Len(str), str[i] = Minus PROVE i = 1
  <2>1. i \in 1 .. at + Len(ds)
    BY <1>7
  <2>2. CASE i <= at
    BY <1>4, <2>2
  <2>3. CASE i > at
    <3>1. i - at \in 1 .. Len(ds) /\ at + (i - at) = i
      BY <1>4, <1>8, <2>1, <2>3
    <3>2. str[i] \in 0 .. 9
      BY <1>8, <3>1
    <3> QED  BY <1>12, <3>2 DEF Minus
  <2> QED  BY <1>4, <2>2, <2>3
<1>13. num < 0 => Len(str) >= min + 1
  <2>1. ASSUME num < 0 PROVE neg
    BY <1>3, <2>1
  <2>2. ASSUME neg PROVE at = 1
    BY <1>4, <2>2
  <2>3. at = 1 => Len(str) >= min + 1
    BY ONLY <1>7, <1>8, min \in Nat
  <2> QED  BY <2>1, <2>2, <2>3, Zenon
<1> QED  BY <1>1, <1>5, <1>10, <1>11, <1>12, <1>13

LEMMA UintRoundTrip ==
  ASSUME NEW u \in Numbers, NEW min \in Nat, NEW base \in {10, 16},
         NEW back \in {<<Other, 1>>, <<Other>>}, base = 16 => back = <<Other>>
  PROVE  /\ ToUint(<<Other>> \o UToStr(u, base, min) \o back, base) = u
         /\ Len(UToStr(u, base, min)) >= min
<1>1. PICK str : str = UToStr(u, base, min)
  OBVIOUS
<1>2. u \in Nat /\ Other \in Nat /\ back \in Seq(Nat)
  <2>1. u \in Nat
    BY NumAssumption DEF Numbers
  <2>2. Other \in Nat
    BY DEF Other
  <2>3. <<Other, 1>> \in Seq(Nat) /\ <<Other>> \in Seq(Nat)
    BY <2>2
  <2>4. back \in Seq(Nat)
    BY <2>3, Zenon
  <2> QED  BY <2>1, <2>2, <2>4
<1>3. str = Padded(Digits(u, base), min, FALSE)
  BY <1>1 DEF UToStr
<1>4. PICK ds : /\ Spells(ds, u, base) /\ Len(ds) >= 1 /\ Len(ds) >= min
                /\ StandsIn(ds, str, 0) /\ Len(str) = 0 + Len(ds)
  <2>1. FALSE \in BOOLEAN
    OBVIOUS
  <2>2. Written(str, u, base, min, FALSE)
    BY <1>2, <1>3, <2>1, PaddedSpells, Zenon
  <2> QED  BY <2>2, Zenon DEF Written
<1>5. ds \in Seq(Nat) /\ Len(ds) \in Nat /\ Len(str) = Len(ds)
  BY <1>4, DigitsOnly
<1> DEFINE all == <<Other>> \o str \o back
<1>6. /\ StandsIn(ds, all, 0 + 1) /\ Len(all) = 1 + Len(str) + Len(back)
      /\ all[1] = Other
      /\ \A i \in 1 .. Len(back) : all[1 + Len(str) + i] = back[i]
  <2> DEFINE at == 0
  <2>1. StandsIn(ds, str, at) /\ Len(str) = at + Len(ds)
    BY <1>4
  <2> HIDE DEF at
  <2>2. /\ StandsIn(ds, all, at + 1) /\ Len(all) = 1 + Len(str) + Len(back)
        /\ all[1] = Other
        /\ \A i \in 1 .. Len(back) : all[1 + Len(str) + i] = back[i]
    <3>1. StandsIn(ds, all, at + 1) /\ IsFramed(all, Other, str, back)
      BY <1>2, <2>1, Framed, Zenon
    <3> HIDE DEF all
    <3> QED  BY <3>1, Zenon DEF IsFramed
  <2> QED  BY <2>2, Zenon DEF at
<1>7. back[1] = Other /\ Len(back) \in 1 .. 2 /\ (Len(back) = 2 => base = 10)
  OBVIOUS
<1> HIDE DEF all
<1>8. ~IsDigit(Other, base)
  BY DEF IsDigit, Other
<1>9. \A i \in 1 .. 1 : ~IsDigit(all[i], base)
  BY <1>6, <1>8
<1>10. ASSUME NEW i \in 1 + Len(ds) + 1 .. Len(all)
       PROVE  ~IsDigit(all[i], base) \/ (base = 10 /\ i > 1 + Len(ds) + 1)
  <2>1. i = 1 + Len(str) + 1 \/ (i > 1 + Len(ds) + 1 /\ base = 10)
    BY <1>5, <1>6, <1>7
  <2>2. all[1 + Len(str) + 1] = Other
    BY <1>6, <1>7
  <2> QED  BY <1>8, <2>1, <2>2
<1>11. ToUint(all, base) = u
  <2>1. StandsIn(ds, all, 1)
    BY <1>6
  <2> QED  BY <1>4, <1>9, <1>10, <2>1, UintFound
<1>12. Len(str) >= min
  BY <1>4, <1>5
<1> QED  BY <1>1, <1>11, <1>12 DEF all

(* For numbers of any width: a number that is converted to text, in base 10  *)
(* or 16, and back is the same, the smallest one included, with other text   *)
(* on both sides of it, whatever the padding, wherever that text fits the    *)
(* buffers of 20 and 21 characters and the assertions allow the padding.     *)
THEOREM NumbersConverted == Spec => []NumbersRoundTrip
<1> DEFINE Inv == kind = "number" => input \in Values
           vars == <<kind, input>>
<1>1. Init => Inv
  BY DEF Init
<1>2. Inv /\ [Next]_vars => Inv'
  BY DEF Next, NextCharacter, NextOctet, Tick, Grow
<1>3. Inv => NumbersRoundTrip
  <2>1. SUFFICES ASSUME kind = "number", input \in Numbers, NEW min \in MinDigits
        PROVE  /\ SignedRoundTrip(Signed(input), min)
               /\ UnsignedRoundTrip(input, 10, min, <<Other, 1>>)
               /\ UnsignedRoundTrip(input, 16, min, <<Other>>)
    BY PureAssumption DEF NumbersRoundTrip
  <2>2. min \in Nat
    BY PureAssumption
  <2>3. UnsignedRoundTrip(input, 10, min, <<Other, 1>>)
    <3>1. 10 \in {10, 16} /\ <<Other, 1>> \in {<<Other, 1>>, <<Other>>} /\ 10 # 16
      OBVIOUS
    <3> QED  BY <2>1, <2>2, <3>1, UintRoundTrip DEF UnsignedRoundTrip
  <2>4. UnsignedRoundTrip(input, 16, min, <<Other>>)
    <3>1. 16 \in {10, 16} /\ <<Other>> \in {<<Other, 1>>, <<Other>>}
      OBVIOUS
    <3> QED  BY <2>1, <2>2, <3>1, UintRoundTrip DEF UnsignedRoundTrip
  <2>5. SignedRoundTrip(Signed(input), min)
    BY <2>1, <2>2, IntRoundTrip DEF SignedRoundTrip
  <2> QED  BY <2>3, <2>4, <2>5
<1> QED  BY <1>1, <1>2, <1>3, PTL DEF Spec

(* --------------------------------- UTF-8 --------------------------------- *)

(* The number of a character in digits of 64.                                *)
Sixties(ch, a, b, c, x, y, z) ==
  /\ a \in Nat /\ b \in Nat /\ c \in Nat
  /\ x \in 0 .. 63 /\ y \in 0 .. 63 /\ z \in 0 .. 63
  /\ a = ch \div 64 /\ b = ch \div 4096 /\ c = ch \div 262144
  /\ ch = a * 64 + x /\ a = b * 64 + y /\ b = c * 64 + z
  /\ Low(ch, 1) = 128 + x /\ Low(ch, 64) = 128 + y /\ Low(ch, 4096) = 128 + z

LEMMA InSixties ==
  ASSUME NEW ch \in Nat PROVE \E a, b, c, x, y, z : Sixties(ch, a, b, c, x, y, z)
<1>1. \A n \in Nat : /\ n \div 64 \in Nat /\ n % 64 \in 0 .. 63
                     /\ n = (n \div 64) * 64 + (n % 64)
  OBVIOUS
<1>2. PICK a \in Nat, x \in 0 .. 63 : a = ch \div 64 /\ x = ch % 64 /\ ch = a * 64 + x
  BY <1>1
<1>3. PICK b \in Nat, y \in 0 .. 63 : b = a \div 64 /\ y = a % 64 /\ a = b * 64 + y
  BY <1>1
<1>4. PICK c \in Nat, z \in 0 .. 63 : c = b \div 64 /\ z = b % 64 /\ b = c * 64 + z
  BY <1>1
<1>5. b = ch \div 4096
  <2>1. (ch \div 64) \div 64 = ch \div 4096
    OBVIOUS
  <2> QED  BY <1>2, <1>3, <2>1
<1>6. c = ch \div 262144
  <2>1. (ch \div 4096) \div 64 = ch \div 262144
    OBVIOUS
  <2> QED  BY <1>4, <1>5, <2>1
<1>7. Low(ch, 1) = 128 + x /\ Low(ch, 64) = 128 + y /\ Low(ch, 4096) = 128 + z
  <2>1. ch \div 1 = ch
    OBVIOUS
  <2> QED  BY <1>2, <1>3, <1>4, <1>5, <2>1 DEF Low
<1>8. Sixties(ch, a, b, c, x, y, z)
  BY <1>2, <1>3, <1>4, <1>5, <1>6, <1>7 DEF Sixties
<1> QED  BY <1>8, Zenon

LEMMA LowBits ==
  ASSUME NEW x \in 0 .. 63 PROVE (128 + x) % 64 = x
OBVIOUS

(* The octet o and those that follow it are read as the one character u.     *)
Reads(o, rest, u) ==
  /\ o \in Nat /\ rest \in Seq(Nat) /\ Len(rest) \in 0 .. 3
  /\ Kind(o).more = Len(rest)
  /\ Kind(o).range <= u
  /\ Joined(Kind(o).bits, rest) = u

(* The sequence of o and of what is in r.                                    *)
Led(os, o, r) ==
  /\ os \in Seq(Nat) /\ Len(os) = Len(r) + 1 /\ os[1] = o
  /\ \A i \in 1 .. Len(r) : os[i + 1] = r[i]

LEMMA TupleOfTwo ==
  ASSUME NEW o \in Nat, NEW p \in Nat
  PROVE  \E r \in Seq(Nat) : Len(r) = 1 /\ r[1] = p /\ Led(<<o, p>>, o, r)
<1>1. PICK r : r \in Seq(Nat) /\ r = <<p>> /\ Len(r) = 1 /\ r[1] = p
  <2>1. <<p>> \in Seq(Nat) /\ Len(<<p>>) = 1 /\ <<p>>[1] = p
    OBVIOUS
  <2> QED  BY <2>1, Zenon
<1>2. PICK os : os \in Seq(Nat) /\ os = <<o, p>> /\ Len(os) = 2 /\ os[1] = o /\ os[2] = p
  <2>1. <<o, p>> \in Seq(Nat) /\ Len(<<o, p>>) = 2 /\ <<o, p>>[1] = o /\ <<o, p>>[2] = p
    OBVIOUS
  <2> QED  BY <2>1, Zenon
<1>3. \A i \in 1 .. Len(r) : os[i + 1] = r[i]
  <2>1. \A i \in 1 .. Len(r) : i = 1 /\ i + 1 = 2
    BY <1>1
  <2> QED  BY <1>1, <1>2, <2>1
<1>4. Led(os, o, r)
  BY <1>1, <1>2, <1>3 DEF Led
<1> QED  BY <1>1, <1>2, <1>4

LEMMA TupleOfThree ==
  ASSUME NEW o \in Nat, NEW p \in Nat, NEW q \in Nat
  PROVE  \E r \in Seq(Nat) : /\ Len(r) = 2 /\ r[1] = p /\ r[2] = q
                             /\ Led(<<o, p, q>>, o, r)
<1>1. PICK r : r \in Seq(Nat) /\ r = <<p, q>> /\ Len(r) = 2 /\ r[1] = p /\ r[2] = q
  <2>1. <<p, q>> \in Seq(Nat) /\ Len(<<p, q>>) = 2 /\ <<p, q>>[1] = p /\ <<p, q>>[2] = q
    OBVIOUS
  <2> QED  BY <2>1, Zenon
<1>2. PICK os : /\ os \in Seq(Nat) /\ os = <<o, p, q>> /\ Len(os) = 3
                /\ os[1] = o /\ os[2] = p /\ os[3] = q
  <2>1. /\ <<o, p, q>> \in Seq(Nat) /\ Len(<<o, p, q>>) = 3
        /\ <<o, p, q>>[1] = o /\ <<o, p, q>>[2] = p /\ <<o, p, q>>[3] = q
    OBVIOUS
  <2> QED  BY <2>1, Zenon
<1>3. \A i \in 1 .. Len(r) : os[i + 1] = r[i]
  <2>1. \A i \in 1 .. Len(r) : (i = 1 /\ i + 1 = 2) \/ (i = 2 /\ i + 1 = 3)
    BY <1>1
  <2> QED  BY <1>1, <1>2, <2>1
<1>4. Led(os, o, r)
  BY <1>1, <1>2, <1>3 DEF Led
<1> QED  BY <1>1, <1>2, <1>4

LEMMA TupleOfFour ==
  ASSUME NEW o \in Nat, NEW p \in Nat, NEW q \in Nat, NEW s \in Nat
  PROVE  \E r \in Seq(Nat) : /\ Len(r) = 3 /\ r[1] = p /\ r[2] = q /\ r[3] = s
                             /\ Led(<<o, p, q, s>>, o, r)
<1>1. PICK r : /\ r \in Seq(Nat) /\ r = <<p, q, s>> /\ Len(r) = 3
               /\ r[1] = p /\ r[2] = q /\ r[3] = s
  <2>1. /\ <<p, q, s>> \in Seq(Nat) /\ Len(<<p, q, s>>) = 3
        /\ <<p, q, s>>[1] = p /\ <<p, q, s>>[2] = q /\ <<p, q, s>>[3] = s
    OBVIOUS
  <2> QED  BY <2>1, Zenon
<1>2. PICK os : /\ os \in Seq(Nat) /\ os = <<o, p, q, s>> /\ Len(os) = 4
                /\ os[1] = o /\ os[2] = p /\ os[3] = q /\ os[4] = s
  <2>1. /\ <<o, p, q, s>> \in Seq(Nat) /\ Len(<<o, p, q, s>>) = 4
        /\ <<o, p, q, s>>[1] = o /\ <<o, p, q, s>>[2] = p
        /\ <<o, p, q, s>>[3] = q /\ <<o, p, q, s>>[4] = s
    OBVIOUS
  <2> QED  BY <2>1, Zenon
<1>3. \A i \in 1 .. Len(r) : os[i + 1] = r[i]
  <2>1. \A i \in 1 .. Len(r) :
          (i = 1 /\ i + 1 = 2) \/ (i = 2 /\ i + 1 = 3) \/ (i = 3 /\ i + 1 = 4)
    BY <1>1
  <2> QED  BY <1>1, <1>2, <2>1
<1>4. Led(os, o, r)
  BY <1>1, <1>2, <1>3 DEF Led
<1> QED  BY <1>1, <1>2, <1>4

(* What ToUTF8 writes for a character is read as this character.             *)
LEMMA OctetsRead ==
  ASSUME NEW ch \in Nat, CanEncode(ch)
  PROVE  \E o, r : Led(Octets(ch), o, r) /\ Reads(o, r, ch)
<1>1. PICK a, b, c, x, y, z : Sixties(ch, a, b, c, x, y, z)
  BY InSixties
<1>2. /\ a \in Nat /\ b \in Nat /\ c \in Nat
      /\ x \in 0 .. 63 /\ y \in 0 .. 63 /\ z \in 0 .. 63
      /\ ch = a * 64 + x /\ a = b * 64 + y /\ b = c * 64 + z
  BY <1>1 DEF Sixties
<1>3. ch <= 1114111
  BY DEF CanEncode, Highest
<1>4. CASE ch <= 127
  <2>1. Octets(ch) = <<ch>>
    BY <1>4 DEF Octets
  <2>2. Led(<<ch>>, ch, << >>)
    BY DEF Led
  <2>3. ch \in 0 .. 127
    BY <1>4
  <2>4. Reads(ch, << >>, ch)
    <3>1. Kind(ch).more = 0 /\ Kind(ch).bits = ch /\ Kind(ch).range = 0
      BY <2>3 DEF Kind
    <3>2. << >> \in Seq(Nat) /\ Len(<< >>) = 0
      OBVIOUS
    <3>3. Joined(ch, << >>) = ch
      BY <3>2 DEF Joined
    <3> QED  BY <3>1, <3>2, <3>3 DEF Reads
  <2> QED  BY <2>1, <2>2, <2>4
<1>5. CASE ch > 127 /\ ch <= 2047
  <2>1. Octets(ch) = <<192 + a, 128 + x>>
    BY <1>1, <1>5 DEF Octets, Sixties
  <2>2. PICK r \in Seq(Nat) :
          /\ Len(r) = 1 /\ r[1] = 128 + x
          /\ Led(<<192 + a, 128 + x>>, 192 + a, r)
    <3>1. 192 + a \in Nat /\ 128 + x \in Nat
      BY <1>2
    <3> QED  BY <3>1, TupleOfTwo
  <2>3. a \in 0 .. 31 /\ ch >= 128 /\ 192 + a \in Nat /\ ch = a * 64 + x
    BY <1>2, <1>5
  <2>4. /\ Kind(192 + a).more = 1 /\ Kind(192 + a).bits = a
        /\ Kind(192 + a).range = 128
    <3>1. (192 + a) % 32 = a /\ 192 + a \in 192 .. 223 /\ ~(192 + a <= 127)
      BY <2>3
    <3> QED  BY <3>1 DEF Kind
  <2>5. Joined(a, r) = ch
    <3>1. (128 + x) % 64 = x
      BY ONLY <1>2, LowBits
    <3>2. r[1] % 64 = x
      BY ONLY <2>2, <3>1
    <3>3. Joined(a, r) = a * 64 + x
      BY <1>2, <2>2, <3>2 DEF Joined
    <3> QED  BY <2>3, <3>3
  <2>6. Reads(192 + a, r, ch)
    BY <2>2, <2>3, <2>4, <2>5 DEF Reads
  <2> QED  BY <2>1, <2>2, <2>6
<1>6. CASE ch > 2047 /\ ch <= 65535
  <2>1. Octets(ch) = <<224 + b, 128 + y, 128 + x>>
    BY <1>1, <1>6 DEF Octets, Sixties
  <2>2. PICK r \in Seq(Nat) :
          /\ Len(r) = 2 /\ r[1] = 128 + y /\ r[2] = 128 + x
          /\ Led(<<224 + b, 128 + y, 128 + x>>, 224 + b, r)
    <3>1. 224 + b \in Nat /\ 128 + y \in Nat /\ 128 + x \in Nat
      BY <1>2
    <3> QED  BY <3>1, TupleOfThree
  <2>3. b \in 0 .. 15 /\ ch >= 2048 /\ ch = (b * 64 + y) * 64 + x /\ 224 + b \in Nat
    BY <1>2, <1>6
  <2>4. /\ Kind(224 + b).more = 2 /\ Kind(224 + b).bits = b
        /\ Kind(224 + b).range = 2048
    <3>1. /\ (224 + b) % 16 = b /\ 224 + b \in 224 .. 239 /\ ~(224 + b <= 127)
          /\ 224 + b \notin 192 .. 223
      BY <2>3
    <3> QED  BY <3>1 DEF Kind
  <2>5. Joined(b, r) = ch
    <3>1. (128 + y) % 64 = y /\ (128 + x) % 64 = x
      BY ONLY <1>2, LowBits
    <3>2. r[1] % 64 = y /\ r[2] % 64 = x
      BY ONLY <2>2, <3>1
    <3>3. Joined(b, r) = (b * 64 + y) * 64 + x
      BY <1>2, <2>2, <3>2 DEF Joined
    <3> QED  BY <2>3, <3>3
  <2>6. Reads(224 + b, r, ch)
    BY <2>2, <2>3, <2>4, <2>5 DEF Reads
  <2> QED  BY <2>1, <2>2, <2>6
<1>7. CASE ch > 65535
  <2>1. Octets(ch) = <<240 + c, 128 + z, 128 + y, 128 + x>>
    BY <1>1, <1>7 DEF Octets, Sixties
  <2>2. PICK r \in Seq(Nat) :
          /\ Len(r) = 3 /\ r[1] = 128 + z /\ r[2] = 128 + y /\ r[3] = 128 + x
          /\ Led(<<240 + c, 128 + z, 128 + y, 128 + x>>, 240 + c, r)
    <3>1. 240 + c \in Nat /\ 128 + z \in Nat /\ 128 + y \in Nat /\ 128 + x \in Nat
      BY <1>2
    <3> QED  BY <3>1, TupleOfFour
  <2>3. /\ c \in 0 .. 7 /\ ch >= 65536 /\ ch = ((c * 64 + z) * 64 + y) * 64 + x
        /\ 240 + c \in Nat
    BY <1>2, <1>3, <1>7
  <2>4. /\ Kind(240 + c).more = 3 /\ Kind(240 + c).bits = c
        /\ Kind(240 + c).range = 65536
    <3>1. /\ (240 + c) % 8 = c /\ 240 + c \in 240 .. 247 /\ ~(240 + c <= 127)
          /\ 240 + c \notin 192 .. 223 /\ 240 + c \notin 224 .. 239
      BY <2>3
    <3> QED  BY <3>1 DEF Kind
  <2>5. Joined(c, r) = ch
    <3>1. (128 + z) % 64 = z /\ (128 + y) % 64 = y /\ (128 + x) % 64 = x
      BY ONLY <1>2, LowBits
    <3>2. r[1] % 64 = z /\ r[2] % 64 = y /\ r[3] % 64 = x
      BY ONLY <2>2, <3>1
    <3>3. Joined(c, r) = ((c * 64 + z) * 64 + y) * 64 + x
      BY <1>2, <2>2, <3>2 DEF Joined
    <3> QED  BY <2>3, <3>3
  <2>6. Reads(240 + c, r, ch)
    BY <2>2, <2>3, <2>4, <2>5 DEF Reads
  <2> QED  BY <2>1, <2>2, <2>6
<1> QED  BY <1>4, <1>5, <1>6, <1>7

LEMMA LedSame ==
  ASSUME NEW os, NEW o, NEW q \in Seq(Nat), Led(os, o, q),
         NEW r \in Seq(Nat), Len(r) = Len(q), \A i \in 1 .. Len(q) : r[i] = q[i]
  PROVE  Led(os, o, r)
BY DEF Led

LEMMA Halves ==
  ASSUME NEW a \in Nat, NEW x \in 0 .. 63
  PROVE  (a * 64 + x) \div 64 = a /\ (a * 64 + x) % 64 = x
OBVIOUS

(* What is read as a character that can be encoded, with octets that are     *)
(* those of a sequence, is what ToUTF8 writes for it.                        *)
LEMMA OctetsBack ==
  ASSUME NEW o, NEW r, NEW u, Reads(o, r, u), CanEncode(u),
         \A i \in 1 .. Len(r) : Continues(r[i])
  PROVE  Led(Octets(u), o, r)
<1>1. /\ o \in Nat /\ r \in Seq(Nat) /\ Len(r) \in 0 .. 3 /\ Kind(o).more = Len(r)
      /\ Kind(o).range <= u /\ Joined(Kind(o).bits, r) = u
  BY DEF Reads
<1>2. u <= 1114111
  BY DEF CanEncode, Highest
<1>3. \A i \in 1 .. Len(r) : \E x \in 0 .. 63 : r[i] = 128 + x
  <2>1. ASSUME NEW i \in 1 .. Len(r) PROVE \E x \in 0 .. 63 : r[i] = 128 + x
    <3>1. r[i] \in 128 .. 191
      BY DEF Continues
    <3>2. \A k \in 128 .. 191 : k - 128 \in 0 .. 63 /\ k = 128 + (k - 128)
      OBVIOUS
    <3> QED  BY ONLY <3>1, <3>2
  <2> QED  BY <2>1
<1>4. \/ o <= 127 \/ o \in 192 .. 223 \/ o \in 224 .. 239 \/ o \in 240 .. 247
  <2>1. Kind(o).more >= 0
    BY <1>1
  <2> QED  BY <1>1, <2>1 DEF Kind
<1>5. CASE o <= 127
  <2>1. Kind(o).more = 0 /\ Kind(o).bits = o
    BY <1>5 DEF Kind
  <2>2. Len(r) = 0
    BY <1>1, <2>1
  <2>3. u = o
    BY <1>1, <2>1, <2>2 DEF Joined
  <2>4. Octets(u) = <<o>>
    BY <1>5, <2>3 DEF Octets
  <2>5. Led(<<o>>, o, r)
    <3>1. <<o>> \in Seq(Nat) /\ Len(<<o>>) = 1 /\ <<o>>[1] = o
      BY <1>1
    <3> QED  BY <2>2, <3>1 DEF Led
  <2> QED  BY <2>4, <2>5
<1>7. CASE o \in 192 .. 223
  <2>1. Kind(o).more = 1 /\ Kind(o).range = 128 /\ Kind(o).bits = o % 32
    BY <1>7 DEF Kind
  <2>2. PICK b \in 0 .. 31 : o = 192 + b /\ o % 32 = b
    <3>1. o - 192 \in 0 .. 31 /\ o = 192 + (o - 192) /\ o % 32 = o - 192
      BY <1>7
    <3> QED  BY ONLY <3>1
  <2>3. Len(r) = 1
    BY <1>1, <2>1
  <2>4. PICK x \in 0 .. 63 : r[1] = 128 + x
    BY <1>3, <2>3
  <2>5. u = b * 64 + x
    <3>1. (128 + x) % 64 = x
      BY ONLY x \in 0 .. 63, LowBits
    <3>2. r[1] % 64 = x
      BY ONLY <2>4, <3>1
    <3> QED  BY <1>1, <2>1, <2>2, <2>3, <3>2 DEF Joined
  <2>6. u \in Nat /\ u \div 64 = b /\ u % 64 = x /\ ~(u <= 127) /\ u <= 2047
    <3>0. b \in Nat
      OBVIOUS
    <3>1. (b * 64 + x) \div 64 = b /\ (b * 64 + x) % 64 = x
      BY ONLY <3>0, x \in 0 .. 63, Halves, Zenon
    <3>2. u >= 128
      BY <1>1, <2>1
    <3> QED  BY ONLY b \in 0 .. 31, x \in 0 .. 63, <2>5, <3>1, <3>2
  <2>7. Low(u, 1) = 128 + x
    <3>1. u \div 1 = u
      BY <2>6
    <3> QED  BY <2>6, <3>1 DEF Low
  <2>8. Octets(u) = <<o, 128 + x>>
    BY <2>2, <2>6, <2>7 DEF Octets
  <2>9. PICK q \in Seq(Nat) : /\ Len(q) = 1 /\ q[1] = 128 + x
                              /\ Led(<<o, 128 + x>>, o, q)
    <3>1. o \in Nat /\ 128 + x \in Nat
      BY <1>1
    <3> QED  BY <3>1, TupleOfTwo
  <2>10. Len(r) = Len(q) /\ \A i \in 1 .. Len(q) : r[i] = q[i]
    BY <2>3, <2>4, <2>9
  <2>11. Led(<<o, 128 + x>>, o, r)
    BY <1>1, <2>9, <2>10, LedSame
  <2> QED  BY <2>8, <2>11
<1>8. CASE o \in 224 .. 239
  <2>1. Kind(o).more = 2 /\ Kind(o).range = 2048 /\ Kind(o).bits = o % 16
    BY <1>8 DEF Kind
  <2>2. PICK b \in 0 .. 15 : o = 224 + b /\ o % 16 = b
    <3>1. o - 224 \in 0 .. 15 /\ o = 224 + (o - 224) /\ o % 16 = o - 224
      BY <1>8
    <3> QED  BY ONLY <3>1
  <2>3. Len(r) = 2
    BY <1>1, <2>1
  <2>4. PICK y \in 0 .. 63, x \in 0 .. 63 : r[1] = 128 + y /\ r[2] = 128 + x
    BY <1>3, <2>3
  <2>5. u = (b * 64 + y) * 64 + x
    <3>1. (128 + x) % 64 = x /\ (128 + y) % 64 = y
      BY ONLY x \in 0 .. 63, y \in 0 .. 63, LowBits
    <3>2. r[1] % 64 = y /\ r[2] % 64 = x
      BY ONLY <2>4, <3>1
    <3> QED  BY <1>1, <2>1, <2>2, <2>3, <3>2 DEF Joined
  <2>6. PICK a \in Nat : a = b * 64 + y /\ u = a * 64 + x
    <3>1. b * 64 + y \in Nat
      OBVIOUS
    <3> QED  BY <2>5, <3>1
  <2>7. u \in Nat /\ ~(u <= 127) /\ ~(u <= 2047) /\ u <= 65535
    <3>1. u >= 2048
      BY <1>1, <2>1
    <3> QED  BY ONLY b \in 0 .. 15, y \in 0 .. 63, x \in 0 .. 63, <2>6, <3>1
  <2>8. u \div 64 = a /\ u % 64 = x /\ a \div 64 = b /\ a % 64 = y
    <3>1. (a * 64 + x) \div 64 = a /\ (a * 64 + x) % 64 = x
      BY ONLY a \in Nat, x \in 0 .. 63, Halves, Zenon
    <3>2. b \in Nat
      OBVIOUS
    <3>3. (b * 64 + y) \div 64 = b /\ (b * 64 + y) % 64 = y
      BY ONLY <3>2, y \in 0 .. 63, Halves, Zenon
    <3> QED  BY ONLY <2>6, <3>1, <3>3
  <2>9. u \div 4096 = b
    <3>1. (u \div 64) \div 64 = u \div 4096
      BY <2>7
    <3> QED  BY <2>8, <3>1
  <2>10. Low(u, 1) = 128 + x /\ Low(u, 64) = 128 + y
    <3>1. u \div 1 = u
      BY <2>7
    <3> QED  BY <2>8, <3>1 DEF Low
  <2>11. Octets(u) = <<o, 128 + y, 128 + x>>
    BY <2>2, <2>7, <2>9, <2>10 DEF Octets
  <2>12. PICK q \in Seq(Nat) : /\ Len(q) = 2 /\ q[1] = 128 + y /\ q[2] = 128 + x
                               /\ Led(<<o, 128 + y, 128 + x>>, o, q)
    <3>1. o \in Nat /\ 128 + x \in Nat /\ 128 + y \in Nat
      BY <1>1
    <3> QED  BY <3>1, TupleOfThree
  <2>13. Len(r) = Len(q) /\ \A i \in 1 .. Len(q) : r[i] = q[i]
    <3>1. \A i \in 1 .. 2 : i = 1 \/ i = 2
      OBVIOUS
    <3> QED  BY <2>3, <2>4, <2>12, <3>1
  <2>14. Led(<<o, 128 + y, 128 + x>>, o, r)
    BY <1>1, <2>12, <2>13, LedSame
  <2> QED  BY <2>11, <2>14
<1>9. CASE o \in 240 .. 247
  <2>1. Kind(o).more = 3 /\ Kind(o).range = 65536 /\ Kind(o).bits = o % 8
    BY <1>9 DEF Kind
  <2>2. PICK c \in 0 .. 7 : o = 240 + c /\ o % 8 = c
    <3>1. o - 240 \in 0 .. 7 /\ o = 240 + (o - 240) /\ o % 8 = o - 240
      BY <1>9
    <3> QED  BY ONLY <3>1
  <2>3. Len(r) = 3
    BY <1>1, <2>1
  <2>4. PICK z \in 0 .. 63, y \in 0 .. 63, x \in 0 .. 63 :
          r[1] = 128 + z /\ r[2] = 128 + y /\ r[3] = 128 + x
    <3>1. 1 \in 1 .. Len(r) /\ 2 \in 1 .. Len(r) /\ 3 \in 1 .. Len(r)
      BY <2>3
    <3>2. PICK z \in 0 .. 63 : r[1] = 128 + z
      BY <1>3, <3>1
    <3>3. PICK y \in 0 .. 63 : r[2] = 128 + y
      BY <1>3, <3>1
    <3>4. PICK x \in 0 .. 63 : r[3] = 128 + x
      BY <1>3, <3>1
    <3> QED  BY ONLY <3>2, <3>3, <3>4, Zenon
  <2>5. u = ((c * 64 + z) * 64 + y) * 64 + x
    <3>1. (128 + x) % 64 = x /\ (128 + y) % 64 = y /\ (128 + z) % 64 = z
      BY ONLY x \in 0 .. 63, y \in 0 .. 63, z \in 0 .. 63, LowBits
    <3>2. r[1] % 64 = z /\ r[2] % 64 = y /\ r[3] % 64 = x
      BY ONLY <2>4, <3>1
    <3>3. Joined(c, r) = u
      BY ONLY <1>1, <2>1, <2>2
    <3> QED  BY ONLY <2>3, <3>2, <3>3, c \in 0 .. 7 DEF Joined
  <2>6. PICK a \in Nat, b \in Nat : b = c * 64 + z /\ a = b * 64 + y /\ u = a * 64 + x
    <3>1. c * 64 + z \in Nat /\ (c * 64 + z) * 64 + y \in Nat
      OBVIOUS
    <3> QED  BY <2>5, <3>1
  <2>7. u \in Nat /\ ~(u <= 127) /\ ~(u <= 2047) /\ ~(u <= 65535)
    <3>1. u >= 65536
      BY <1>1, <2>1
    <3> QED  BY ONLY x \in 0 .. 63, <2>6, <3>1
  <2>8. /\ u \div 64 = a /\ u % 64 = x /\ a \div 64 = b /\ a % 64 = y
        /\ b \div 64 = c /\ b % 64 = z
    <3>1. (a * 64 + x) \div 64 = a /\ (a * 64 + x) % 64 = x
      BY ONLY a \in Nat, x \in 0 .. 63, Halves, Zenon
    <3>2. (b * 64 + y) \div 64 = b /\ (b * 64 + y) % 64 = y
      BY ONLY b \in Nat, y \in 0 .. 63, Halves, Zenon
    <3>3. c \in Nat
      OBVIOUS
    <3>4. (c * 64 + z) \div 64 = c /\ (c * 64 + z) % 64 = z
      BY ONLY <3>3, z \in 0 .. 63, Halves, Zenon
    <3> QED  BY ONLY <2>6, <3>1, <3>2, <3>4
  <2>9. u \div 4096 = b /\ u \div 262144 = c
    <3>1. (u \div 64) \div 64 = u \div 4096 /\ (u \div 4096) \div 64 = u \div 262144
      BY <2>7
    <3> QED  BY <2>8, <3>1
  <2>10. Low(u, 1) = 128 + x /\ Low(u, 64) = 128 + y /\ Low(u, 4096) = 128 + z
    <3>1. u \div 1 = u
      BY <2>7
    <3> QED  BY <2>8, <2>9, <3>1 DEF Low
  <2>11. Octets(u) = <<o, 128 + z, 128 + y, 128 + x>>
    BY <2>2, <2>7, <2>9, <2>10 DEF Octets
  <2>12. PICK q \in Seq(Nat) :
           /\ Len(q) = 3 /\ q[1] = 128 + z /\ q[2] = 128 + y /\ q[3] = 128 + x
           /\ Led(<<o, 128 + z, 128 + y, 128 + x>>, o, q)
    <3>1. o \in Nat /\ 128 + x \in Nat /\ 128 + y \in Nat /\ 128 + z \in Nat
      BY <1>1
    <3> QED  BY <3>1, TupleOfFour
  <2>13. Len(r) = Len(q) /\ \A i \in 1 .. Len(q) : r[i] = q[i]
    <3>1. \A i \in 1 .. 3 : i = 1 \/ i = 2 \/ i = 3
      OBVIOUS
    <3> QED  BY ONLY <2>3, <2>4, <2>12, <3>1
  <2>14. Led(<<o, 128 + z, 128 + y, 128 + x>>, o, r)
    BY ONLY <1>1, <2>12, <2>13, LedSame, Zenon
  <2> QED  BY <2>11, <2>14
<1> QED  BY <1>4, <1>5, <1>7, <1>8, <1>9

(* What ToUTF8 writes for one character of the text.                         *)
Part(ch) == IF CanEncode(ch) THEN Octets(ch) ELSE << >>

LEMMA PartIs ==
  ASSUME NEW ch \in Nat PROVE Part(ch) \in Seq(Nat)
<1>1. CASE CanEncode(ch)
  <2>1. PICK o, r : Led(Octets(ch), o, r) /\ Reads(o, r, ch)
    BY <1>1, OctetsRead
  <2> QED  BY <1>1, <2>1 DEF Led, Part
<1>2. CASE ~CanEncode(ch)
  BY <1>2 DEF Part
<1> QED  BY <1>1, <1>2

EncodeStep(dst, ch) == dst \o Part(ch)

(* The loop of ToUTF8.                                                       *)
LEMMA EncodeLoop ==
  ASSUME NEW text \in Seq(Nat)
  PROVE  \E e \in [0 .. Len(text) -> Seq(Nat)] :
           /\ e[0] = << >>
           /\ \A i \in 1 .. Len(text) : e[i] = EncodeStep(e[i - 1], text[i])
           /\ ToUTF8(text).dst = e[Len(text)]
<1> DEFINE n == Len(text)
           step == [p \in (1 .. n) \X Seq(Nat) |-> EncodeStep(p[2], text[p[1]])]
           Is(f) == f = [i \in 0 .. n |-> IF i = 0 THEN << >>
                                          ELSE EncodeStep(f[i - 1], text[i])]
           b == CHOOSE f : Is(f)
<1>1. n \in Nat /\ \A i \in 1 .. n : text[i] \in Nat
  OBVIOUS
<1>2. \A s \in Seq(Nat), ch \in Nat : EncodeStep(s, ch) \in Seq(Nat)
  BY PartIs DEF EncodeStep
<1>3. step \in [(1 .. n) \X Seq(Nat) -> Seq(Nat)] /\ << >> \in Seq(Nat)
  <2>1. ASSUME NEW p \in (1 .. n) \X Seq(Nat)
        PROVE  EncodeStep(p[2], text[p[1]]) \in Seq(Nat)
    <3>1. p[1] \in 1 .. n /\ p[2] \in Seq(Nat)
      OBVIOUS
    <3>2. text[p[1]] \in Nat
      BY <1>1, <3>1
    <3> QED  BY <1>2, <3>1, <3>2, Zenon
  <2>2. << >> \in Seq(Nat)
    OBVIOUS
  <2> QED  BY <2>1, <2>2
<1>4. PICK g \in [0 .. n -> Seq(Nat)] :
        g[0] = << >> /\ \A i \in 1 .. n : g[i] = step[<<i, g[i - 1]>>]
  <2>1. n \in Nat
    BY <1>1
  <2> HIDE DEF n, step
  <2>2. Runs(Seq(Nat), n, << >>, step) # {}
    BY <1>3, <2>1, Loops, Zenon
  <2> QED  BY <2>2 DEF Runs
<1>5. ASSUME NEW i \in 1 .. n PROVE g[i] = EncodeStep(g[i - 1], text[i])
  <2>1. i - 1 \in 0 .. n
    BY <1>1
  <2>2. <<i, g[i - 1]>> \in (1 .. n) \X Seq(Nat)
    BY <2>1
  <2> QED  BY <1>4, <2>2
<1> HIDE DEF n, step
<1>6. Is(b)
  <2>1. Is(g)
    BY <1>1, <1>4, <1>5
  <2> HIDE DEF Is
  <2> QED  BY <2>1
<1>7. ToUTF8(text).dst = b[n]
  BY DEF ToUTF8, EncodeStep, Part, n
<1> DEFINE Good == {i \in 0 .. n : b[i] = g[i]}
<1> HIDE DEF b
<1>8. 0 \in Good
  BY <1>1, <1>4, <1>6
<1>9. ASSUME NEW i \in 1 .. n, i - 1 \in Good PROVE i \in Good
  <2>1. b[i] = EncodeStep(b[i - 1], text[i]) /\ b[i - 1] = g[i - 1]
    BY <1>1, <1>6, <1>9
  <2>2. b[i] = g[i]
    BY <1>5, <2>1
  <2> QED  BY <2>2
<1>10. n \in Good
  <2>1. \A i \in 1 .. n : i - 1 \in Good => i \in Good
    BY <1>9
  <2>2. n \in 0 .. n
    BY <1>1
  <2> HIDE DEF Good
  <2> QED  BY <1>1, <1>8, <2>1, <2>2, UpTo
<1>11. ToUTF8(text).dst = g[n]
  BY <1>7, <1>10
<1> QED  BY <1>4, <1>5, <1>11 DEF n

(* One character more.                                                       *)
LEMMA EncodeMore ==
  ASSUME NEW text \in Seq(Nat), NEW ch \in Nat
  PROVE  /\ ToUTF8(Append(text, ch)).dst = ToUTF8(text).dst \o Part(ch)
         /\ ToUTF8(text).dst \in Seq(Nat)
<1>1. PICK n, more :
        /\ n = Len(text) /\ n \in Nat /\ more = Append(text, ch) /\ more \in Seq(Nat)
        /\ Len(more) = n + 1 /\ more[n + 1] = ch
        /\ \A i \in 1 .. n : more[i] = text[i]
  <2>1. /\ Len(text) \in Nat /\ Append(text, ch) \in Seq(Nat)
        /\ Len(Append(text, ch)) = Len(text) + 1
        /\ Append(text, ch)[Len(text) + 1] = ch
        /\ \A i \in 1 .. Len(text) : Append(text, ch)[i] = text[i]
    OBVIOUS
  <2> QED  BY <2>1, Zenon
<1>2. PICK e \in [0 .. n -> Seq(Nat)] :
        /\ e[0] = << >> /\ \A i \in 1 .. n : e[i] = EncodeStep(e[i - 1], text[i])
        /\ ToUTF8(text).dst = e[n]
  BY <1>1, EncodeLoop
<1>3. PICK f \in [0 .. n + 1 -> Seq(Nat)] :
        /\ f[0] = << >> /\ \A i \in 1 .. n + 1 : f[i] = EncodeStep(f[i - 1], more[i])
        /\ ToUTF8(more).dst = f[n + 1]
  BY <1>1, EncodeLoop
<1> DEFINE Good == {i \in 0 .. n : f[i] = e[i]}
<1>4. 0 \in Good
  <2>1. 0 \in 0 .. n
    BY <1>1
  <2> QED  BY <1>2, <1>3, <2>1
<1>5. ASSUME NEW i \in 1 .. n, i - 1 \in Good PROVE i \in Good
  <2>1. f[i - 1] = e[i - 1]
    BY <1>5
  <2>2. f[i] = EncodeStep(f[i - 1], more[i])
    <3>1. i \in 1 .. n + 1
      BY <1>1
    <3> QED  BY <1>3, <3>1
  <2>3. e[i] = EncodeStep(e[i - 1], text[i])
    BY <1>2
  <2>4. more[i] = text[i]
    BY <1>1
  <2> QED  BY <2>1, <2>2, <2>3, <2>4
<1>6. f[n] = e[n]
  <2>1. \A i \in 1 .. n : i - 1 \in Good => i \in Good
    BY <1>5
  <2>2. n \in 0 .. n
    BY <1>1
  <2>3. n \in Good
    <3> HIDE DEF Good
    <3> QED  BY <1>1, <1>4, <2>1, <2>2, UpTo
  <2> QED  BY <2>3
<1>7. f[n + 1] = EncodeStep(f[n], ch)
  <2>1. n + 1 \in 1 .. n + 1 /\ (n + 1) - 1 = n
    BY <1>1
  <2> QED  BY <1>1, <1>3, <2>1
<1>8. e[n] \in Seq(Nat)
  <2>1. n \in 0 .. n
    BY <1>1
  <2> QED  BY <2>1
<1> QED  BY <1>1, <1>2, <1>3, <1>6, <1>7, <1>8 DEF EncodeStep

LEMMA EncodeNone ==
  ToUTF8(<< >>).dst = << >>
<1>1. << >> \in Seq(Nat) /\ Len(<< >>) = 0
  OBVIOUS
<1>2. PICK e : e[0] = << >> /\ ToUTF8(<< >>).dst = e[0]
  BY <1>1, EncodeLoop
<1> QED  BY <1>2

(* The loop of FromUTF8.                                                     *)
DecodeState == [ok : BOOLEAN, dst : Seq(Nat), next : Nat \ {0}]
DecodeStart == [ok |-> TRUE, dst |-> << >>, next |-> 1]
DecodeStep(s, src) == IF s.ok /\ s.next <= Len(src) THEN Turn(src, s) ELSE s

LEMMA KindIs ==
  ASSUME NEW o \in Nat
  PROVE  Kind(o).more \in -1 .. 3 /\ Kind(o).bits \in Nat /\ Kind(o).range \in Nat
<1>1. o % 32 \in Nat /\ o % 16 \in Nat /\ o % 8 \in Nat
  OBVIOUS
<1> QED  BY <1>1 DEF Kind

LEMMA JoinedNat ==
  ASSUME NEW b \in Nat, NEW r \in Seq(Nat) PROVE Joined(b, r) \in Nat
<1> DEFINE With(u, i) == IF i <= Len(r) THEN u * 64 + (r[i] % 64) ELSE u
<1>1. \A u \in Nat, i \in 1 .. 3 : With(u, i) \in Nat
  <2>1. ASSUME NEW u \in Nat, NEW i \in 1 .. 3 PROVE With(u, i) \in Nat
    <3>1. CASE i <= Len(r)
      <4>1. r[i] \in Nat
        BY <3>1
      <4>2. r[i] % 64 \in Nat
        BY <4>1
      <4> QED  BY <3>1, <4>2
    <3>2. CASE ~(i <= Len(r))
      BY <3>2
    <3> QED  BY <3>1, <3>2
  <2> QED  BY <2>1
<1>2. Joined(b, r) = With(With(With(b, 1), 2), 3)
  BY DEF Joined
<1> HIDE DEF With
<1>3. 1 \in 1 .. 3 /\ 2 \in 1 .. 3 /\ 3 \in 1 .. 3
  OBVIOUS
<1> QED  BY <1>1, <1>2, <1>3

LEMMA PartOfSeq ==
  ASSUME NEW src \in Seq(Nat), NEW a \in 1 .. Len(src) + 1, NEW b \in a - 1 .. Len(src)
  PROVE  /\ SubSeq(src, a, b) \in Seq(Nat) /\ Len(SubSeq(src, a, b)) = b - a + 1
         /\ \A i \in 1 .. b - a + 1 : SubSeq(src, a, b)[i] = src[a + i - 1]
OBVIOUS

LEMMA SameSeq ==
  ASSUME NEW s \in Seq(Nat), NEW t \in Seq(Nat), Len(s) = Len(t),
         \A i \in 1 .. Len(s) : s[i] = t[i]
  PROVE  s = t
OBVIOUS

(* The octets of src from the one at "at" on are read as the character u.    *)
ReadsAt(src, at, r, u) ==
  /\ Reads(src[at], r, u) /\ u \in Nat /\ at + Len(r) <= Len(src)
  /\ \A i \in 1 .. Len(r) : r[i] = src[at + i]

Read(s, r, u) == [ok   |-> TRUE,
                  dst  |-> Append(s.dst, u),
                  next |-> s.next + Len(r) + 1]

(* The parts and the cases of a turn.                                        *)
KindAt(src, s) == Kind(src[s.next])
LastAt(src, s) ==
  IF s.next + KindAt(src, s).more <= Len(src) THEN s.next + KindAt(src, s).more
  ELSE Len(src)
ReadAt(src, s) == Joined(KindAt(src, s).bits, SubSeq(src, s.next + 1, LastAt(src, s)))

LEMMA TurnCases ==
  ASSUME NEW src, NEW s
  PROVE  LET lead == KindAt(src, s) last == LastAt(src, s) read == ReadAt(src, s)
         IN /\ lead.more < 0 => Turn(src, s) = [s EXCEPT !.ok = FALSE]
            /\ last < s.next + lead.more =>
                 Turn(src, s) =
                   IF lead.more < 0 \/ ~(read * 64 >= lead.range)
                   THEN [s EXCEPT !.ok = FALSE]
                   ELSE [ok |-> FALSE, dst |-> Append(s.dst, read * 64),
                         next |-> Len(src) + 2]
            /\ ~(last < s.next + lead.more) =>
                 Turn(src, s) =
                   IF lead.more < 0 \/ ~(read >= lead.range)
                   THEN [s EXCEPT !.ok = FALSE]
                   ELSE [ok |-> TRUE, dst |-> Append(s.dst, read), next |-> last + 1]
<1> DEFINE lead == KindAt(src, s) last == LastAt(src, s) read == ReadAt(src, s)
           at == s.next n == Len(src)
           cut == last < at + lead.more
           u == IF cut THEN read * 64 ELSE read
<1>1. Turn(src, s) = IF lead.more < 0 \/ ~(u >= lead.range)
                     THEN [s EXCEPT !.ok = FALSE]
                     ELSE [ok |-> ~cut, dst |-> Append(s.dst, u),
                           next |-> IF cut THEN n + 2 ELSE last + 1]
  BY Zenon DEF Turn, InRange, KindAt, LastAt, ReadAt
<1>2. (last < at + lead.more) => Turn(src, s) =
                   IF lead.more < 0 \/ ~(read * 64 >= lead.range)
                   THEN [s EXCEPT !.ok = FALSE]
                   ELSE [ok |-> FALSE, dst |-> Append(s.dst, read * 64),
                         next |-> n + 2]
  <2>1. ASSUME cut PROVE u = read * 64 /\ (~cut) = FALSE
    BY <2>1
  <2> HIDE DEF u
  <2> QED  BY <1>1, <2>1, Zenon
<1>3. ~(last < at + lead.more) => Turn(src, s) =
                   IF lead.more < 0 \/ ~(read >= lead.range)
                   THEN [s EXCEPT !.ok = FALSE]
                   ELSE [ok |-> TRUE, dst |-> Append(s.dst, read), next |-> last + 1]
  <2>1. ASSUME ~cut PROVE u = read /\ (~cut) = TRUE
    BY <2>1
  <2> HIDE DEF u
  <2> QED  BY <1>1, <2>1, Zenon
<1>4. lead.more < 0 => Turn(src, s) = [s EXCEPT !.ok = FALSE]
  BY <1>1, Zenon
<1> QED  BY <1>2, <1>3, <1>4, Zenon

(* A turn that goes well reads one character.                                *)
LEMMA TurnReads ==
  ASSUME NEW src \in Seq(Nat), NEW s \in DecodeState, NEW r, NEW u,
         s.next <= Len(src), ReadsAt(src, s.next, r, u)
  PROVE  Turn(src, s) = Read(s, r, u)
<1> DEFINE at == s.next  n == Len(src)  lead == Kind(src[at])  end == at + Len(r)
<1>1. at \in 1 .. n /\ n \in Nat /\ src[at] \in Nat
  BY DEF DecodeState
<1>2. lead.more \in -1 .. 3 /\ lead.bits \in Nat /\ lead.range \in Nat
  BY <1>1, KindIs
<1>3. /\ lead.more = Len(r) /\ lead.range <= u /\ Joined(lead.bits, r) = u
      /\ r \in Seq(Nat) /\ Len(r) \in Nat /\ u \in Nat /\ end <= n
      /\ \A i \in 1 .. Len(r) : r[i] = src[at + i]
  BY DEF ReadsAt, Reads
<1> HIDE DEF lead, at, n
<1>4. end \in (at + 1) - 1 .. n /\ at + 1 \in 1 .. n + 1 /\ end - (at + 1) + 1 = Len(r)
  BY <1>1, <1>3
<1>5. at + lead.more = end
  BY <1>3
<1> HIDE DEF end
<1>6. SubSeq(src, at + 1, end) = r
  <2>1. /\ SubSeq(src, at + 1, end) \in Seq(Nat) /\ Len(SubSeq(src, at + 1, end)) = Len(r)
        /\ \A i \in 1 .. Len(r) : SubSeq(src, at + 1, end)[i] = src[(at + 1) + i - 1]
    <3>1. n = Len(src)
      BY DEF n
    <3>2. /\ SubSeq(src, at + 1, end) \in Seq(Nat)
          /\ Len(SubSeq(src, at + 1, end)) = end - (at + 1) + 1
          /\ \A i \in 1 .. end - (at + 1) + 1 :
               SubSeq(src, at + 1, end)[i] = src[(at + 1) + i - 1]
      BY <1>4, <3>1, PartOfSeq, Zenon
    <3> QED  BY <1>4, <3>2, Zenon
  <2>2. \A i \in 1 .. Len(r) : (at + 1) + i - 1 = at + i
    BY <1>1, <1>3
  <2>3. \A i \in 1 .. Len(r) : SubSeq(src, at + 1, end)[i] = r[i]
    BY <1>3, <2>1, <2>2, Zenon
  <2> QED  BY <1>3, <2>1, <2>3, SameSeq, Zenon
<1>7. end = IF at + lead.more <= n THEN at + lead.more ELSE n
  BY <1>3, <1>5 DEF end
<1>8. u = Joined(lead.bits, SubSeq(src, at + 1, end))
  BY <1>3, <1>6, Zenon
<1>9. ~(end < at + lead.more) /\ ~(lead.more < 0) /\ u >= lead.range
  BY <1>1, <1>2, <1>3, <1>5
<1>10. Turn(src, s) = IF lead.more < 0 \/ ~(u >= lead.range)
                      THEN [s EXCEPT !.ok = FALSE]
                      ELSE [ok |-> TRUE, dst |-> Append(s.dst, u), next |-> end + 1]
  <2>1. at = s.next /\ n = Len(src) /\ lead = KindAt(src, s)
    BY DEF at, n, lead, KindAt
  <2>2. end = LastAt(src, s)
    BY <1>7, <2>1, Zenon DEF LastAt
  <2>3. u = ReadAt(src, s)
    BY <1>8, <2>1, <2>2, Zenon DEF ReadAt
  <2> QED  BY ONLY <1>9, <2>1, <2>2, <2>3, TurnCases, Zenon
<1>11. Turn(src, s) = [ok |-> TRUE, dst |-> Append(s.dst, u), next |-> end + 1]
  BY <1>9, <1>10
<1> QED  BY <1>11 DEF Read, end, at

LEMMA TurnIs ==
  ASSUME NEW src \in Seq(Nat), NEW s \in DecodeState, s.next <= Len(src)
  PROVE  /\ Turn(src, s) \in DecodeState
         /\ Turn(src, s).ok =>
              \E r, u : ReadsAt(src, s.next, r, u) /\ Turn(src, s) = Read(s, r, u)
<1> DEFINE at == s.next  n == Len(src)  lead == Kind(src[at])
           last == IF at + lead.more <= n THEN at + lead.more ELSE n
           r == SubSeq(src, at + 1, last)
           read == Joined(lead.bits, r)
           no == [s EXCEPT !.ok = FALSE]
<1>1. at \in 1 .. n /\ n \in Nat /\ src[at] \in Nat /\ s.dst \in Seq(Nat)
  BY DEF DecodeState
<1>2. lead.more \in -1 .. 3 /\ lead.bits \in Nat /\ lead.range \in Nat
  BY <1>1, KindIs
<1>3. no \in DecodeState /\ no.ok = FALSE
  BY DEF DecodeState
<1>4. /\ at = s.next /\ n = Len(src) /\ lead = Kind(src[at]) /\ lead = KindAt(src, s)
      /\ last = LastAt(src, s) /\ read = ReadAt(src, s)
  BY Zenon DEF KindAt, LastAt, ReadAt
<1> HIDE DEF lead, at, n, no, read
<1>6. /\ lead.more < 0 => Turn(src, s) = no
      /\ last < at + lead.more =>
           Turn(src, s) =
             IF lead.more < 0 \/ ~(read * 64 >= lead.range) THEN no
             ELSE [ok |-> FALSE, dst |-> Append(s.dst, read * 64), next |-> n + 2]
      /\ ~(last < at + lead.more) =>
           Turn(src, s) =
             IF lead.more < 0 \/ ~(read >= lead.range) THEN no
             ELSE [ok |-> TRUE, dst |-> Append(s.dst, read), next |-> last + 1]
  <2> HIDE DEF last
  <2> QED  BY ONLY <1>4, TurnCases, Zenon DEF no
<1>7. CASE lead.more < 0
  BY <1>3, <1>6, <1>7
<1>8. CASE ~(lead.more < 0)
  <2>1. lead.more \in 0 .. 3
    BY <1>2, <1>8
  <2>2. last \in at .. n /\ last <= at + lead.more
    BY <1>1, <2>1
  <2> HIDE DEF last
  <2>3. /\ at + 1 \in 1 .. n + 1 /\ last \in (at + 1) - 1 .. n
        /\ last - (at + 1) + 1 = last - at
    BY <1>1, <2>2
  <2>4. /\ r \in Seq(Nat) /\ Len(r) = last - at
        /\ \A i \in 1 .. last - at : r[i] = src[(at + 1) + i - 1]
    <3>1. /\ r \in Seq(Nat) /\ Len(r) = last - (at + 1) + 1
          /\ \A i \in 1 .. last - (at + 1) + 1 : r[i] = src[(at + 1) + i - 1]
      BY <1>4, <2>3, PartOfSeq, Zenon
    <3> QED  BY <2>3, <3>1, Zenon
  <2>5. \A i \in 1 .. last - at : r[i] = src[at + i]
    <3>1. \A i \in 1 .. last - at : (at + 1) + i - 1 = at + i
      BY <1>1, <2>2
    <3> QED  BY <2>4, <3>1, Zenon
  <2> HIDE DEF r
  <2>6. read = Joined(lead.bits, r)
    BY DEF read, r
  <2>7. read \in Nat
    BY <1>2, <2>4, <2>6, JoinedNat, Zenon
  <2>8. CASE last < at + lead.more
    <3>1. /\ read * 64 \in Nat
      BY <2>7
    <3>2. Append(s.dst, read * 64) \in Seq(Nat) /\ n + 2 \in Nat \ {0}
      BY <1>1, <3>1
    <3>3. CASE read * 64 >= lead.range
      <4>1. Turn(src, s) =
              [ok |-> FALSE, dst |-> Append(s.dst, read * 64), next |-> n + 2]
        BY <1>6, <1>8, <2>8, <3>3
      <4> QED  BY <3>2, <4>1 DEF DecodeState
    <3>4. CASE ~(read * 64 >= lead.range)
      BY <1>3, <1>6, <2>8, <3>4
    <3> QED  BY <3>3, <3>4
  <2>9. CASE ~(last < at + lead.more)
    <3>1. Append(s.dst, read) \in Seq(Nat) /\ last + 1 \in Nat \ {0}
      BY <1>1, <2>2, <2>7
    <3>2. CASE read >= lead.range
      <4>1. Turn(src, s) =
              [ok |-> TRUE, dst |-> Append(s.dst, read), next |-> last + 1]
        BY <1>6, <1>8, <2>9, <3>2
      <4>2. Turn(src, s) \in DecodeState
        BY <3>1, <4>1 DEF DecodeState
      <4>3. last = at + lead.more
        BY <1>1, <2>1, <2>2, <2>9
      <4>4. Len(r) = lead.more /\ Len(r) \in 0 .. 3 /\ at + Len(r) <= n
            /\ at + Len(r) + 1 = last + 1 /\ Len(r) = last - at
        BY <1>1, <2>1, <2>2, <2>4, <4>3
      <4>5. Reads(src[at], r, read)
        <5>1. lead = Kind(src[at])
          BY <1>4
        <5>2. lead.range <= read
          BY <1>2, <2>7, <3>2
        <5> QED  BY <1>1, <2>4, <2>6, <4>4, <5>1, <5>2 DEF Reads
      <4>6. ReadsAt(src, s.next, r, read)
        BY <1>4, <2>5, <2>7, <4>4, <4>5 DEF ReadsAt
      <4>7. Turn(src, s) = Read(s, r, read)
        BY <1>4, <4>1, <4>4 DEF Read
      <4> QED  BY <4>2, <4>6, <4>7, Zenon
    <3>3. CASE ~(read >= lead.range)
      BY <1>3, <1>6, <2>9, <3>3
    <3> QED  BY <3>2, <3>3
  <2> QED  BY <2>8, <2>9
<1> QED  BY <1>7, <1>8

LEMMA DecodeStepIn ==
  ASSUME NEW src \in Seq(Nat), NEW s \in DecodeState
  PROVE  DecodeStep(s, src) \in DecodeState
BY TurnIs, Zenon DEF DecodeStep

LEMMA DecodeLoop ==
  ASSUME NEW src \in Seq(Nat)
  PROVE  \E s \in [0 .. Len(src) -> DecodeState] :
           /\ s[0] = DecodeStart
           /\ \A i \in 1 .. Len(src) : s[i] = DecodeStep(s[i - 1], src)
           /\ FromUTF8(src) = [ok     |-> s[Len(src)].ok, dst |-> s[Len(src)].dst,
                               inside |-> s[Len(src)].next <= Len(src) + 1]
<1> DEFINE n == Len(src)
           step == [p \in (1 .. n) \X DecodeState |-> DecodeStep(p[2], src)]
           Is(f) == f = [i \in 0 .. n |-> IF i = 0 THEN DecodeStart
                                          ELSE DecodeStep(f[i - 1], src)]
           b == CHOOSE f : Is(f)
<1>1. n \in Nat
  OBVIOUS
<1>2. \A s \in DecodeState : DecodeStep(s, src) \in DecodeState
  BY DecodeStepIn
<1>3. step \in [(1 .. n) \X DecodeState -> DecodeState] /\ DecodeStart \in DecodeState
  <2>1. ASSUME NEW p \in (1 .. n) \X DecodeState
        PROVE  DecodeStep(p[2], src) \in DecodeState
    <3>1. p[2] \in DecodeState
      OBVIOUS
    <3> QED  BY <1>2, <3>1, Zenon
  <2>2. << >> \in Seq(Nat) /\ 1 \in Nat \ {0}
    OBVIOUS
  <2>3. DecodeStart \in DecodeState
    BY <2>2 DEF DecodeStart, DecodeState
  <2> QED  BY <2>1, <2>3
<1>4. PICK g \in [0 .. n -> DecodeState] :
        g[0] = DecodeStart /\ \A i \in 1 .. n : g[i] = step[<<i, g[i - 1]>>]
  <2>1. n \in Nat
    BY <1>1
  <2> HIDE DEF n, step
  <2>2. Runs(DecodeState, n, DecodeStart, step) # {}
    BY <1>3, <2>1, Loops, Zenon
  <2> QED  BY <2>2 DEF Runs
<1>5. ASSUME NEW i \in 1 .. n PROVE g[i] = DecodeStep(g[i - 1], src)
  <2>1. i - 1 \in 0 .. n
    BY <1>1
  <2>2. <<i, g[i - 1]>> \in (1 .. n) \X DecodeState
    BY <2>1
  <2> QED  BY <1>4, <2>2
<1> HIDE DEF n, step
<1>6. Is(b)
  <2>1. Is(g)
    BY <1>1, <1>4, <1>5
  <2> HIDE DEF Is
  <2> QED  BY <2>1
<1>7. FromUTF8(src) = [ok |-> b[n].ok, dst |-> b[n].dst, inside |-> b[n].next <= n + 1]
  BY Zenon DEF FromUTF8, DecodeStep, DecodeStart, n
<1> DEFINE Good == {i \in 0 .. n : b[i] = g[i]}
<1> HIDE DEF b
<1>8. 0 \in Good
  BY <1>1, <1>4, <1>6
<1>9. ASSUME NEW i \in 1 .. n, i - 1 \in Good PROVE i \in Good
  <2>1. b[i] = DecodeStep(b[i - 1], src) /\ b[i - 1] = g[i - 1]
    BY <1>1, <1>6, <1>9
  <2>2. b[i] = g[i]
    BY <1>5, <2>1
  <2> QED  BY <2>2
<1>10. n \in Good
  <2>1. \A i \in 1 .. n : i - 1 \in Good => i \in Good
    BY <1>9
  <2>2. n \in 0 .. n
    BY <1>1
  <2> HIDE DEF Good
  <2> QED  BY <1>1, <1>8, <2>1, <2>2, UpTo
<1>11. b[n] = g[n]
  BY <1>10
<1>12. FromUTF8(src) = [ok |-> g[n].ok, dst |-> g[n].dst, inside |-> g[n].next <= n + 1]
  BY <1>7, <1>11
<1> QED  BY <1>4, <1>5, <1>12 DEF n

LEMMA BeginsTwice ==
  ASSUME NEW r \in Seq(Nat), NEW s \in Seq(Nat), NEW t \in Seq(Nat),
         Begins(r, s), Begins(s, t)
  PROVE  Begins(r, t)
BY DEF Begins

LEMMA OneMore ==
  ASSUME NEW s \in Seq(Nat), NEW u \in Nat
  PROVE  /\ Append(s, u) \in Seq(Nat) /\ Len(Append(s, u)) = Len(s) + 1
         /\ Append(s, u)[Len(s) + 1] = u
         /\ \A k \in 1 .. Len(s) : Append(s, u)[k] = s[k]
OBVIOUS

(* After i turns, i characters of the text have been read, from as many      *)
(* octets as are in written.                                                 *)
HasRead(s, text, i, written) ==
  /\ s.ok = TRUE /\ s.next = Len(written) + 1
  /\ s.dst \in Seq(Nat) /\ Len(s.dst) = i /\ \A k \in 1 .. i : s.dst[k] = text[k]

(* One character: what has been written before is in written, and src begins *)
(* with this and with what is written for the character.                     *)
LEMMA ReadsNext ==
  ASSUME NEW src \in Seq(Nat), NEW text \in Seq(Nat), NEW i \in 1 .. Len(text),
         NEW written \in Seq(Nat), CanEncode(text[i]),
         Begins(src, EncodeStep(written, text[i])),
         NEW s \in DecodeState, HasRead(s, text, i - 1, written)
  PROVE  HasRead(DecodeStep(s, src), text, i, EncodeStep(written, text[i]))
<1> DEFINE u == text[i]  all == EncodeStep(written, u)
<1>1. /\ u \in Nat /\ Len(text) \in Nat /\ i \in Nat /\ i - 1 \in Nat /\ Len(src) \in Nat
      /\ Len(written) \in Nat
  OBVIOUS
<1> HIDE DEF u
<1>2. PICK o, r : Led(Octets(u), o, r) /\ Reads(o, r, u)
  BY <1>1, OctetsRead DEF u
<1>3. /\ Octets(u) \in Seq(Nat) /\ Len(Octets(u)) = Len(r) + 1 /\ Octets(u)[1] = o
      /\ \A j \in 1 .. Len(r) : Octets(u)[j + 1] = r[j]
  BY <1>2 DEF Led
<1>4. r \in Seq(Nat) /\ Len(r) \in Nat /\ o \in Nat
  BY <1>2 DEF Reads
<1>5. all = written \o Octets(u)
  BY DEF EncodeStep, Part, u
<1> HIDE DEF all
<1>6. /\ all \in Seq(Nat) /\ Len(all) = Len(written) + Len(r) + 1
      /\ \A k \in 1 .. Len(r) + 1 : all[Len(written) + k] = Octets(u)[k]
  <2>1. /\ all \in Seq(Nat) /\ Len(all) = Len(written) + Len(Octets(u))
        /\ \A k \in 1 .. Len(Octets(u)) : all[Len(written) + k] = Octets(u)[k]
    BY <1>3, <1>5, Joins
  <2> QED  BY <1>1, <1>3, <1>4, <2>1
<1>7. Begins(src, all)
  BY DEF all, u
<1>8. /\ Len(written) + Len(r) + 1 <= Len(src)
      /\ \A k \in 1 .. Len(r) + 1 : src[Len(written) + k] = Octets(u)[k]
  <2>1. \A k \in 1 .. Len(r) + 1 : Len(written) + k \in 1 .. Len(all)
    BY <1>1, <1>4, <1>6
  <2>2. \A k \in 1 .. Len(all) : src[k] = all[k]
    BY <1>7 DEF Begins
  <2>3. \A k \in 1 .. Len(r) + 1 : src[Len(written) + k] = all[Len(written) + k]
    BY <2>1, <2>2, Zenon
  <2>4. Len(all) <= Len(src)
    BY <1>7 DEF Begins
  <2> QED  BY <1>6, <2>3, <2>4
<1>9. /\ s.next = Len(written) + 1 /\ s.ok = TRUE /\ s.dst \in Seq(Nat)
      /\ Len(s.dst) = i - 1 /\ \A k \in 1 .. i - 1 : s.dst[k] = text[k]
  BY DEF HasRead
<1>10. src[s.next] = o
  <2>1. 1 \in 1 .. Len(r) + 1
    BY <1>4
  <2>2. src[Len(written) + 1] = Octets(u)[1]
    BY <1>8, <2>1, Zenon
  <2> QED  BY <1>3, <1>9, <2>2, Zenon
<1>11. \A j \in 1 .. Len(r) : r[j] = src[s.next + j]
  <2>1. ASSUME NEW j \in 1 .. Len(r) PROVE r[j] = src[s.next + j]
    <3>1. j + 1 \in 1 .. Len(r) + 1 /\ s.next + j = Len(written) + (j + 1)
      BY <1>1, <1>4, <1>9
    <3>2. src[Len(written) + (j + 1)] = Octets(u)[j + 1]
      BY <1>8, <3>1, Zenon
    <3> QED  BY <1>3, <3>1, <3>2, Zenon
  <2> QED  BY <2>1
<1>12. s.next <= Len(src) /\ s.next + Len(r) <= Len(src)
  BY <1>1, <1>4, <1>8, <1>9
<1>13. ReadsAt(src, s.next, r, u)
  BY <1>1, <1>2, <1>10, <1>11, <1>12 DEF ReadsAt
<1>14. DecodeStep(s, src) = Read(s, r, u)
  <2>1. Turn(src, s) = Read(s, r, u)
    BY <1>12, <1>13, TurnReads
  <2> QED  BY <1>9, <1>12, <2>1 DEF DecodeStep
<1>15. /\ Append(s.dst, u) \in Seq(Nat) /\ Len(Append(s.dst, u)) = i
       /\ \A k \in 1 .. i : Append(s.dst, u)[k] = text[k]
  <2>1. /\ Append(s.dst, u) \in Seq(Nat) /\ Len(Append(s.dst, u)) = (i - 1) + 1
        /\ Append(s.dst, u)[(i - 1) + 1] = u
        /\ \A k \in 1 .. i - 1 : Append(s.dst, u)[k] = s.dst[k]
    BY <1>1, <1>9, OneMore
  <2>2. \A k \in 1 .. i : k \in 1 .. i - 1 \/ k = i
    BY <1>1
  <2>3. (i - 1) + 1 = i
    BY <1>1
  <2>4. u = text[i]
    BY DEF u
  <2> QED  BY <1>9, <2>1, <2>2, <2>3, <2>4, Zenon
<1>16. s.next + Len(r) + 1 = Len(all) + 1
  BY <1>1, <1>4, <1>6, <1>9
<1>17. HasRead(Read(s, r, u), text, i, all)
  BY <1>15, <1>16 DEF HasRead, Read
<1> QED  BY <1>14, <1>17 DEF all, u

(* What ToUTF8 writes for a text that it can encode is read as this text.    *)
LEMMA TextComesBack ==
  ASSUME NEW text \in Seq(Nat), \A i \in 1 .. Len(text) : CanEncode(text[i])
  PROVE  FromUTF8(ToUTF8(text).dst) = [ok |-> TRUE, dst |-> text, inside |-> TRUE]
<1> DEFINE m == Len(text)  src == ToUTF8(text).dst
<1>1. m \in Nat
  OBVIOUS
<1>2. PICK e \in [0 .. m -> Seq(Nat)] :
        /\ e[0] = << >> /\ \A i \in 1 .. m : e[i] = EncodeStep(e[i - 1], text[i])
        /\ src = e[m]
  BY EncodeLoop
<1> DEFINE n == Len(src)
<1>3. src \in Seq(Nat) /\ n \in Nat
  <2>1. m \in 0 .. m
    BY <1>1
  <2>2. e[m] \in Seq(Nat)
    BY <2>1
  <2> QED  BY <1>2, <2>2
<1>4. PICK s \in [0 .. n -> DecodeState] :
        /\ s[0] = DecodeStart /\ \A i \in 1 .. n : s[i] = DecodeStep(s[i - 1], src)
        /\ FromUTF8(src) = [ok |-> s[n].ok, dst |-> s[n].dst, inside |-> s[n].next <= n + 1]
  BY <1>3, DecodeLoop
<1> HIDE DEF m, src
<1>5. \A i \in 0 .. m : e[i] \in Seq(Nat) /\ Len(e[i]) \in Nat
  OBVIOUS
<1>6. ASSUME NEW i \in 1 .. m
      PROVE  /\ text[i] \in Nat /\ CanEncode(text[i]) /\ Begins(e[i], e[i - 1])
             /\ Len(e[i]) > Len(e[i - 1]) /\ i - 1 \in 0 .. m /\ i \in 0 .. m
  <2>1. i - 1 \in 0 .. m /\ i \in 0 .. m
    BY <1>1
  <2>2. text[i] \in Nat /\ CanEncode(text[i])
    BY DEF m
  <2>3. PICK o, r : Led(Octets(text[i]), o, r) /\ Reads(o, r, text[i])
    BY <2>2, OctetsRead
  <2>4. Octets(text[i]) \in Seq(Nat) /\ Len(Octets(text[i])) >= 1
    BY <2>3 DEF Led, Reads
  <2>5. e[i] = e[i - 1] \o Octets(text[i])
    BY <1>2, <2>2 DEF EncodeStep, Part
  <2>6. e[i - 1] \in Seq(Nat) /\ Len(e[i - 1]) \in Nat
    BY <1>5, <2>1
  <2>7. Len(e[i]) = Len(e[i - 1]) + Len(Octets(text[i])) /\ Begins(e[i], e[i - 1])
    BY <2>4, <2>5, <2>6, Joins
  <2>8. Len(Octets(text[i])) \in Nat
    BY <2>4
  <2>9. Len(e[i]) > Len(e[i - 1])
    <3>1. PICK a \in Nat, b \in Nat : a = Len(e[i - 1]) /\ b = Len(Octets(text[i]))
      BY <2>6, <2>8, Zenon
    <3>2. Len(e[i]) = a + b /\ b >= 1
      BY <2>4, <2>7, <3>1, Zenon
    <3>3. a + b > a
      BY ONLY <3>2, a \in Nat, b \in Nat
    <3> QED  BY <3>1, <3>2, <3>3, Zenon
  <2> QED  BY <2>1, <2>2, <2>7, <2>9
<1>7. \A i \in 0 .. m : Begins(src, e[i])
  <2> DEFINE Good == {i \in 0 .. m : \A j \in 0 .. i : Begins(e[i], e[j])}
  <2>1. 0 \in Good
    <3>1. Begins(e[0], e[0])
      BY <1>1, <1>5 DEF Begins
    <3>2. \A j \in 0 .. 0 : j = 0
      OBVIOUS
    <3>3. 0 \in 0 .. m
      BY <1>1
    <3> QED  BY <3>1, <3>2, <3>3
  <2>2. ASSUME NEW i \in 1 .. m, i - 1 \in Good PROVE i \in Good
    <3>1. ASSUME NEW j \in 0 .. i PROVE Begins(e[i], e[j])
      <4>1. CASE j = i
        <5>1. e[i] \in Seq(Nat)
          BY <1>5, <1>6
        <5> QED  BY <4>1, <5>1 DEF Begins
      <4>2. CASE j # i
        <5>1. j \in 0 .. i - 1 /\ j \in 0 .. m
          BY <1>1, <4>2
        <5>2. Begins(e[i - 1], e[j])
          BY <2>2, <5>1
        <5>3. Begins(e[i], e[i - 1])
          BY <1>6
        <5>4. e[i] \in Seq(Nat) /\ e[i - 1] \in Seq(Nat) /\ e[j] \in Seq(Nat)
          BY <1>5, <1>6, <5>1
        <5> QED  BY <5>2, <5>3, <5>4, BeginsTwice
      <4> QED  BY <4>1, <4>2
    <3> QED  BY <1>6, <3>1
  <2>3. m \in Good
    <3>1. \A i \in 1 .. m : i - 1 \in Good => i \in Good
      BY <2>2
    <3>2. m \in 0 .. m
      BY <1>1
    <3> HIDE DEF Good
    <3> QED  BY <1>1, <2>1, <3>1, <3>2, UpTo
  <2> QED  BY <1>2, <2>3
<1>8. \A i \in 0 .. m : Len(e[i]) >= i
  <2> DEFINE Good == {i \in 0 .. m : Len(e[i]) >= i}
  <2>1. 0 \in Good
    BY <1>1, <1>5
  <2>2. ASSUME NEW i \in 1 .. m, i - 1 \in Good PROVE i \in Good
    <3>1. Len(e[i - 1]) >= i - 1
      BY <2>2
    <3>2. Len(e[i]) \in Nat /\ Len(e[i - 1]) \in Nat
      BY <1>5, <1>6
    <3>3. Len(e[i]) >= i
      BY <1>6, <3>1, <3>2
    <3> QED  BY <1>6, <3>3
  <2>3. \A i \in 1 .. m : i - 1 \in Good => i \in Good
    BY <2>2
  <2>4. \A i \in 0 .. m : i \in Good
    <3> HIDE DEF Good
    <3> QED  BY <1>1, <2>1, <2>3, UpTo
  <2> QED  BY <2>4
<1>9. m <= n
  <2>1. m \in 0 .. m
    BY <1>1
  <2> QED  BY <1>2, <1>8, <2>1
<1>10. HasRead(s[m], text, m, e[m])
  <2> DEFINE Good == {i \in 0 .. m : HasRead(s[i], text, i, e[i])}
  <2>1. 0 \in Good
    <3>1. << >> \in Seq(Nat) /\ Len(<< >>) = 0
      OBVIOUS
    <3>2. HasRead(DecodeStart, text, 0, << >>)
      BY <3>1 DEF HasRead, DecodeStart
    <3>3. 0 \in 0 .. m
      BY <1>1
    <3> QED  BY <1>2, <1>4, <3>2, <3>3
  <2>2. ASSUME NEW i \in 1 .. m, i - 1 \in Good PROVE i \in Good
    <3>1. HasRead(s[i - 1], text, i - 1, e[i - 1])
      BY <2>2
    <3>2. i - 1 \in 0 .. n /\ i \in 1 .. n
      BY <1>1, <1>3, <1>9
    <3>3. s[i - 1] \in DecodeState /\ e[i - 1] \in Seq(Nat)
      BY <1>5, <1>6, <3>2
    <3>4. e[i] = EncodeStep(e[i - 1], text[i]) /\ s[i] = DecodeStep(s[i - 1], src)
      BY <1>2, <1>4, <3>2
    <3>5. Begins(src, EncodeStep(e[i - 1], text[i]))
      BY <1>6, <1>7, <3>4
    <3>6. i \in 1 .. Len(text)
      BY DEF m
    <3>7. HasRead(DecodeStep(s[i - 1], src), text, i, EncodeStep(e[i - 1], text[i]))
      BY <1>3, <1>6, <3>1, <3>3, <3>5, <3>6, ReadsNext, Zenon
    <3> QED  BY <1>6, <3>4, <3>7
  <2>3. m \in Good
    <3>1. \A i \in 1 .. m : i - 1 \in Good => i \in Good
      BY <2>2
    <3>2. m \in 0 .. m
      BY <1>1
    <3> HIDE DEF Good
    <3> QED  BY <1>1, <2>1, <3>1, <3>2, UpTo
  <2> QED  BY <2>3
<1>11. /\ s[m].ok = TRUE /\ s[m].next = n + 1 /\ s[m].dst \in Seq(Nat)
       /\ Len(s[m].dst) = m /\ \A k \in 1 .. m : s[m].dst[k] = text[k]
  BY <1>2, <1>10 DEF HasRead
<1>12. s[n] = s[m]
  <2> DEFINE Good == {i \in 0 .. n : i >= m => s[i] = s[m]}
  <2>1. 0 \in Good
    BY <1>1, <1>3
  <2>2. ASSUME NEW i \in 1 .. n, i - 1 \in Good PROVE i \in Good
    <3>1. CASE i <= m
      <4>1. i >= m => i = m
        BY <1>1, <3>1
      <4> QED  BY <1>3, <4>1
    <3>2. CASE ~(i <= m)
      <4>1. s[i - 1] = s[m]
        BY <1>1, <2>2, <3>2
      <4>2. ~(s[m].next <= n)
        BY <1>3, <1>11
      <4>3. DecodeStep(s[m], src) = s[m]
        BY <4>2 DEF DecodeStep
      <4>4. s[i] = s[m]
        BY <1>4, <4>1, <4>3
      <4> QED  BY <1>3, <4>4
    <3> QED  BY <3>1, <3>2
  <2>3. n \in Good
    <3>1. \A i \in 1 .. n : i - 1 \in Good => i \in Good
      BY <2>2
    <3>2. n \in 0 .. n
      BY <1>3
    <3> HIDE DEF Good
    <3> QED  BY <1>3, <2>1, <3>1, <3>2, UpTo
  <2> QED  BY <1>9, <2>3
<1>13. s[m].dst = text
  <2>1. Len(s[m].dst) = Len(text)
    BY <1>11 DEF m
  <2>2. \A k \in 1 .. Len(s[m].dst) : s[m].dst[k] = text[k]
    BY <1>11
  <2> QED  BY <1>11, <2>1, <2>2, SameSeq
<1>14. s[n].next <= n + 1
  BY <1>3, <1>11, <1>12
<1>15. FromUTF8(src) = [ok |-> TRUE, dst |-> text, inside |-> TRUE]
  BY <1>4, <1>11, <1>12, <1>13, <1>14
<1> QED  BY <1>15 DEF src

(* After k turns that went well, what ToUTF8 would write for the characters  *)
(* read is what stands in src up to here, if it can write them.              *)
Encodable(text) == \A i \in 1 .. Len(text) : CanEncode(text[i])
Rewrites(s, src, starts, k) ==
  s.ok /\ Encodable(s.dst) =>
    /\ s.next \in starts /\ s.next \in 1 .. Len(src) + 1
    /\ s.next > k \/ s.next = Len(src) + 1
    /\ ToUTF8(s.dst).dst \in Seq(Nat) /\ Len(ToUTF8(s.dst).dst) = s.next - 1
    /\ Begins(src, ToUTF8(s.dst).dst)

(* Positions at which complete characters begin.                             *)
Starts(starts, src) ==
  /\ starts \subseteq 1 .. Len(src) + 1 /\ 1 \in starts
  /\ \A i \in starts \ {Len(src) + 1} :
       LET next == i + Kind(src[i]).more + 1
       IN /\ next > i /\ next \in starts
          /\ \A j \in (i + 1) .. (next - 1) : Continues(src[j])

LEMMA RewritesNext ==
  ASSUME NEW src \in Seq(Nat), NEW starts, Starts(starts, src),
         NEW k \in 1 .. Len(src), NEW s \in DecodeState, Rewrites(s, src, starts, k - 1)
  PROVE  Rewrites(DecodeStep(s, src), src, starts, k)
<1> DEFINE n == Len(src)  t == DecodeStep(s, src)
<1>1. n \in Nat /\ k \in 1 .. n /\ s.next \in Nat \ {0} /\ s.dst \in Seq(Nat)
  BY DEF DecodeState
<1>2. CASE ~s.ok
  BY <1>2, Zenon DEF DecodeStep, Rewrites
<1>3. CASE s.ok /\ ~(s.next <= n)
  <2>1. t = s
    BY <1>3 DEF DecodeStep
  <2> HIDE DEF t
  <2>2. ASSUME s.ok, Encodable(s.dst) PROVE s.next > k \/ s.next = n + 1
    BY <1>1, <1>3
  <2>3. Rewrites(s, src, starts, k)
    BY <2>2 DEF Rewrites
  <2> QED  BY <2>1, <2>3 DEF t
<1>4. CASE s.ok /\ s.next <= n
  <2>1. t = Turn(src, s)
    BY <1>4 DEF DecodeStep
  <2> HIDE DEF t
  <2>2. SUFFICES ASSUME t.ok, Encodable(t.dst)
        PROVE /\ t.next \in starts /\ t.next \in 1 .. n + 1 /\ t.next > k
              /\ ToUTF8(t.dst).dst \in Seq(Nat) /\ Len(ToUTF8(t.dst).dst) = t.next - 1
              /\ Begins(src, ToUTF8(t.dst).dst)
    BY DEF Rewrites, t
  <2>3. PICK r, u : ReadsAt(src, s.next, r, u) /\ t = Read(s, r, u)
    <3>1. Turn(src, s).ok
      BY <2>1, <2>2
    <3>2. \E r, u : ReadsAt(src, s.next, r, u) /\ Turn(src, s) = Read(s, r, u)
      BY <1>4, <3>1, TurnIs
    <3> QED  BY <2>1, <3>2, Zenon
  <2>4. /\ Reads(src[s.next], r, u) /\ u \in Nat /\ s.next + Len(r) <= n
        /\ \A i \in 1 .. Len(r) : r[i] = src[s.next + i]
    BY <2>3 DEF ReadsAt
  <2>5. r \in Seq(Nat) /\ Len(r) \in Nat /\ Kind(src[s.next]).more = Len(r)
    BY <2>4 DEF Reads
  <2>6. t.dst = Append(s.dst, u) /\ t.next = s.next + Len(r) + 1
    BY <2>3 DEF Read
  <2>21. /\ s.next \in Nat \ {0} /\ Len(r) \in Nat /\ t.next = s.next + Len(r) + 1
         /\ s.next + Len(r) <= n /\ n \in Nat
    BY <1>1, <2>4, <2>5, <2>6, Zenon
  <2>7. /\ t.dst \in Seq(Nat) /\ Len(t.dst) = Len(s.dst) + 1 /\ t.dst[Len(s.dst) + 1] = u
        /\ \A i \in 1 .. Len(s.dst) : t.dst[i] = s.dst[i]
    BY <1>1, <2>4, <2>6, OneMore
  <2>8. CanEncode(u) /\ Encodable(s.dst)
    <3>1. Len(s.dst) \in Nat
      BY <1>1
    <3>2. /\ Len(s.dst) + 1 \in 1 .. Len(t.dst)
          /\ \A i \in 1 .. Len(s.dst) : i \in 1 .. Len(t.dst)
      BY <2>7, <3>1
    <3> QED  BY <2>2, <2>7, <3>2, Zenon DEF Encodable
  <2>9. /\ s.next \in starts /\ s.next > k - 1 /\ Begins(src, ToUTF8(s.dst).dst)
        /\ ToUTF8(s.dst).dst \in Seq(Nat) /\ Len(ToUTF8(s.dst).dst) = s.next - 1
    <3>1. s.next # n + 1
      BY <1>1, <1>4
    <3> QED  BY <1>4, <2>8, <3>1 DEF Rewrites
  <2>10. t.next \in starts /\ \A j \in s.next + 1 .. t.next - 1 : Continues(src[j])
    <3>1. s.next # n + 1
      BY <1>1, <1>4
    <3>2. s.next + Kind(src[s.next]).more + 1 = t.next
      BY <2>5, <2>6
    <3>3. s.next \in starts \ {Len(src) + 1}
      BY <2>9, <3>1
    <3> QED  BY <3>2, <3>3, Zenon DEF Starts
  <2>11. \A i \in 1 .. Len(r) : Continues(r[i])
    <3>1. \A i \in 1 .. Len(r) : s.next + i \in s.next + 1 .. t.next - 1
      BY ONLY <2>21
    <3> QED  BY <2>4, <2>10, <3>1, Zenon
  <2>12. Led(Octets(u), src[s.next], r)
    BY <2>4, <2>8, <2>11, OctetsBack, Zenon
  <2> DEFINE before == ToUTF8(s.dst).dst  after == ToUTF8(t.dst).dst
  <2>13. after = before \o Octets(u)
    <3>1. after = before \o Part(u)
      BY <1>1, <2>4, <2>6, EncodeMore
    <3> QED  BY <2>8, <3>1 DEF Part
  <2>14. before \in Seq(Nat) /\ Len(before) = s.next - 1 /\ Begins(src, before)
    BY <2>9
  <2> HIDE DEF before, after
  <2>15. /\ Octets(u) \in Seq(Nat) /\ Len(Octets(u)) = Len(r) + 1
         /\ Octets(u)[1] = src[s.next]
         /\ \A i \in 1 .. Len(r) : Octets(u)[i + 1] = r[i]
    BY <2>12 DEF Led
  <2>16. /\ after \in Seq(Nat) /\ Len(after) = Len(before) + Len(Octets(u))
         /\ Begins(after, before)
         /\ \A i \in 1 .. Len(Octets(u)) : after[Len(before) + i] = Octets(u)[i]
    BY <2>13, <2>14, <2>15, Joins
  <2>17. Len(after) = t.next - 1 /\ Len(after) <= n
    <3>1. /\ Len(before) = s.next - 1 /\ Len(Octets(u)) = Len(r) + 1
          /\ Len(after) = Len(before) + Len(Octets(u))
      BY <2>14, <2>15, <2>16
    <3>2. Len(after) = (s.next - 1) + (Len(r) + 1)
      BY ONLY <3>1, Zenon
    <3>3. (s.next - 1) + (Len(r) + 1) = t.next - 1 /\ (s.next - 1) + (Len(r) + 1) <= n
      BY ONLY <2>21
    <3> QED  BY ONLY <3>2, <3>3, Zenon
  <2>18. ASSUME NEW i \in 1 .. Len(after) PROVE src[i] = after[i]
    <3>1. CASE i < s.next
      <4>1. i \in 1 .. Len(before)
        BY <1>1, <2>14, <3>1
      <4> QED  BY <2>14, <2>16, <4>1 DEF Begins
    <3>2. CASE i = s.next
      <4>1. 1 \in 1 .. Len(Octets(u)) /\ Len(before) + 1 = i
        BY <1>1, <2>5, <2>14, <2>15, <3>2
      <4> QED  BY <2>15, <2>16, <3>2, <4>1
    <3>3. CASE i > s.next
      <4>1. PICK j \in 1 .. Len(r) : i = s.next + j
        <5>1. i - s.next \in 1 .. Len(r) /\ i = s.next + (i - s.next)
          BY ONLY <2>17, <2>21, <3>3, i \in 1 .. Len(after)
        <5> QED  BY ONLY <5>1, Zenon
      <4>2. j + 1 \in 1 .. Len(Octets(u)) /\ Len(before) + (j + 1) = i
        <5>1. Len(before) = s.next - 1 /\ Len(Octets(u)) = Len(r) + 1
          BY <2>14, <2>15
        <5>2. j + 1 \in 1 .. Len(r) + 1 /\ (s.next - 1) + (j + 1) = i
          BY ONLY <2>21, <4>1
        <5> QED  BY ONLY <5>1, <5>2, Zenon
      <4>3. after[i] = Octets(u)[j + 1]
        BY <2>16, <4>2
      <4> QED  BY <2>4, <2>15, <4>1, <4>3
    <3> QED  BY <1>1, <2>17, <3>1, <3>2, <3>3
  <2>19. Begins(src, after)
    BY <2>17, <2>18 DEF Begins
  <2>20. t.next \in 1 .. n + 1 /\ t.next > k
    <3>1. s.next > k - 1 /\ k \in Nat
      BY <1>1, <2>9
    <3> QED  BY ONLY <2>21, <3>1
  <2> QED  BY <2>10, <2>16, <2>17, <2>19, <2>20 DEF after
<1> QED  BY <1>2, <1>3, <1>4

LEMMA OctetsComeBack ==
  ASSUME NEW src \in Seq(Nat), FromUTF8(src).ok, Shaped(src),
         Encodable(FromUTF8(src).dst)
  PROVE  ToUTF8(FromUTF8(src).dst).dst = src
<1> DEFINE n == Len(src)
<1>1. n \in Nat
  OBVIOUS
<1>2. PICK starts : Starts(starts, src)
  BY Zenon DEF Shaped, Starts
<1>3. PICK s \in [0 .. n -> DecodeState] :
        /\ s[0] = DecodeStart /\ \A i \in 1 .. n : s[i] = DecodeStep(s[i - 1], src)
        /\ FromUTF8(src) = [ok |-> s[n].ok, dst |-> s[n].dst, inside |-> s[n].next <= n + 1]
  BY DecodeLoop
<1>4. FromUTF8(src).dst = s[n].dst /\ s[n].ok
  BY <1>3
<1> DEFINE Good == {i \in 0 .. n : Rewrites(s[i], src, starts, i)}
<1>5. 0 \in Good
  <2>1. << >> \in Seq(Nat) /\ Len(<< >>) = 0
    OBVIOUS
  <2>2. Begins(src, << >>)
    BY <1>1, <2>1 DEF Begins
  <2>3. ToUTF8(<< >>).dst = << >>
    BY EncodeNone
  <2>4. 1 \in starts
    BY <1>2 DEF Starts
  <2>5. Rewrites(DecodeStart, src, starts, 0)
    BY <1>1, <2>1, <2>2, <2>3, <2>4 DEF Rewrites, DecodeStart
  <2> QED  BY <1>1, <1>3, <2>5
<1>6. ASSUME NEW i \in 1 .. n, i - 1 \in Good PROVE i \in Good
  <2>1. i - 1 \in 0 .. n /\ i \in 0 .. n
    BY <1>1
  <2>2. s[i - 1] \in DecodeState /\ s[i] = DecodeStep(s[i - 1], src)
    BY <1>3, <2>1
  <2>3. Rewrites(s[i - 1], src, starts, i - 1)
    BY <1>6
  <2>4. Rewrites(DecodeStep(s[i - 1], src), src, starts, i)
    BY <1>2, <2>2, <2>3, RewritesNext
  <2> QED  BY <2>1, <2>2, <2>4
<1>7. Rewrites(s[n], src, starts, n)
  <2>1. \A i \in 1 .. n : i - 1 \in Good => i \in Good
    BY <1>6
  <2>2. n \in 0 .. n
    BY <1>1
  <2>3. n \in Good
    <3> HIDE DEF Good, n
    <3> QED  BY <1>1, <1>5, <2>1, <2>2, UpTo
  <2> QED  BY <2>3
<1> DEFINE text == FromUTF8(src).dst
<1>8. /\ ToUTF8(text).dst \in Seq(Nat) /\ Len(ToUTF8(text).dst) = s[n].next - 1
      /\ Begins(src, ToUTF8(text).dst) /\ s[n].next \in 1 .. n + 1
      /\ s[n].next > n \/ s[n].next = n + 1
  BY <1>4, <1>7 DEF Rewrites
<1> HIDE DEF text
<1>9. Len(ToUTF8(text).dst) = n
  BY <1>1, <1>8
<1>10. \A i \in 1 .. n : src[i] = ToUTF8(text).dst[i]
  BY <1>8, <1>9 DEF Begins
<1>11. ToUTF8(text).dst = src
  BY <1>8, <1>9, <1>10, SameSeq
<1> QED  BY <1>11 DEF text

(* For texts and strings of any length: a text that can be encoded comes     *)
(* back as it was, one that cannot is refused, and of the ways to write a    *)
(* character only the shortest is accepted.                                  *)
THEOREM Utf8Converted == Spec => []Utf8Exact
<1> DEFINE Inv == /\ kind = "text" => input \in Seq(Nat)
                  /\ kind = "octets" => input \in Seq(Nat)
           vars == <<kind, input>>
<1>1. Init => Inv
  <2>1. << >> \in Seq(Nat) /\ "number" # "text" /\ "number" # "octets"
    OBVIOUS
  <2> QED  BY <2>1 DEF Init
<1>2. Inv /\ [Next]_vars => Inv'
  BY PureAssumption DEF Next, NextCharacter, NextOctet, Tick, Grow
<1>3. Inv => TextRoundTrip
  <2>1. SUFFICES ASSUME input \in Seq(Nat)
        PROVE /\ ToUTF8(input).ok <=> \A i \in DOMAIN input : CanEncode(input[i])
              /\ ToUTF8(input).ok => FromUTF8(ToUTF8(input).dst)
                                       = [ok |-> TRUE, dst |-> input, inside |-> TRUE]
    BY DEF TextRoundTrip
  <2>2. ToUTF8(input).ok = \A i \in DOMAIN input : CanEncode(input[i])
    BY DEF ToUTF8
  <2>3. DOMAIN input = 1 .. Len(input)
    BY <2>1
  <2> QED  BY <2>1, <2>2, <2>3, TextComesBack
<1>4. Inv => OnlyShortest
  <2>1. SUFFICES ASSUME input \in Seq(Nat), FromUTF8(input).ok, Shaped(input),
                        ToUTF8(FromUTF8(input).dst).ok
        PROVE ToUTF8(FromUTF8(input).dst).dst = input
    BY DEF OnlyShortest
  <2>2. PICK text : text = FromUTF8(input).dst /\ text \in Seq(Nat)
    <3>1. Len(input) \in 0 .. Len(input)
      BY <2>1
    <3>2. PICK s \in [0 .. Len(input) -> DecodeState] :
            FromUTF8(input).dst = s[Len(input)].dst
      BY <2>1, DecodeLoop
    <3>3. s[Len(input)] \in DecodeState
      BY <3>1
    <3> QED  BY <3>2, <3>3 DEF DecodeState
  <2>3. Encodable(text)
    <3>1. ToUTF8(text).ok = \A i \in DOMAIN text : CanEncode(text[i])
      BY DEF ToUTF8
    <3>2. DOMAIN text = 1 .. Len(text)
      BY <2>2
    <3> QED  BY <2>1, <2>2, <3>1, <3>2 DEF Encodable
  <2> QED  BY <2>1, <2>2, <2>3, OctetsComeBack
<1> QED  BY <1>1, <1>2, <1>3, <1>4, PTL DEF Spec, Utf8Exact

(* ------------------------------- the clock ------------------------------- *)

(* A number is its quotient and its remainder, and there is one way only.    *)
LEMMA Divided ==
  ASSUME NEW a \in Nat, NEW d \in Nat \ {0}
  PROVE  /\ a \div d \in Nat /\ a % d \in 0 .. d - 1
         /\ a = d * (a \div d) + (a % d)
  OBVIOUS

LEMMA Distributes ==
  ASSUME NEW a \in Nat, NEW b \in Nat, NEW c \in Nat
  PROVE  a * (b + c) = a * b + a * c /\ (b + c) * a = a * b + a * c
  OBVIOUS

(* A remainder of seconds, in milliseconds, and the milliseconds beyond it   *)
(* are less than a period.                                                   *)
LEMMA WithinPeriod ==
  ASSUME NEW p \in Nat \ {0}, NEW s \in Nat \ {0},
         NEW kept \in 0 .. s - 1, NEW ms \in 0 .. p - 1
  PROVE  kept * p + ms \in 0 .. p * s - 1
<1>1. PICK more \in Nat : s = kept + 1 + more
  <2>1. s - kept - 1 \in Nat /\ s = kept + 1 + (s - kept - 1)  OBVIOUS
  <2> QED  BY <2>1
<1>2. p * s = p * kept + p + p * more
  BY <1>1
<1>3. p * more \in Nat /\ p * kept \in Nat /\ kept * p = p * kept
  BY <1>1
<1> QED  BY <1>2, <1>3

(* The clock is the time without some number of whole periods.               *)
LEMMA ClockIs ==
  ASSUME NEW time \in Nat
  PROVE  /\ RefreshTimer(time) \in 0 .. Period - 1
         /\ \E n \in Nat : time = Period * n + RefreshTimer(time)
<1> DEFINE secs == time \div PerSecond
           ms   == time % PerSecond
           n    == secs \div SecondsKept
           kept == secs % SecondsKept
<1>1. PerSecond \in Nat \ {0} /\ SecondsKept \in Nat \ {0}
  BY TimerAssumption
<1>2. secs \in Nat /\ ms \in 0 .. PerSecond - 1 /\ time = PerSecond * secs + ms
  BY <1>1, Divided
<1>3. n \in Nat /\ kept \in 0 .. SecondsKept - 1 /\ secs = SecondsKept * n + kept
  BY <1>1, <1>2, Divided
<1>4. RefreshTimer(time) = kept * PerSecond + ms
  BY DEF RefreshTimer
<1> HIDE DEF secs, ms, n, kept
<1>5. RefreshTimer(time) \in 0 .. Period - 1
  <2>1. kept * PerSecond + ms \in 0 .. PerSecond * SecondsKept - 1
    BY <1>1, <1>2, <1>3, WithinPeriod
  <2> QED  BY <2>1, <1>4 DEF Period
<1>6. time = Period * n + RefreshTimer(time)
  <2>1. PerSecond * (SecondsKept * n + kept)
          = PerSecond * (SecondsKept * n) + kept * PerSecond
    BY <1>1, <1>3
  <2>2. PerSecond * (SecondsKept * n) = (PerSecond * SecondsKept) * n
    BY <1>1, <1>3
  <2>3. time = (PerSecond * SecondsKept) * n + kept * PerSecond + ms
    BY <2>1, <2>2, <1>2, <1>3
  <2>4. (PerSecond * SecondsKept) * n \in Nat /\ kept * PerSecond \in Nat
    BY <1>1, <1>3
  <2> QED  BY <2>3, <2>4, <1>2, <1>4 DEF Period
<1> QED  BY <1>3, <1>5, <1>6

(* A difference taken in unsigned numbers, negative or not.                  *)
LEMMA UnsignedDifference ==
  ASSUME NEW w \in Nat, NEW m \in Nat, m <= w,
         NEW passed \in 0 .. m - 1, NEW d \in Int,
         d = passed \/ (d = passed - m /\ d < 0 /\ d > 0 - m)
  PROVE  d % w >= passed
<1>1. CASE d = passed
  <2>1. d \in 0 .. w - 1  BY <1>1
  <2>2. d % w = d  BY <2>1
  <2> QED  BY <1>1, <2>2
<1>2. CASE d = passed - m /\ d < 0
  <2>1. d + w \in 0 .. w - 1 /\ d + w >= passed  BY <1>2
  <2>2. d % w = d + w  BY <2>1, <1>2
  <2> QED  BY <2>1, <2>2
<1> QED  BY <1>1, <1>2

(* Whatever moment a wait began at.                                          *)
LEMMA ElapsedIsEnough ==
  ASSUME NEW time \in Nat, NEW passed \in 0 .. Period - 1
  PROVE  GetElapsedMs(RefreshTimer(time), time + passed) >= passed
<1>1. Period \in Nat /\ Unsigned \in Nat /\ Period <= Unsigned
  BY TimerAssumption DEF Period
<1>2. passed \in Nat /\ time + passed \in Nat
  BY <1>1
<1>3. PICK old \in Nat : old = RefreshTimer(time) /\ old \in 0 .. Period - 1
  BY ClockIs, <1>1
<1>4. PICK new \in Nat : new = RefreshTimer(time + passed) /\ new \in 0 .. Period - 1
  BY ClockIs, <1>1, <1>2
<1>5. PICK n \in Nat : time = Period * n + old
  BY ClockIs, <1>3
<1>6. PICK k \in Nat : time + passed = Period * k + new
  BY ClockIs, <1>2, <1>4
<1> HIDE DEF Period
<1>7. new - old = passed \/ new - old = passed - Period
  (* Period n + old + passed = Period k + new, so k is n or n + 1            *)
  <2> PICK m \in Nat : m = Period
    BY <1>1
  <2>1. m * n + old + passed = m * k + new
    BY <1>5, <1>6
  <2>2. m * n \in Nat /\ m * k \in Nat
    OBVIOUS
  <2>3. CASE k = n
    BY <1>3, <1>4, <2>1, <2>2, <2>3
  <2>4. CASE k = n + 1
    <3>1. m * k = m * n + m  BY <2>4
    <3> QED  BY <1>3, <1>4, <2>1, <2>2, <3>1
  <2>5. ASSUME k > n + 1 PROVE FALSE
    <3>1. k - n - 2 \in Nat /\ k = n + 2 + (k - n - 2)  BY <2>5
    <3>2. PICK d \in Nat : k = n + 2 + d  BY <3>1
    <3>3. m * k = m * n + 2 * m + m * d /\ m * d \in Nat  BY <3>2
    <3> QED  BY <1>3, <1>4, <2>1, <2>2, <3>3
  <2>6. ASSUME k < n PROVE FALSE
    <3>1. n - k - 1 \in Nat /\ n = k + 1 + (n - k - 1)  BY <2>6
    <3>2. PICK d \in Nat : n = k + 1 + d  BY <3>1
    <3>3. m * n = m * k + m + m * d /\ m * d \in Nat  BY <3>2
    <3> QED  BY <1>3, <1>4, <2>1, <2>2, <3>3
  <2> QED  BY <2>3, <2>4, <2>5, <2>6
<1>8. new - old \in Int /\ new - old > 0 - Period
      /\ (new - old = passed - Period => new - old < 0)
  BY <1>1, <1>3, <1>4
<1>9. (new - old) % Unsigned >= passed
  BY <1>1, <1>7, <1>8, UnsignedDifference
<1> QED  BY <1>3, <1>4, <1>9 DEF GetElapsedMs

(* Within one period of the clock the time that has passed is never told to  *)
(* be less than it is, whatever moment a wait began at: a timeout may come   *)
(* early but never late (GetElapsedMs, mpo_timer.cpp:72).                    *)
THEOREM NeverTooLate == Spec => []NeverLate
<1> DEFINE Moment == kind = "time" => input \in Nat
<1>1. Init => Moment
  BY DEF Init
<1>2. Moment /\ [Next]_<<kind, input>> => Moment'
  BY DEF Next, NextCharacter, NextOctet, Grow, Tick
<1>3. Moment => NeverLate
  BY ElapsedIsEnough DEF NeverLate
<1> QED  BY <1>1, <1>2, <1>3, PTL DEF Spec
=============================================================================
