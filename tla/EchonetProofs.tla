--------------------------- MODULE EchonetProofs ---------------------------
(***************************************************************************)
(* What is proved of the codec: Decode inverts Encode for frames with any  *)
(* number of properties and refuses what is cut, and each decoder of a     *)
(* value inverts the coding of that value.                                 *)
(***************************************************************************)
EXTENDS Echonet, SequenceTheorems, FiniteSetTheorems, WellFoundedInduction, TLAPS

-----------------------------------------------------------------------------
(* Induction on the naturals, with a set in the place of a predicate.      *)
LEMMA SetInduction ==
  ASSUME NEW T, 0 \in T, \A n \in Nat : n \in T => n + 1 \in T
  PROVE  Nat \subseteq T
<1> DEFINE U == Nat \ T
           R == {p \in Nat \X Nat : p[1] < p[2]}
<1> SUFFICES ASSUME U # {} PROVE FALSE
  OBVIOUS
<1>1. IsWellFoundedOn(R, Nat)
  BY NatLessThanWellFounded DEF OpToRel
<1>2. \E m \in U : \A y \in U : <<y, m>> \notin R
  <2>1. U \subseteq Nat
    OBVIOUS
  <2> HIDE DEF R, U
  <2> QED  BY <1>1, <2>1, WFMin, Zenon
<1>3. PICK m \in U : \A y \in U : ~(y < m)
  BY <1>2
<1>4. m - 1 \in U
  OBVIOUS
<1> QED  BY <1>3, <1>4

-----------------------------------------------------------------------------
(* FlattenSeq, as the recursion that defines it. *)
Flat(s) == CHOOSE f : f = [i \in 1..Len(s) |-> IF i = 1 THEN s[i] ELSE f[i - 1] \o s[i]]

LEMMA FlatExists ==
  ASSUME NEW S, NEW s \in Seq(Seq(S))
  PROVE  Flat(s) = [i \in 1..Len(s) |-> IF i = 1 THEN s[i] ELSE Flat(s)[i - 1] \o s[i]]
<1> DEFINE Def(g, n) == g = [i \in 1..n |-> IF i = 1 THEN s[i] ELSE g[i - 1] \o s[i]]
           T == {n \in Nat : \E g : Def(g, n)}
<1>1. 0 \in T
  <2>1. Def([i \in 1..0 |-> s[i]], 0)
    OBVIOUS
  <2> QED  BY <2>1
<1>2. ASSUME NEW n \in Nat, n \in T PROVE n + 1 \in T
  <2>1. PICK g : Def(g, n)
    BY <1>2
  <2> DEFINE h == [i \in 1..(n + 1) |->
                     IF i <= n THEN g[i] ELSE IF i = 1 THEN s[i] ELSE g[i - 1] \o s[i]]
  <2>2. \A i \in 1..n : g[i] = IF i = 1 THEN s[i] ELSE g[i - 1] \o s[i]
    BY <2>1
  <2>3. \A i \in 1..n : h[i] = g[i]
    OBVIOUS
  <2>4. ASSUME NEW i \in 1..(n + 1)
        PROVE  h[i] = IF i = 1 THEN s[i] ELSE h[i - 1] \o s[i]
    BY <2>2, <2>3
  <2>5. Def(h, n + 1)
    BY <2>4
  <2> HIDE DEF Def, h
  <2> QED  BY <2>5
<1>3. Len(s) \in T
  <2>1. Len(s) \in Nat
    BY LenProperties
  <2> HIDE DEF T
  <2>2. Nat \subseteq T
    BY <1>1, <1>2, SetInduction
  <2> QED  BY <2>1, <2>2
<1>4. \E g : Def(g, Len(s))
  BY <1>3
<1> QED  BY <1>4, Zenon DEF Flat

LEMMA FlatSteps ==
  ASSUME NEW S, NEW s \in Seq(Seq(S)), s # <<>>
  PROVE  /\ FlattenSeq(s) = Flat(s)[Len(s)]
         /\ Flat(s)[1] = s[1]
         /\ \A i \in 1..(Len(s) - 1) : Flat(s)[i + 1] = Flat(s)[i] \o s[i + 1]
<1>1. Len(s) \in Nat \ {0}
  BY EmptySeq
<1>2. \A i \in 1..Len(s) : Flat(s)[i] = IF i = 1 THEN s[i] ELSE Flat(s)[i - 1] \o s[i]
  <2> DEFINE g == Flat(s)
  <2>1. g = [i \in 1..Len(s) |-> IF i = 1 THEN s[i] ELSE g[i - 1] \o s[i]]
    BY FlatExists, Zenon
  <2> HIDE DEF g
  <2>2. \A i \in 1..Len(s) : g[i] = IF i = 1 THEN s[i] ELSE g[i - 1] \o s[i]
    BY <2>1, Zenon
  <2> QED  BY <2>2, Zenon DEF g
<1>3. FlattenSeq(s) = Flat(s)[Len(s)]
  BY <1>1, Zenon DEF FlattenSeq, Flat
<1>4. ASSUME NEW i \in 1..(Len(s) - 1) PROVE Flat(s)[i + 1] = Flat(s)[i] \o s[i + 1]
  <2>1. i + 1 \in 1..Len(s) /\ i + 1 # 1 /\ (i + 1) - 1 = i
    BY <1>1
  <2> QED  BY <2>1, <1>2
<1>5. Flat(s)[1] = s[1]
  BY <1>1, <1>2
<1> QED  BY <1>3, <1>4, <1>5

(* The empty sequence, and one more at the end. *)
LEMMA FlattenAppend ==
  ASSUME NEW S, NEW s \in Seq(Seq(S)), NEW e \in Seq(S)
  PROVE  /\ FlattenSeq(s) \in Seq(S)
         /\ FlattenSeq(Append(s, e)) = FlattenSeq(s) \o e
<1> DEFINE a == Append(s, e)
           N == Len(s)
<1>0. /\ N \in Nat /\ a \in Seq(Seq(S)) /\ a # <<>> /\ Len(a) = N + 1 /\ a[N + 1] = e
      /\ \A i \in 1..N : a[i] = s[i] /\ s[i] \in Seq(S)
  BY AppendProperties, ElementOfSeq, LenProperties
<1>1. s # <<>> => N # 0
  BY EmptySeq
<1>a. (N + 1) - 1 = N /\ (N # 0 => N \in 1..N)
  BY <1>0
<1> HIDE DEF a, N
<1>2. /\ FlattenSeq(a) = Flat(a)[N + 1] /\ Flat(a)[1] = a[1]
      /\ \A i \in 1..N : Flat(a)[i + 1] = Flat(a)[i] \o a[i + 1]
  BY <1>0, <1>a, FlatSteps
<1>3. CASE s = <<>>
  <2>1. FlattenSeq(s) = <<>> /\ N = 0
    BY <1>3, EmptySeq DEF FlattenSeq, N
  <2> QED  BY <2>1, <1>0, <1>2, EmptySeq, ConcatEmptySeq DEF a
<1>4. CASE s # <<>>
  <2>0. /\ FlattenSeq(s) = Flat(s)[N] /\ Flat(s)[1] = s[1]
        /\ \A i \in 1..(N - 1) : Flat(s)[i + 1] = Flat(s)[i] \o s[i + 1]
    BY <1>4, FlatSteps DEF N
  <2>1. \A i \in 1..N : Flat(s)[i] \in Seq(S) /\ Flat(a)[i] = Flat(s)[i]
    <3> DEFINE T == {i \in Nat : i \in 1..N => Flat(s)[i] \in Seq(S) /\ Flat(a)[i] = Flat(s)[i]}
    <3>1. 0 \in T
      OBVIOUS
    <3>2. ASSUME NEW i \in Nat, i \in T PROVE i + 1 \in T
      <4> SUFFICES ASSUME i + 1 \in 1..N
                   PROVE  Flat(s)[i + 1] \in Seq(S) /\ Flat(a)[i + 1] = Flat(s)[i + 1]
        OBVIOUS
      <4>1. CASE i = 0
        BY <4>1, <1>0, <1>2, <2>0
      <4>2. CASE i # 0
        <5>1. i \in 1..N /\ i \in 1..(N - 1)
          BY <4>2, <1>0
        <5>2. /\ Flat(s)[i + 1] = Flat(s)[i] \o s[i + 1]
              /\ Flat(a)[i + 1] = Flat(a)[i] \o a[i + 1]
          BY <5>1, <1>2, <2>0
        <5>3. Flat(s)[i] \in Seq(S) /\ Flat(a)[i] = Flat(s)[i]
          BY <3>2, <5>1
        <5>4. a[i + 1] = s[i + 1] /\ s[i + 1] \in Seq(S)
          BY <1>0
        <5> QED  BY <5>2, <5>3, <5>4, ConcatProperties
      <4> QED  BY <4>1, <4>2
    <3>3. Nat \subseteq T
      <4> HIDE DEF T
      <4> QED  BY <3>1, <3>2, SetInduction
    <3> QED  BY <3>3
  <2>2. N \in 1..N /\ Flat(a)[N + 1] = Flat(a)[N] \o e
    BY <1>0, <1>1, <1>2, <1>4, <1>a
  <2> QED  BY <2>0, <2>1, <2>2, <1>2 DEF a
<1> QED  BY <1>3, <1>4

-----------------------------------------------------------------------------
(* Frames the program and the meter can write: bytes, and lengths that fit *)
(* the bytes that hold them.                                               *)
Byte == 0..255
Word == {n \in Nat : n <= 65535}
Properties == {p \in [epc : Byte, edt : Seq(Byte)] : Len(p.edt) \in Byte}
Frames ==
  {f \in [tid : Word, seoj : Seq(Byte), deoj : Seq(Byte), esv : Byte, props : Seq(Properties)] :
     Len(f.seoj) = 3 /\ Len(f.deoj) = 3 /\ Len(f.props) \in Byte}

(* The two parts of Encode(f). *)
Header(f) == EHD \o BE16(f.tid) \o f.seoj \o f.deoj \o <<f.esv, Len(f.props) % 256>>
Body(ps) == FlattenSeq([i \in DOMAIN ps |-> EncodeProp(ps[i])])

(* Where the elements of two parts are in the whole. *)
LEMMA Joined ==
  ASSUME NEW S, NEW s \in Seq(S), NEW t \in Seq(S)
  PROVE  /\ s \o t \in Seq(S) /\ Len(s \o t) = Len(s) + Len(t)
         /\ Len(s) \in Nat /\ Len(t) \in Nat
         /\ \A i \in 1..Len(s) : (s \o t)[i] = s[i]
         /\ \A i \in 1..Len(t) : (s \o t)[Len(s) + i] = t[i]
BY ConcatProperties, LenProperties

(* A part that stands after position k is the slice from there.            *)
LEMMA Slice ==
  ASSUME NEW S, NEW b, NEW q \in Seq(S), NEW k \in Nat, \A i \in 1..Len(q) : b[k + i] = q[i]
  PROVE  SubSeq(b, k + 1, k + Len(q)) = q
<1> DEFINE l == Len(q)
           s == SubSeq(b, k + 1, k + l)
<1>1. l \in Nat /\ \A i \in 1..l : b[k + i] = q[i] /\ q[i] \in S
  BY LenProperties, ElementOfSeq
<1> HIDE DEF l
<1>2. /\ k + 1 \in Int /\ k + l \in Int /\ (k + l) - (k + 1) + 1 = l
      /\ (IF k + 1 <= k + l THEN l ELSE 0) = l
      /\ \A i \in 1..l : k + 1 + i - 1 = k + i
      /\ \A i \in (k + 1)..(k + l) : i - k \in 1..l /\ k + (i - k) = i
  BY <1>1
<1>3. \A i \in (k + 1)..(k + l) : b[i] \in S
  BY <1>1, <1>2
<1>4. s \in Seq(S) /\ Len(s) = l /\ \A i \in 1..l : s[i] = b[k + 1 + i - 1]
  <2>1. k + 1 \in Int /\ k + l \in Int
    BY <1>2
  <2>2. /\ s \in Seq(S) /\ Len(s) = IF k + 1 <= k + l THEN (k + l) - (k + 1) + 1 ELSE 0
        /\ \A i \in 1..((k + l) - (k + 1) + 1) : s[i] = b[k + 1 + i - 1]
    BY <2>1, <1>3, SubSeqProperties
  <2> HIDE DEF s
  <2> QED  BY <2>2, <1>2
<1>5. \A i \in 1..l : s[i] = q[i]
  BY <1>1, <1>2, <1>4
<1> QED  BY <1>4, <1>5, SeqEqual DEF l

LEMMA ByteValue ==
  ASSUME NEW n \in Byte
  PROVE  n \in Nat /\ n <= 255 /\ n % 256 = n
BY DEF Byte

FiveIn(w, a, b, c, d, e) ==
  /\ w \in Seq(Byte) /\ Len(w) = Len(a) + Len(b) + Len(c) + Len(d) + Len(e)
  /\ \A i \in 1..Len(a) : w[i] = a[i]
  /\ \A i \in 1..Len(b) : w[Len(a) + i] = b[i]
  /\ \A i \in 1..Len(c) : w[Len(a) + Len(b) + i] = c[i]
  /\ \A i \in 1..Len(d) : w[Len(a) + Len(b) + Len(c) + i] = d[i]
  /\ \A i \in 1..Len(e) : w[Len(a) + Len(b) + Len(c) + Len(d) + i] = e[i]

LEMMA FiveParts ==
  ASSUME NEW a \in Seq(Byte), NEW b \in Seq(Byte), NEW c \in Seq(Byte), NEW d \in Seq(Byte),
         NEW e \in Seq(Byte)
  PROVE  FiveIn(a \o b \o c \o d \o e, a, b, c, d, e)
<1> DEFINE A == Len(a)
           B == Len(b)
           C == Len(c)
           D == Len(d)
           E == Len(e)
           w2 == a \o b
           w3 == w2 \o c
           w4 == w3 \o d
           w5 == w4 \o e
<1>1. /\ A \in Nat /\ B \in Nat /\ C \in Nat /\ D \in Nat /\ E \in Nat
      /\ w2 \in Seq(Byte) /\ Len(w2) = A + B
      /\ \A i \in 1..A : w2[i] = a[i]
      /\ \A i \in 1..B : w2[A + i] = b[i]
  BY Joined, LenProperties
<1> HIDE DEF w2
<1>2. /\ w3 \in Seq(Byte) /\ Len(w3) = Len(w2) + C
      /\ \A i \in 1..Len(w2) : w3[i] = w2[i]
      /\ \A i \in 1..C : w3[Len(w2) + i] = c[i]
  <2>1. w2 \in Seq(Byte)
    BY <1>1
  <2> QED  BY <2>1, Joined
<1> HIDE DEF w3
<1>3. /\ w4 \in Seq(Byte) /\ Len(w4) = Len(w3) + D
      /\ \A i \in 1..Len(w3) : w4[i] = w3[i]
      /\ \A i \in 1..D : w4[Len(w3) + i] = d[i]
  <2>1. w3 \in Seq(Byte)
    BY <1>2
  <2> QED  BY <2>1, Joined
<1> HIDE DEF w4
<1>4. /\ w5 \in Seq(Byte) /\ Len(w5) = Len(w4) + E
      /\ \A i \in 1..Len(w4) : w5[i] = w4[i]
      /\ \A i \in 1..E : w5[Len(w4) + i] = e[i]
  <2>1. w4 \in Seq(Byte)
    BY <1>3
  <2> QED  BY <2>1, Joined
<1> HIDE DEF w5, A, B, C, D, E
<1>5. \A i \in 1..A : w5[i] = a[i]
  BY <1>1, <1>2, <1>3, <1>4
<1>6. \A i \in 1..B : w5[A + i] = b[i]
  <2> TAKE i \in 1..B
  <2>1. A + i \in 1..Len(w2) /\ A + i \in 1..Len(w3) /\ A + i \in 1..Len(w4)
    BY <1>1, <1>2, <1>3
  <2>2. w5[A + i] = w4[A + i]
    BY <2>1, <1>4
  <2>3. w4[A + i] = w3[A + i]
    BY <2>1, <1>3
  <2>4. w3[A + i] = w2[A + i]
    BY <2>1, <1>2
  <2> QED  BY <2>2, <2>3, <2>4, <1>1
<1>7. \A i \in 1..C : w5[A + B + i] = c[i]
  <2> TAKE i \in 1..C
  <2>1. A + B + i \in 1..Len(w3) /\ A + B + i \in 1..Len(w4)
    BY <1>1, <1>2, <1>3
  <2> QED  BY <2>1, <1>1, <1>2, <1>3, <1>4
<1>8. \A i \in 1..D : w5[A + B + C + i] = d[i]
  <2> TAKE i \in 1..D
  <2>1. A + B + C + i \in 1..Len(w4)
    BY <1>1, <1>2, <1>3
  <2> QED  BY <2>1, <1>1, <1>2, <1>3, <1>4
<1>9. \A i \in 1..E : w5[A + B + C + D + i] = e[i]
  BY <1>1, <1>2, <1>3, <1>4
<1>10. Len(w5) = A + B + C + D + E
  BY <1>1, <1>2, <1>3, <1>4
<1> QED  BY <1>4, <1>5, <1>6, <1>7, <1>8, <1>9, <1>10
         DEF FiveIn, w5, w4, w3, w2, A, B, C, D, E

LEMMA Prefixed ==
  ASSUME NEW c \in Byte, NEW e \in Seq(Byte), NEW n \in Byte, n = Len(e)
  PROVE  LET b == <<c, n % 256>> \o e
         IN  /\ b \in Seq(Byte) /\ Len(b) = 2 + n
             /\ b[1] = c /\ b[2] = n /\ \A i \in 1..n : b[2 + i] = e[i]
<1> DEFINE h == <<c, n % 256>>
<1>1. n \in Nat /\ n % 256 = n
  BY ByteValue
<1>2. h \in Seq(Byte)
  BY <1>1
<1>4. Len(h) = 2 /\ h[1] = c /\ h[2] = n
  BY <1>1
<1> HIDE DEF h
<1>3. /\ h \o e \in Seq(Byte) /\ Len(h \o e) = 2 + n
      /\ \A i \in 1..2 : (h \o e)[i] = h[i]
      /\ \A i \in 1..n : (h \o e)[2 + i] = e[i]
  <2>1. /\ h \o e \in Seq(Byte) /\ Len(h \o e) = Len(h) + Len(e)
        /\ \A i \in 1..Len(h) : (h \o e)[i] = h[i]
        /\ \A i \in 1..Len(e) : (h \o e)[Len(h) + i] = e[i]
    BY <1>2, Joined
  <2> QED  BY <2>1, <1>1, <1>4
<1> QED  BY <1>3, <1>4 DEF h

LEMMA PropertyBytes ==
  ASSUME NEW p \in Properties
  PROVE  /\ EncodeProp(p) \in Seq(Byte) /\ Len(EncodeProp(p)) = 2 + Len(p.edt)
         /\ EncodeProp(p)[1] = p.epc /\ EncodeProp(p)[2] = Len(p.edt)
         /\ \A i \in 1..Len(p.edt) : EncodeProp(p)[2 + i] = p.edt[i]
<1>1. p.edt \in Seq(Byte) /\ p.epc \in Byte /\ Len(p.edt) \in Byte
  BY DEF Properties
<1> DEFINE e == p.edt
           n == Len(e)
<1>2. EncodeProp(p) = <<p.epc, n % 256>> \o e
  BY DEF EncodeProp
<1>3. p.epc \in Byte /\ e \in Seq(Byte) /\ n \in Byte /\ n = Len(e)
  BY <1>1
<1> HIDE DEF n, e
<1>4. LET b == <<p.epc, n % 256>> \o e
      IN  /\ b \in Seq(Byte) /\ Len(b) = 2 + n
          /\ b[1] = p.epc /\ b[2] = n /\ \A i \in 1..n : b[2 + i] = e[i]
  BY <1>3, Prefixed
<1> QED  BY <1>2, <1>4 DEF n, e

LEMMA BodyAppend ==
  ASSUME NEW ps \in Seq(Properties), NEW p \in Properties
  PROVE  /\ Body(<<>>) = <<>> /\ Body(ps) \in Seq(Byte)
         /\ Body(Append(ps, p)) = Body(ps) \o EncodeProp(p)
<1> DEFINE Enc(s) == [i \in DOMAIN s |-> EncodeProp(s[i])]
<1>1. ASSUME NEW s \in Seq(Properties) PROVE Enc(s) \in Seq(Seq(Byte)) /\ Len(Enc(s)) = Len(s)
  <2>1. /\ Len(s) \in Nat /\ DOMAIN s = 1..Len(s)
        /\ \A i \in 1..Len(s) : EncodeProp(s[i]) \in Seq(Byte)
    BY LenProperties, ElementOfSeq, PropertyBytes
  <2> QED  BY <2>1
<1>2. Append(Enc(ps), EncodeProp(p)) = Enc(Append(ps, p))
  <2>1. /\ Append(ps, p) \in Seq(Properties) /\ Len(Append(ps, p)) = Len(ps) + 1
        /\ \A i \in 1..Len(ps) : Append(ps, p)[i] = ps[i]
        /\ Append(ps, p)[Len(ps) + 1] = p /\ Len(ps) \in Nat
        /\ DOMAIN ps = 1..Len(ps) /\ DOMAIN Append(ps, p) = 1..(Len(ps) + 1)
    BY AppendProperties, LenProperties
  <2>2. /\ Enc(ps) \in Seq(Seq(Byte)) /\ Len(Enc(ps)) = Len(ps)
        /\ Enc(Append(ps, p)) \in Seq(Seq(Byte)) /\ Len(Enc(Append(ps, p))) = Len(ps) + 1
    BY <1>1, <2>1
  <2>3. /\ \A i \in 1..Len(ps) : Enc(ps)[i] = EncodeProp(ps[i])
        /\ \A i \in 1..(Len(ps) + 1) : Enc(Append(ps, p))[i] = EncodeProp(Append(ps, p)[i])
    BY <2>1
  <2>4. EncodeProp(p) \in Seq(Byte)
    BY PropertyBytes
  <2> HIDE DEF Enc
  <2>5. /\ Append(Enc(ps), EncodeProp(p)) \in Seq(Seq(Byte))
        /\ Len(Append(Enc(ps), EncodeProp(p))) = Len(ps) + 1
        /\ \A i \in 1..Len(ps) : Append(Enc(ps), EncodeProp(p))[i] = Enc(ps)[i]
        /\ Append(Enc(ps), EncodeProp(p))[Len(ps) + 1] = EncodeProp(p)
    BY <2>2, <2>4, AppendProperties
  <2>6. \A i \in 1..(Len(ps) + 1) : Append(Enc(ps), EncodeProp(p))[i] = Enc(Append(ps, p))[i]
    BY <2>1, <2>3, <2>5
  <2> QED  BY <2>2, <2>5, <2>6, SeqEqual
<1>3. Body(<<>>) = <<>>
  BY DEF Body, FlattenSeq
<1>4. EncodeProp(p) \in Seq(Byte)
  BY PropertyBytes
<1>5. Enc(ps) \in Seq(Seq(Byte)) /\ Body(ps) = FlattenSeq(Enc(ps))
      /\ Body(Append(ps, p)) = FlattenSeq(Enc(Append(ps, p)))
  BY <1>1 DEF Body
<1> HIDE DEF Enc
<1> QED  BY <1>2, <1>3, <1>4, <1>5, FlattenAppend

(* A body starts with the properties that come first.                      *)
First(ps, n) == SubSeq(ps, 1, n)

LEMMA BodyOfFirst ==
  ASSUME NEW ps \in Seq(Properties), NEW n \in 0..(Len(ps) - 1)
  PROVE  /\ First(ps, n) \in Seq(Properties) /\ First(ps, 0) = <<>> /\ First(ps, Len(ps)) = ps
         /\ First(ps, n + 1) = Append(First(ps, n), ps[n + 1])
         /\ Body(First(ps, n + 1)) = Body(First(ps, n)) \o EncodeProp(ps[n + 1])
<1>1. Len(ps) \in Nat /\ n + 1 \in 1..Len(ps) /\ (n + 1) - 1 = n /\ ps[n + 1] \in Properties
  BY LenProperties, ElementOfSeq
<1>2. First(ps, n) \in Seq(Properties) /\ First(ps, Len(ps)) = ps
  BY <1>1, SubSeqProperties, SubSeqFull, ElementOfSeq DEF First
<1>3. First(ps, 0) = <<>>
  BY SubSeqEmpty DEF First
<1>4. First(ps, n + 1) = Append(First(ps, n), ps[n + 1])
  <2>1. SubSeq(ps, 1, n + 1) = SubSeq(ps, 1, n) \o <<ps[n + 1]>>
    BY <1>1, SubSeqRecursiveSecond
  <2> QED  BY <2>1, <1>1, <1>2, AppendIsConcat DEF First
<1> QED  BY <1>1, <1>2, <1>3, <1>4, BodyAppend

(* Three parts in a row are the same bytes however they are put together.  *)
Regroups(s, t, u) == (s \o t) \o u = s \o (t \o u)

LEMMA Regrouping ==
  ASSUME NEW S, NEW s \in Seq(S), NEW t \in Seq(S), NEW u \in Seq(S)
  PROVE  Regroups(s, t, u)
BY ConcatAssociative DEF Regroups

LEMMA BodyStartsWith ==
  ASSUME NEW ps \in Seq(Properties), NEW n \in 0..Len(ps)
  PROVE  /\ Body(First(ps, n)) \in Seq(Byte)
         /\ \E rest \in Seq(Byte) : Body(ps) = Body(First(ps, n)) \o rest
<1> DEFINE N == Len(ps)
           Starts(m) == /\ Body(First(ps, m)) \in Seq(Byte)
                        /\ \E rest \in Seq(Byte) : Body(ps) = Body(First(ps, m)) \o rest
           T == {k \in Nat : k <= N => Starts(N - k)}
<1>1. N \in Nat /\ \A p \in Properties : EncodeProp(p) \in Seq(Byte)
  BY LenProperties, PropertyBytes
<1>2. Starts(N)
  <2>1. First(ps, N) = ps
    BY SubSeqFull DEF First
  <2>2. Body(ps) \in Seq(Byte)
    <3>1. [epc |-> 0, edt |-> <<>>] \in Properties
      <4>1. <<>> \in Seq(Byte) /\ Len(<<>>) = 0
        BY EmptySeq
      <4>2. 0 \in Byte
        BY DEF Byte
      <4> QED  BY <4>1, <4>2 DEF Properties
    <3> QED  BY <3>1, BodyAppend
  <2> QED  BY <2>1, <2>2, ConcatEmptySeq, EmptySeq
<1>3. ASSUME NEW m \in 0..(N - 1), Starts(m + 1) PROVE Starts(m)
  <2> DEFINE a == Body(First(ps, m))
             e == EncodeProp(ps[m + 1])
  <2>1. ps[m + 1] \in Properties
    BY <1>1, ElementOfSeq
  <2>2. First(ps, m) \in Seq(Properties) /\ Body(First(ps, m + 1)) = a \o e
    BY BodyOfFirst
  <2>3. a \in Seq(Byte) /\ e \in Seq(Byte)
    BY <2>1, <2>2, BodyAppend, PropertyBytes
  <2>4. PICK rest \in Seq(Byte) : Body(ps) = (a \o e) \o rest
    BY <1>3, <2>2
  <2> HIDE DEF a, e
  <2>5. e \o rest \in Seq(Byte) /\ (a \o e) \o rest = a \o (e \o rest)
    <3>1. rest \in Seq(Byte)
      BY <2>4
    <3>2. e \o rest \in Seq(Byte)
      BY <2>3, <3>1, ConcatProperties
    <3>3. Regroups(a, e, rest)
      BY <2>3, <3>1, Regrouping, Zenon
    <3> QED  BY <3>2, <3>3 DEF Regroups
  <2> QED  BY <2>3, <2>4, <2>5 DEF a
<1> HIDE DEF Starts
<1>4. 0 \in T
  BY <1>1, <1>2
<1>5. ASSUME NEW k \in Nat, k \in T PROVE k + 1 \in T
  <2> SUFFICES ASSUME k + 1 <= N PROVE Starts(N - (k + 1))
    OBVIOUS
  <2>1. N - (k + 1) \in 0..(N - 1) /\ (N - (k + 1)) + 1 = N - k /\ k <= N
    BY <1>1
  <2>2. Starts(N - k)
    BY <1>5, <2>1
  <2> QED  BY <1>3, <2>1, <2>2
<1>6. Nat \subseteq T
  <2> HIDE DEF T
  <2> QED  BY <1>4, <1>5, SetInduction
<1>7. N - n \in Nat /\ N - n <= N /\ N - (N - n) = n
  BY <1>1
<1> QED  BY <1>6, <1>7 DEF Starts

(* Decode's loop, pass by pass. *)
NoPass == [ok |-> TRUE, off |-> 12, props |-> <<>>]

LEMMA PassesSteps ==
  ASSUME NEW b, b[12] \in Nat
  PROVE  /\ Passes(b)[0] = NoPass
         /\ \A n \in 0..(b[12] - 1) : Passes(b)[n + 1] = DecodeProp(b, Passes(b)[n])
<1> DEFINE Def(g, n) == g = [i \in 0..n |-> IF i = 0 THEN NoPass ELSE DecodeProp(b, g[i - 1])]
           T == {n \in Nat : \E g : Def(g, n)}
<1>1. 0 \in T
  <2>1. Def([i \in 0..0 |-> NoPass], 0)
    OBVIOUS
  <2> QED  BY <2>1
<1>2. ASSUME NEW n \in Nat, n \in T PROVE n + 1 \in T
  <2>1. PICK g : Def(g, n)
    BY <1>2
  <2> DEFINE h == [i \in 0..(n + 1) |-> IF i <= n THEN g[i] ELSE DecodeProp(b, g[i - 1])]
  <2>2. \A i \in 0..n : g[i] = IF i = 0 THEN NoPass ELSE DecodeProp(b, g[i - 1])
    BY <2>1
  <2>3. \A i \in 0..n : h[i] = g[i]
    OBVIOUS
  <2>4. ASSUME NEW i \in 0..(n + 1)
        PROVE  h[i] = IF i = 0 THEN NoPass ELSE DecodeProp(b, h[i - 1])
    BY <2>2, <2>3
  <2>5. Def(h, n + 1)
    BY <2>4
  <2> HIDE DEF Def, h
  <2> QED  BY <2>5
<1>3. b[12] \in T
  <2> HIDE DEF T
  <2> QED  BY <1>1, <1>2, SetInduction
<1>4. \E g : Def(g, b[12])
  BY <1>3
<1>5. Def(Passes(b), b[12])
  BY <1>4, Zenon DEF Passes, NoPass
<1>6. \A i \in 0..b[12] : Passes(b)[i] = IF i = 0 THEN NoPass ELSE DecodeProp(b, Passes(b)[i - 1])
  BY <1>5
<1>7. ASSUME NEW n \in 0..(b[12] - 1) PROVE Passes(b)[n + 1] = DecodeProp(b, Passes(b)[n])
  <2>1. n + 1 \in 0..b[12] /\ n + 1 # 0 /\ (n + 1) - 1 = n
    OBVIOUS
  <2> QED  BY <2>1, <1>6
<1> QED  BY <1>6, <1>7

(* Where a part in the middle is in the whole. *)
MiddleIn(h, a, e, r, t) ==
  LET v == h \o ((a \o e) \o r)
  IN  /\ Len(v) = Len(h) + ((Len(a) + Len(e)) + Len(r))
      /\ \A i \in 1..Len(e) : (v \o t)[Len(h) + (Len(a) + i)] = e[i]

LEMMA Middle ==
  ASSUME NEW S, NEW h \in Seq(S), NEW a \in Seq(S), NEW e \in Seq(S), NEW r \in Seq(S),
         NEW t \in Seq(S)
  PROVE  MiddleIn(h, a, e, r, t)
<1> DEFINE H == Len(h)
           A == Len(a)
           E == Len(e)
           R == Len(r)
           ae == a \o e
           w == ae \o r
           v == h \o w
<1>1. /\ ae \in Seq(S) /\ Len(ae) = A + E /\ \A i \in 1..E : ae[A + i] = e[i]
      /\ H \in Nat /\ A \in Nat /\ E \in Nat /\ R \in Nat
  BY Joined, LenProperties
<1> HIDE DEF ae, A, E, R, H
<1>2. w \in Seq(S) /\ Len(w) = Len(ae) + R /\ \A i \in 1..Len(ae) : w[i] = ae[i]
  BY <1>1, Joined DEF R
<1> HIDE DEF w
<1>3. v \in Seq(S) /\ Len(v) = H + Len(w) /\ \A i \in 1..Len(w) : v[H + i] = w[i]
  BY <1>2, Joined DEF H
<1> HIDE DEF v
<1>4. v \o t \in Seq(S) /\ \A i \in 1..Len(v) : (v \o t)[i] = v[i]
  BY <1>3, Joined
<1>5. ASSUME NEW i \in 1..E PROVE (v \o t)[H + (A + i)] = e[i]
  <2>1. A + i \in 1..Len(ae) /\ A + i \in 1..Len(w) /\ H + (A + i) \in 1..Len(v)
    BY <1>1, <1>2, <1>3
  <2> QED  BY <2>1, <1>1, <1>2, <1>3, <1>4
<1>6. Len(v) = H + ((A + E) + R)
  BY <1>1, <1>2, <1>3
<1> QED  BY <1>3, <1>4, <1>5, <1>6 DEF MiddleIn, v, w, ae, H, A, E, R

(* The bytes of a frame: a header, the properties and what comes after.    *)
Whole(h, ps, t) == (h \o Body(ps)) \o t
After(h, ps, n) == Len(h) + Len(Body(First(ps, n)))

LEMMA Places ==
  ASSUME NEW H \in Nat, NEW A \in Nat, NEW R \in Nat, NEW l \in Nat
  PROVE  /\ H + A \in Nat /\ H + A >= H /\ H + (A + (2 + l)) = H + A + 2 + l
         /\ H + A + 2 + l <= H + ((A + (2 + l)) + R)
OBVIOUS

(* Property p stands in b after position off. *)
StandsAt(b, off, p) ==
  /\ b[off + 1] = p.epc /\ b[off + 2] = Len(p.edt)
  /\ \A i \in 1..Len(p.edt) : b[off + 2 + i] = p.edt[i]

(* A property of the frame, at the place where the n-th pass looks for it. *)
LEMMA PropertyAt ==
  ASSUME NEW h \in Seq(Byte), NEW ps \in Seq(Properties), NEW t \in Seq(Byte),
         NEW n \in 0..(Len(ps) - 1)
  PROVE  /\ StandsAt(Whole(h, ps, t), After(h, ps, n), ps[n + 1])
         /\ After(h, ps, n) \in Nat
         /\ After(h, ps, n + 1) = After(h, ps, n) + 2 + Len(ps[n + 1].edt)
         /\ After(h, ps, n + 1) <= Len(h \o Body(ps))
<1> DEFINE l == Len(ps[n + 1].edt)
<1>0. l \in Byte
  BY LenProperties, ElementOfSeq DEF Properties
<1> DEFINE a == Body(First(ps, n))
           e == EncodeProp(ps[n + 1])
<1>1. ps[n + 1] \in Properties /\ n + 1 \in 0..Len(ps) /\ n \in 0..Len(ps)
  BY LenProperties, ElementOfSeq
<1>2. Body(First(ps, n + 1)) = a \o e
  BY BodyOfFirst
<1>3. a \in Seq(Byte) /\ e \in Seq(Byte)
  BY <1>1, BodyStartsWith, PropertyBytes
<1>4. PICK rest \in Seq(Byte) : Body(ps) = (a \o e) \o rest
  BY <1>1, <1>2, BodyStartsWith
<1>5. /\ Len(e) = 2 + l /\ e[1] = ps[n + 1].epc /\ e[2] = l
      /\ \A i \in 1..l : e[2 + i] = ps[n + 1].edt[i]
  BY <1>1, PropertyBytes
<1> DEFINE H == Len(h)
           A == Len(a)
           E == Len(e)
           R == Len(rest)
           b == Whole(h, ps, t)
<1> HIDE DEF a, e
<1>6. A \in Nat /\ R \in Nat /\ l \in Nat /\ H \in Nat /\ Len(a \o e) = A + E
  BY <1>0, <1>3, Joined, ByteValue, LenProperties
<1>7. /\ Len(h \o Body(ps)) = H + ((A + E) + R)
      /\ \A i \in 1..E : b[H + (A + i)] = e[i]
  <2>1. rest \in Seq(Byte) /\ Body(ps) = (a \o e) \o rest
    BY <1>4
  <2>2. MiddleIn(h, a, e, rest, t)
    BY <1>3, <2>1, Middle, Zenon
  <2>3. h \o Body(ps) = h \o ((a \o e) \o rest) /\ b = (h \o ((a \o e) \o rest)) \o t
    BY <2>1 DEF Whole
  <2> QED  BY <2>2, <2>3, Zenon DEF MiddleIn
<1>8. After(h, ps, n) = H + A /\ After(h, ps, n + 1) = H + (A + E)
  BY <1>2, <1>6 DEF After, a
<1>9. E = 2 + l
  BY <1>5
<1> HIDE DEF A, R, E, H, b, l
<1>10. \A i \in 1..(2 + l) : b[H + (A + i)] = e[i]
  BY <1>7, <1>9
<1>11. /\ 1 \in 1..(2 + l) /\ 2 \in 1..(2 + l) /\ \A i \in 1..l : 2 + i \in 1..(2 + l)
       /\ H + (A + 1) = H + A + 1 /\ H + (A + 2) = H + A + 2
       /\ \A i \in 1..l : H + (A + (2 + i)) = H + A + 2 + i
  BY <1>6
<1>12. b[H + A + 1] = e[1] /\ b[H + A + 2] = e[2]
  BY <1>10, <1>11
<1>13. \A i \in 1..l : b[H + A + 2 + i] = e[2 + i]
  BY <1>10, <1>11
<1>14. /\ H + A \in Nat /\ H + A >= H /\ H + (A + E) = H + A + 2 + l
       /\ H + A + 2 + l <= H + ((A + E) + R)
  BY <1>6, <1>9, Places
<1>15. StandsAt(b, H + A, ps[n + 1])
  BY <1>5, <1>12, <1>13 DEF StandsAt, l
<1> QED  BY <1>7, <1>8, <1>14, <1>15 DEF b, l

(* What Decode's loop has read after n passes over a whole frame.          *)
Read(h, ps, n) == [ok |-> TRUE, off |-> After(h, ps, n), props |-> First(ps, n)]

LEMMA PassReads ==
  ASSUME NEW h \in Seq(Byte), NEW ps \in Seq(Properties), NEW t \in Seq(Byte),
         NEW n \in 0..(Len(ps) - 1)
  PROVE  DecodeProp(Whole(h, ps, t), Read(h, ps, n)) = Read(h, ps, n + 1)
<1> DEFINE p == ps[n + 1]
           l == Len(p.edt)
           b == Whole(h, ps, t)
           off == After(h, ps, n)
           V == Len(h \o Body(ps))
<1>1. p \in Properties
  BY LenProperties, ElementOfSeq
<1>2. l \in Byte /\ p.edt \in Seq(Byte) /\ p = [epc |-> p.epc, edt |-> p.edt]
  BY <1>1 DEF Properties
<1>3. /\ off \in Nat /\ After(h, ps, n + 1) = off + 2 + l /\ off + 2 + l <= V
      /\ b[off + 1] = p.epc /\ b[off + 2] = l
      /\ \A i \in 1..l : b[off + 2 + i] = p.edt[i]
  BY PropertyAt DEF StandsAt
<1>4. b \in Seq(Byte) /\ Len(b) = V + Len(t) /\ V \in Nat /\ Len(t) \in Nat
  <2>1. Body(ps) \in Seq(Byte)
    <3>1. Len(ps) \in 0..Len(ps)
      BY LenProperties
    <3> QED  BY <3>1, BodyStartsWith, SubSeqFull DEF First
  <2>2. h \o Body(ps) \in Seq(Byte)
    BY <2>1, ConcatProperties
  <2> QED  BY <2>2, Joined DEF Whole
<1>5. l \in Nat
  BY <1>2, ByteValue
<1> HIDE DEF l, b, off, V
<1>6. SubSeq(b, off + 3, off + 2 + l) = p.edt
  <2> DEFINE k == off + 2
             q == p.edt
  <2>1. k \in Nat /\ q \in Seq(Byte)
    BY <1>2, <1>3
  <2>4. k + 1 = off + 3 /\ Len(q) = l
    BY <1>3 DEF l
  <2>2. \A i \in 1..Len(q) : b[k + i] = q[i]
    BY <1>3 DEF l
  <2> HIDE DEF k, q
  <2>3. SubSeq(b, k + 1, k + Len(q)) = q
    BY <2>1, <2>2, Slice
  <2> QED  BY <2>3, <2>4 DEF k, q
<1>7. off + 2 <= Len(b) /\ off + 2 + l <= Len(b)
  BY <1>3, <1>4, <1>5
<1>8. First(ps, n + 1) = Append(First(ps, n), p)
  BY BodyOfFirst
<1> DEFINE r == Read(h, ps, n)
<1>9. r.ok /\ r.off = off /\ r.props = First(ps, n)
  BY DEF Read, off
<1>10. DecodeProp(b, r) = [r EXCEPT !.off = off + 2 + l,
                            !.props = Append(@, [epc |-> p.epc, edt |-> p.edt])]
  BY <1>3, <1>6, <1>7, <1>9 DEF DecodeProp
<1>11. DecodeProp(b, r) = [ok |-> TRUE, off |-> off + 2 + l, props |-> Append(First(ps, n), p)]
  BY <1>2, <1>10 DEF Read
<1> QED  BY <1>3, <1>8, <1>11 DEF Read, b

LEMMA LoopReads ==
  ASSUME NEW h \in Seq(Byte), NEW ps \in Seq(Properties), NEW t \in Seq(Byte),
         Len(h) = 12, Whole(h, ps, t)[12] = Len(ps)
  PROVE  DecodeProps(Whole(h, ps, t)) = Read(h, ps, Len(ps))
<1> DEFINE b == Whole(h, ps, t)
           N == Len(ps)
           T == {n \in Nat : n <= N => Passes(b)[n] = Read(h, ps, n)}
<1>1. N \in Nat /\ b[12] = N
  BY LenProperties
<1>2. Passes(b)[0] = NoPass
  BY <1>1, PassesSteps
<1>3. ASSUME NEW n \in 0..(N - 1) PROVE Passes(b)[n + 1] = DecodeProp(b, Passes(b)[n])
  BY <1>1, PassesSteps
<1>4. Read(h, ps, 0) = NoPass
  <2>1. First(ps, 0) = <<>>
    BY SubSeqEmpty DEF First
  <2>2. Body(<<>>) = <<>> /\ Len(<<>>) = 0
    BY DEF Body, FlattenSeq
  <2>3. After(h, ps, 0) = 12 + 0
    BY <2>1, <2>2 DEF After
  <2>4. After(h, ps, 0) = 12
    BY <2>3
  <2> QED  BY <2>1, <2>4 DEF Read, NoPass
<1> HIDE DEF b
<1>5. 0 \in T
  BY <1>2, <1>4
<1>6. ASSUME NEW n \in Nat, n \in T PROVE n + 1 \in T
  <2> SUFFICES ASSUME n + 1 <= N PROVE Passes(b)[n + 1] = Read(h, ps, n + 1)
    OBVIOUS
  <2>1. n \in 0..(N - 1) /\ n <= N
    BY <1>1
  <2>2. Passes(b)[n] = Read(h, ps, n)
    BY <1>6, <2>1
  <2> QED  BY <1>3, <2>1, <2>2, PassReads DEF b
<1>7. N \in T
  <2> HIDE DEF T
  <2> QED  BY <1>1, <1>5, <1>6, SetInduction
<1>8. Passes(b)[N] = Read(h, ps, N)
  BY <1>1, <1>7
<1> QED  BY <1>1, <1>8 DEF DecodeProps, b

-----------------------------------------------------------------------------
(* Frames. *)
LEMMA TwoBytes ==
  ASSUME NEW n \in Word
  PROVE  /\ BE16(n) \in Seq(Byte) /\ Len(BE16(n)) = 2 /\ U16(BE16(n)) = n
<1>1. n \in Nat /\ n <= 65535
  BY DEF Word
<1>2. (n \div 256) % 256 \in 0..255 /\ n % 256 \in 0..255
  BY <1>1
<1>3. 256 * ((n \div 256) % 256) + (n % 256) = n
  BY <1>1
<1> QED  BY <1>2, <1>3 DEF BE16, U16, Byte

LEMMA HeaderBytes ==
  ASSUME NEW f \in Frames
  PROVE  LET h == Header(f)
             k == Len(f.props)
         IN  /\ h \in Seq(Byte) /\ Len(h) = 12 /\ h[11] = f.esv /\ h[12] = k
             /\ \A i \in 1..2 : h[i] = EHD[i]
             /\ \A i \in 1..2 : h[2 + i] = BE16(f.tid)[i]
             /\ \A i \in 1..3 : h[4 + i] = f.seoj[i]
             /\ \A i \in 1..3 : h[7 + i] = f.deoj[i]
<1>1. /\ f.tid \in Word /\ f.seoj \in Seq(Byte) /\ f.deoj \in Seq(Byte)
      /\ Len(f.seoj) = 3 /\ Len(f.deoj) = 3 /\ f.esv \in Byte /\ Len(f.props) \in Byte
  BY DEF Frames
<1> DEFINE a == EHD
           b == BE16(f.tid)
           c == f.seoj
           d == f.deoj
           k == Len(f.props)
           v == f.esv
           e == <<v, k % 256>>
           h == a \o b \o c \o d \o e
<1> HIDE DEF h
<1>2. c \in Seq(Byte) /\ d \in Seq(Byte) /\ Len(c) = 3 /\ Len(d) = 3 /\ v \in Byte /\ k \in Byte
  BY <1>1
<1>4. a \in Seq(Byte) /\ Len(a) = 2
  BY DEF EHD, Byte
<1>5. b \in Seq(Byte) /\ Len(b) = 2
  BY <1>1, TwoBytes
<1> HIDE DEF a, b, c, d, k, v
<1>0. k % 256 = k
  BY <1>2, ByteValue
<1>3. e \in Seq(Byte) /\ Len(e) = 2 /\ e[1] = v /\ e[2] = k
  BY <1>0, <1>2
<1> HIDE DEF e
<1>6. /\ h \in Seq(Byte) /\ Len(h) = Len(a) + Len(b) + Len(c) + Len(d) + Len(e)
      /\ \A i \in 1..Len(a) : h[i] = a[i]
      /\ \A i \in 1..Len(b) : h[Len(a) + i] = b[i]
      /\ \A i \in 1..Len(c) : h[Len(a) + Len(b) + i] = c[i]
      /\ \A i \in 1..Len(d) : h[Len(a) + Len(b) + Len(c) + i] = d[i]
      /\ \A i \in 1..Len(e) : h[Len(a) + Len(b) + Len(c) + Len(d) + i] = e[i]
  <2>1. a \in Seq(Byte) /\ b \in Seq(Byte)
    BY <1>4, <1>5
  <2>2. c \in Seq(Byte) /\ d \in Seq(Byte) /\ e \in Seq(Byte)
    BY <1>2, <1>3
  <2>3. FiveIn(h, a, b, c, d, e)
    BY <2>1, <2>2, FiveParts DEF h
  <2> QED  BY <2>3 DEF FiveIn
<1>7. /\ \A i \in 1..2 : h[i] = a[i]
      /\ \A i \in 1..2 : h[2 + i] = b[i]
      /\ \A i \in 1..3 : h[2 + 2 + i] = c[i]
      /\ \A i \in 1..3 : h[2 + 2 + 3 + i] = d[i]
      /\ \A i \in 1..2 : h[2 + 2 + 3 + 3 + i] = e[i]
      /\ Len(h) = 2 + 2 + 3 + 3 + 2
  BY <1>2, <1>3, <1>4, <1>5, <1>6
<1>8. Len(h) = 12 /\ h[11] = e[1] /\ h[12] = e[2]
  BY <1>7
<1>9. \A i \in 1..3 : h[4 + i] = c[i] /\ h[7 + i] = d[i]
  BY <1>7
<1>10. h = Header(f)
  BY DEF h, Header, a, b, c, d, e, k, v
<1> QED  BY <1>3, <1>6, <1>7, <1>8, <1>9, <1>10 DEF a, b, c, d, k, v

LEMMA BodyBytes ==
  ASSUME NEW ps \in Seq(Properties)
  PROVE  Body(ps) \in Seq(Byte) /\ First(ps, Len(ps)) = ps /\ First(ps, 0) = <<>>
<1>1. Len(ps) \in 0..Len(ps)
  BY LenProperties
<1>2. First(ps, Len(ps)) = ps /\ First(ps, 0) = <<>>
  BY SubSeqFull, SubSeqEmpty DEF First
<1> QED  BY <1>1, <1>2, BodyStartsWith

(* The header of a frame, with whatever follows.                           *)
HeaderIn(b, f) ==
  /\ b \in Seq(Byte) /\ Len(b) >= 12
  /\ SubSeq(b, 1, 2) = EHD /\ U16(SubSeq(b, 3, 4)) = f.tid
  /\ SubSeq(b, 5, 7) = f.seoj /\ SubSeq(b, 8, 10) = f.deoj
  /\ b[11] = f.esv /\ b[12] = Len(f.props)

LEMMA HeaderRead ==
  ASSUME NEW f \in Frames, NEW b \in Seq(Byte), NEW L \in Nat, L = Len(b), L >= 12,
         \A i \in 1..12 : b[i] = Header(f)[i]
  PROVE  HeaderIn(b, f)
<1> DEFINE h == Header(f)
<1>1. /\ h[11] = f.esv /\ h[12] = Len(f.props)
      /\ \A i \in 1..2 : h[i] = EHD[i]
      /\ \A i \in 1..2 : h[2 + i] = BE16(f.tid)[i]
      /\ \A i \in 1..3 : h[4 + i] = f.seoj[i]
      /\ \A i \in 1..3 : h[7 + i] = f.deoj[i]
  BY HeaderBytes
<1> HIDE DEF h
<1>2. \A i \in 1..12 : b[i] = h[i]
  BY DEF h
<1>3. /\ \A i \in 1..2 : b[0 + i] = EHD[i]
      /\ \A i \in 1..2 : b[2 + i] = BE16(f.tid)[i]
      /\ \A i \in 1..3 : b[4 + i] = f.seoj[i]
      /\ \A i \in 1..3 : b[7 + i] = f.deoj[i]
      /\ b[11] = f.esv /\ b[12] = Len(f.props)
  BY <1>1, <1>2
<1>4. /\ f.tid \in Word /\ f.seoj \in Seq(Byte) /\ f.deoj \in Seq(Byte)
      /\ Len(f.seoj) = 3 /\ Len(f.deoj) = 3
  BY DEF Frames
<1>5. ASSUME NEW q \in Seq(Byte), NEW k \in Nat, NEW l \in Nat, Len(q) = l,
             \A i \in 1..l : b[k + i] = q[i]
      PROVE  SubSeq(b, k + 1, k + l) = q
  BY <1>5, Slice
<1>6. SubSeq(b, 0 + 1, 0 + 2) = EHD
  <2>1. EHD \in Seq(Byte) /\ Len(EHD) = 2
    BY DEF EHD, Byte
  <2> QED  BY <2>1, <1>3, <1>5
<1>7. SubSeq(b, 2 + 1, 2 + 2) = BE16(f.tid)
  BY <1>3, <1>4, <1>5, TwoBytes
<1>8. SubSeq(b, 4 + 1, 4 + 3) = f.seoj
  BY <1>3, <1>4, <1>5
<1>9. SubSeq(b, 7 + 1, 7 + 3) = f.deoj
  BY <1>3, <1>4, <1>5
<1>10. U16(SubSeq(b, 3, 4)) = f.tid
  <2>1. U16(BE16(f.tid)) = f.tid
    BY <1>4, TwoBytes
  <2>2. 2 + 1 = 3 /\ 2 + 2 = 4
    OBVIOUS
  <2>3. SubSeq(b, 3, 4) = BE16(f.tid)
    BY <1>7, <2>2
  <2> QED  BY <2>1, <2>3
<1> QED  BY <1>3, <1>6, <1>8, <1>9, <1>10 DEF HeaderIn

(* Decode gives back the frame that was encoded, with any number of        *)
(* properties that OPC can count, whatever follows it in the datagram.     *)
THEOREM DecodeInvertsEncode ==
  ASSUME NEW f \in Frames, NEW t \in Seq(Byte)
  PROVE  Decode(Encode(f) \o t) = [ok |-> TRUE, frame |-> f]
<1> DEFINE h == Header(f)
           ps == f.props
           v == h \o Body(ps)
           b == v \o t
<1>1. /\ ps \in Seq(Properties)
      /\ f = [tid |-> f.tid, seoj |-> f.seoj, deoj |-> f.deoj, esv |-> f.esv, props |-> ps]
  BY DEF Frames
<1>2. Encode(f) \o t = b
  BY DEF Encode, Header, Body
<1>3. h \in Seq(Byte) /\ Len(h) = 12
  BY HeaderBytes
<1>4. Body(ps) \in Seq(Byte) /\ First(ps, Len(ps)) = ps
  BY <1>1, BodyBytes
<1> HIDE DEF h, ps
<1>5. /\ v \in Seq(Byte) /\ Len(v) = Len(h) + Len(Body(ps)) /\ Len(Body(ps)) \in Nat
      /\ Len(h) \in Nat /\ \A i \in 1..Len(h) : v[i] = h[i]
  <2>1. h \in Seq(Byte) /\ Body(ps) \in Seq(Byte)
    BY <1>3, <1>4
  <2> QED  BY <2>1, Joined
<1>6. b = Whole(h, ps, t)
  BY DEF Whole
<1> HIDE DEF v
<1>7. /\ b \in Seq(Byte) /\ Len(b) = Len(v) + Len(t) /\ Len(v) \in Nat /\ Len(t) \in Nat
      /\ \A i \in 1..Len(v) : b[i] = v[i]
  <2>1. v \in Seq(Byte)
    BY <1>5
  <2> QED  BY <2>1, Joined
<1> HIDE DEF b
<1>8. \A i \in 1..Len(h) : b[i] = h[i]
  BY <1>5, <1>7
<1>9. Len(b) \in Nat /\ Len(b) >= Len(h)
  BY <1>5, <1>7
<1>10. HeaderIn(b, f)
  <2>1. Len(b) >= 12 /\ \A i \in 1..12 : b[i] = h[i]
    BY <1>3, <1>8, <1>9
  <2>2. b \in Seq(Byte) /\ Len(b) \in Nat
    BY <1>7, <1>9
  <2> QED  BY <2>1, <2>2, HeaderRead DEF h
<1>11. DecodeProps(b) = Read(h, ps, Len(ps))
  <2>1. b[12] = Len(ps)
    BY <1>10 DEF HeaderIn, ps
  <2> QED  BY <2>1, <1>1, <1>3, <1>6, LoopReads
<1>12. DecodeProps(b).ok /\ DecodeProps(b).props = ps
  BY <1>4, <1>11 DEF Read
<1>13. ~(Len(b) < 12)
  BY <1>9, <1>10 DEF HeaderIn
<1> QED  BY <1>1, <1>2, <1>10, <1>12, <1>13 DEF HeaderIn, Decode

(* b is the first m bytes of v. *)
Begins(b, m, v) == Len(b) = m /\ \A i \in 1..m : b[i] = v[i]

(* A pass over what is left of a frame: either it fails, or it reads what  *)
(* it would have read of the whole, within what is left.                   *)
LEMMA CutPass ==
  ASSUME NEW h \in Seq(Byte), NEW ps \in Seq(Properties), NEW n \in 0..(Len(ps) - 1),
         NEW m \in Nat, NEW b, Begins(b, m, h \o Body(ps)),
         NEW r, r.off = After(h, ps, n), DecodeProp(b, r).ok
  PROVE  /\ DecodeProp(b, r).off = After(h, ps, n + 1) /\ After(h, ps, n + 1) <= m
         /\ r.ok
<1> DEFINE v == h \o Body(ps)
           off == After(h, ps, n)
           l == Len(ps[n + 1].edt)
<1>1. v \in Seq(Byte) /\ Whole(h, ps, <<>>) = v
  <2>1. v \in Seq(Byte)
    BY BodyBytes, ConcatProperties
  <2> HIDE DEF v
  <2>2. v \o <<>> = v
    BY <2>1, ConcatEmptySeq
  <2> QED  BY <2>1, <2>2 DEF Whole, v
<1>2. /\ off \in Nat /\ After(h, ps, n + 1) = off + 2 + l /\ v[off + 2] = l
  <2>1. <<>> \in Seq(Byte)
    OBVIOUS
  <2>2. /\ StandsAt(Whole(h, ps, <<>>), off, ps[n + 1]) /\ off \in Nat
        /\ After(h, ps, n + 1) = off + 2 + l
    BY <2>1, PropertyAt
  <2> QED  BY <1>1, <2>2 DEF StandsAt
<1>3. l \in Nat
  <2>1. ps[n + 1] \in Properties
    BY LenProperties, ElementOfSeq
  <2>2. l \in Byte
    BY <2>1 DEF Properties
  <2> HIDE DEF l
  <2> QED  BY <2>2, ByteValue
<1>4. r.ok /\ off + 2 <= m /\ off + 2 + b[off + 2] <= m
      /\ DecodeProp(b, r).off = off + 2 + b[off + 2]
  BY DEF DecodeProp, Begins
<1> HIDE DEF v, l, off
<1>5. b[off + 2] = l
  <2>1. off + 2 \in 1..m
    BY <1>2, <1>4
  <2>2. b[off + 2] = v[off + 2]
    BY <2>1 DEF v, Begins
  <2> QED  BY <1>2, <2>2
<1> QED  BY <1>2, <1>4, <1>5 DEF off, l

(* What is cut of a frame, anywhere, is an error: Decode never takes a part *)
(* of a frame for a frame, however many properties it holds.                *)
THEOREM DecodeRefusesCut ==
  ASSUME NEW f \in Frames, NEW m \in 0..(Len(Encode(f)) - 1)
  PROVE  Decode(SubSeq(Encode(f), 1, m)) = Error
<1> DEFINE h == Header(f)
           ps == f.props
           v == h \o Body(ps)
           V == Len(v)
           b == SubSeq(v, 1, m)
           N == Len(ps)
<1>1. ps \in Seq(Properties) /\ N \in Nat
  BY LenProperties DEF Frames
<1>2. Encode(f) = v
  BY DEF Encode, Header, Body
<1>3. h \in Seq(Byte) /\ Len(h) = 12
  BY HeaderBytes
<1>4. Body(ps) \in Seq(Byte) /\ First(ps, N) = ps /\ First(ps, 0) = <<>>
  BY <1>1, BodyBytes
<1>5. /\ v \in Seq(Byte) /\ V = Len(h) + Len(Body(ps)) /\ V \in Nat
      /\ \A i \in 1..Len(h) : v[i] = h[i]
  <2>1. h \in Seq(Byte) /\ Body(ps) \in Seq(Byte)
    BY <1>3, <1>4
  <2> HIDE DEF h, ps
  <2>2. /\ v \in Seq(Byte) /\ Len(v) = Len(h) + Len(Body(ps))
        /\ \A i \in 1..Len(h) : v[i] = h[i]
    BY <2>1, Joined
  <2> QED  BY <2>2, LenProperties
<1>6. m \in Nat /\ V \in Nat /\ m < V
  BY <1>2, <1>5
<1>7. b \in Seq(Byte) /\ Len(b) = m /\ \A i \in 1..m : b[i] = v[i]
  <2>1. \A i \in 1..m : v[i] \in Byte
    BY <1>5, <1>6, ElementOfSeq
  <2> HIDE DEF v
  <2> QED  BY <2>1, <1>6, SubSeqProperties
<1>8. h[12] = N
  BY HeaderBytes
<1> HIDE DEF v, V, h, ps, N, b
<1>9. SUFFICES ASSUME m >= 12 PROVE ~DecodeProps(b).ok
  BY <1>2, <1>6, <1>7 DEF Decode, b
<1>10. b[12] = N
  <2>1. 12 \in 1..m /\ 12 \in 1..Len(h)
    BY <1>3, <1>6, <1>9
  <2> QED  BY <2>1, <1>5, <1>7, <1>8
<1>11. /\ Passes(b)[0] = NoPass
       /\ \A n \in 0..(N - 1) : Passes(b)[n + 1] = DecodeProp(b, Passes(b)[n])
  BY <1>1, <1>10, PassesSteps
<1> DEFINE T == {n \in Nat : n <= N /\ Passes(b)[n].ok =>
                                /\ Passes(b)[n].off = After(h, ps, n)
                                /\ n = 0 \/ After(h, ps, n) <= m}
<1>12. 0 \in T
  <2>1. Body(<<>>) = <<>> /\ Len(<<>>) = 0
    BY DEF Body, FlattenSeq
  <2>2. After(h, ps, 0) = 12 + 0
    BY <1>3, <1>4, <2>1 DEF After
  <2>3. After(h, ps, 0) = 12
    BY <2>2
  <2> QED  BY <1>11, <2>3 DEF NoPass
<1>13. ASSUME NEW n \in Nat, n \in T PROVE n + 1 \in T
  <2> SUFFICES ASSUME n + 1 <= N, Passes(b)[n + 1].ok
               PROVE  /\ Passes(b)[n + 1].off = After(h, ps, n + 1)
                      /\ After(h, ps, n + 1) <= m
    OBVIOUS
  <2>1. n \in 0..(N - 1) /\ n <= N
    BY <1>1
  <2> DEFINE r == Passes(b)[n]
  <2>2. Passes(b)[n + 1] = DecodeProp(b, r)
    BY <1>11, <2>1
  <2>3. r.ok
    BY <2>2 DEF DecodeProp
  <2>4. r.off = After(h, ps, n)
    BY <1>13, <2>1, <2>3
  <2>5. Begins(b, m, h \o Body(ps))
    BY <1>7 DEF v, Begins
  <2>6. n \in 0..(Len(ps) - 1) /\ DecodeProp(b, r).ok
    BY <2>1, <2>2 DEF N
  <2> HIDE DEF r
  <2>7. h \in Seq(Byte) /\ m \in Nat
    BY <1>3, <1>6
  <2>8. /\ DecodeProp(b, r).off = After(h, ps, n + 1) /\ After(h, ps, n + 1) <= m
    BY <1>1, <2>4, <2>5, <2>6, <2>7, CutPass
  <2> QED  BY <2>2, <2>8
<1>14. N \in T
  <2> HIDE DEF T
  <2> QED  BY <1>1, <1>12, <1>13, SetInduction
<1>15. After(h, ps, N) = V
  BY <1>4, <1>5 DEF After
<1>16. N = 0 => V = 12
  <2> SUFFICES ASSUME N = 0 PROVE V = 12
    OBVIOUS
  <2>1. ps = <<>>
    BY <1>4
  <2>2. Len(Body(ps)) = 0
    BY <2>1 DEF Body, FlattenSeq
  <2> QED  BY <1>3, <1>5, <2>2
<1>17. DecodeProps(b) = Passes(b)[N]
  BY <1>10 DEF DecodeProps
<1>18. Passes(b)[N].ok => N = 0 \/ After(h, ps, N) <= m
  BY <1>1, <1>14
<1>19. CASE N = 0
  BY <1>6, <1>9, <1>16, <1>19
<1>20. CASE N # 0
  <2>1. ~(After(h, ps, N) <= m)
    BY <1>6, <1>15
  <2>2. ~Passes(b)[N].ok
    BY <1>18, <1>20, <2>1, Zenon
  <2> QED  BY <1>17, <2>2, Zenon
<1> QED  BY <1>19, <1>20

=============================================================================
