---------------------------- MODULE ValueProofs ----------------------------
(***************************************************************************)
(* What is proved of the values: for everything the meter can measure, the *)
(* decoder of decode.go gives back what Reading's Wires writes, in the     *)
(* bytes of a property and with the sign, the codes for "no value", the    *)
(* time and the table of a property map.                                   *)
(***************************************************************************)
EXTENDS Reading, EchonetProofs

-----------------------------------------------------------------------------
(* The numbers of two and of four bytes, and how BE16 and BE32 split them. *)
Int16 == {n \in Int : -32768 <= n /\ n <= 32767}
Int32 == {n \in Int : -2147483648 <= n /\ n <= 2147483647}
Low(n) == n % 256
Rest(n) == n \div 256
Low16(n) == n % 65536
Rest16(n) == n \div 65536
Join(h, l) == 65536 * h + l
Plain(w, r) == IF w < 128 THEN 256 * w + r ELSE 256 * w + r - 65536

LEMMA Rearranged ==
  ASSUME NEW n \in Int, NEW q \in Int, NEW r \in Int, NEW k \in Nat, r = n - k * q
  PROVE  n = k * q + r
<1>1. k * q \in Int
  OBVIOUS
<1> QED  BY <1>1

(* The two halves of a number make it up again.                            *)
LEMMA LowRest ==
  ASSUME NEW n \in Int
  PROVE  /\ Rest(n) \in Int /\ Low(n) \in 0..255 /\ n = 256 * Rest(n) + Low(n)
         /\ BE16(n) = <<Low(Rest(n)), Low(n)>>
<1>1. \E q \in Int : n \div 256 = q /\ n % 256 = n - 256 * q /\ n % 256 \in 0..255
  OBVIOUS
<1>2. Rest(n) \in Int /\ Low(n) = n - 256 * Rest(n) /\ Low(n) \in 0..255
  BY <1>1 DEF Rest, Low
<1>3. n = 256 * Rest(n) + Low(n)
  BY <1>2, Rearranged
<1>4. BE16(n) = <<Low(Rest(n)), Low(n)>>
  BY DEF BE16, Low, Rest
<1> QED  BY <1>2, <1>3, <1>4

LEMMA LowRest16 ==
  ASSUME NEW n \in Int
  PROVE  /\ Rest16(n) \in Int /\ Low16(n) \in Word /\ Low16(n) \in Int
         /\ n = Join(Rest16(n), Low16(n))
<1>1. \E q \in Int : n \div 65536 = q /\ n % 65536 = n - 65536 * q
              /\ 0 <= n % 65536 /\ n % 65536 <= 65535
  BY SMT
<1>2. Rest16(n) \in Int /\ Low16(n) \in Int /\ Low16(n) = n - 65536 * Rest16(n)
  BY <1>1, SMT DEF Rest16, Low16
<1>3. ASSUME NEW q \in Int, NEW r \in Int, r = n - 65536 * q
      PROVE  n = Join(q, r)
  BY <1>3, SMT DEF Join
<1>4. n = Join(Rest16(n), Low16(n))
  BY <1>2, <1>3, SMT
<1>5. Low16(n) \in Word
  BY <1>1, SMT DEF Low16, Word
<1> QED  BY <1>2, <1>4, <1>5

LEMMA BytesOfWord ==
  ASSUME NEW n \in Int
  PROVE  BE16(n) \in Seq(Byte) /\ Len(BE16(n)) = 2
<1>1. Low(Rest(n)) \in Byte /\ Low(n) \in Byte
  BY LowRest DEF Byte
<1>2. BE16(n) = <<Low(Rest(n)), Low(n)>>
  BY LowRest
<1> QED  BY <1>1, <1>2

(* The sign of two bytes: q is the number above the low byte r.            *)
Fits(q, r) == q \in Int /\ r \in 0..255 /\ -32768 <= 256 * q + r /\ 256 * q + r <= 32767

LEMMA SignOf ==
  ASSUME NEW q, NEW r, Fits(q, r)
  PROVE  S16(<<Low(q), r>>) = 256 * q + r
<1>1. q \in Int /\ r \in Int /\ -128 <= q /\ q <= 127
  BY SMT DEF Fits
<1>2. S16(<<Low(q), r>>) = Plain(Low(q), r)
  <2>1. ASSUME NEW w \in Int, NEW x \in Int PROVE S16(<<w, x>>) = Plain(w, x)
    BY SMT DEF S16, U16, Plain
  <2>2. Low(q) \in Int
    BY <1>1, SMT DEF Low
  <2> QED  BY <1>1, <2>1, <2>2
<1>3. CASE q >= 0
  <2>1. Low(q) = q /\ q < 128
    BY <1>1, <1>3, SMT DEF Low
  <2> QED  BY <1>1, <1>2, <2>1, SMT DEF Plain
<1>4. CASE q < 0
  <2>1. Low(q) = q + 256 /\ ~(q + 256 < 128)
    BY <1>1, <1>4, SMT DEF Low
  <2>2. Plain(q + 256, r) = 256 * (q + 256) + r - 65536
    BY <2>1, SMT DEF Plain
  <2>3. 256 * (q + 256) + r - 65536 = 256 * q + r
    BY <1>1, SMT
  <2> QED  BY <1>2, <2>1, <2>2, <2>3, SMT
<1> QED  BY <1>1, <1>3, <1>4, SMT

(* binary.BigEndian and the conversion to int16.                           *)
LEMMA Signed16 ==
  ASSUME NEW n \in Int16
  PROVE  n \in Int /\ S16(BE16(n)) = n
<1> DEFINE q == Rest(n)
           r == Low(n)
<1>1. n \in Int /\ -32768 <= n /\ n <= 32767
  BY SMT DEF Int16
<1>2. q \in Int /\ r \in 0..255 /\ n = 256 * q + r /\ BE16(n) = <<Low(q), r>>
  BY <1>1, LowRest
<1> HIDE DEF q, r
<1>3. -32768 <= 256 * q + r /\ 256 * q + r <= 32767
  BY <1>1, <1>2, SMT
<1>4. Fits(q, r)
  BY <1>2, <1>3, SMT DEF Fits
<1>5. S16(<<Low(q), r>>) = 256 * q + r
  BY <1>4, SignOf
<1>6. S16(BE16(n)) = 256 * q + r
  BY <1>2, <1>5, SMT
<1>7. S16(BE16(n)) = n
  BY <1>2, <1>6, SMT
<1> QED  BY <1>1, <1>7, SMT

LEMMA Unsigned16 ==
  ASSUME NEW n \in Int
  PROVE  U16(BE16(n)) = Low16(n)
<1>1. 256 * ((n \div 256) % 256) + (n % 256) = n % 65536
  BY SMT
<1> QED  BY <1>1, SMT DEF BE16, U16, Low16

(* Two parts, taken apart again. *)
LEMMA TwoParts ==
  ASSUME NEW S, NEW a \in Seq(S), NEW b \in Seq(S)
  PROVE  /\ a \o b \in Seq(S) /\ Len(a \o b) = Len(a) + Len(b)
         /\ SubSeq(a \o b, 1, Len(a)) = a
         /\ SubSeq(a \o b, Len(a) + 1, Len(a) + Len(b)) = b
<1> DEFINE w == a \o b
           k == Len(a)
<1>1. /\ w \in Seq(S) /\ Len(w) = k + Len(b) /\ k \in Nat /\ \A i \in 1..k : w[i] = a[i]
      /\ \A i \in 1..Len(b) : w[k + i] = b[i]
  BY Joined
<1> HIDE DEF w, k
<1>2. SubSeq(w, k + 1, k + Len(b)) = b
  BY <1>1, Slice
<1>3. SubSeq(w, 0 + 1, 0 + Len(a)) = a
  <2>1. \A i \in 1..Len(a) : w[0 + i] = a[i]
    BY <1>1 DEF k
  <2> QED  BY <2>1, Slice
<1>4. 0 + 1 = 1 /\ 0 + k = k
  BY <1>1
<1> QED  BY <1>1, <1>2, <1>3, <1>4 DEF w, k

(* A byte for each choice of its eight bits.                               *)
LEMMA RowBits ==
  ASSUME NEW S, NEW i
  PROVE  \E b \in 0..255 : \A k \in 0..7 : Bit(b, k) <=> 128 + 16 * k + i \in S
<1> DEFINE q(k) == IF 128 + 16 * k + i \in S THEN 1 ELSE 0
           a0 == q(0)
           a1 == q(1)
           a2 == q(2)
           a3 == q(3)
           a4 == q(4)
           a5 == q(5)
           a6 == q(6)
           a7 == q(7)
           b == a0 + 2 * a1 + 4 * a2 + 8 * a3 + 16 * a4 + 32 * a5 + 64 * a6 + 128 * a7
<1>1. a0 \in {0, 1} /\ a1 \in {0, 1} /\ a2 \in {0, 1} /\ a3 \in {0, 1}
      /\ a4 \in {0, 1} /\ a5 \in {0, 1} /\ a6 \in {0, 1} /\ a7 \in {0, 1}
  OBVIOUS
<1> HIDE DEF a0, a1, a2, a3, a4, a5, a6, a7
<1>2. b \in 0..255
  BY <1>1
<1>3. /\ Bit(b, 0) <=> a0 = 1
      /\ Bit(b, 1) <=> a1 = 1
      /\ Bit(b, 2) <=> a2 = 1
      /\ Bit(b, 3) <=> a3 = 1
      /\ Bit(b, 4) <=> a4 = 1
      /\ Bit(b, 5) <=> a5 = 1
      /\ Bit(b, 6) <=> a6 = 1
      /\ Bit(b, 7) <=> a7 = 1
  <2>1. 2^0 = 1 /\ 2^1 = 2 /\ 2^2 = 4 /\ 2^3 = 8 /\ 2^4 = 16 /\ 2^5 = 32 /\ 2^6 = 64 /\ 2^7 = 128
    OBVIOUS
  <2>2. a0 \in Nat /\ a1 \in Nat /\ a2 \in Nat /\ a3 \in Nat
        /\ a4 \in Nat /\ a5 \in Nat /\ a6 \in Nat /\ a7 \in Nat
    BY <1>1
  <2>3. /\ b \div 1 = a0 + 2 * (a1 + 2 * a2 + 4 * a3 + 8 * a4 + 16 * a5 + 32 * a6 + 64 * a7)
        /\ b \div 2 = a1 + 2 * (a2 + 2 * a3 + 4 * a4 + 8 * a5 + 16 * a6 + 32 * a7)
        /\ b \div 4 = a2 + 2 * (a3 + 2 * a4 + 4 * a5 + 8 * a6 + 16 * a7)
        /\ b \div 8 = a3 + 2 * (a4 + 2 * a5 + 4 * a6 + 8 * a7)
    BY <1>1
  <2>4. /\ b \div 16 = a4 + 2 * (a5 + 2 * a6 + 4 * a7)
        /\ b \div 32 = a5 + 2 * (a6 + 2 * a7)
        /\ b \div 64 = a6 + 2 * a7
        /\ b \div 128 = a7 + 2 * 0
    BY <1>1
  <2>5. ASSUME NEW a \in {0, 1}, NEW c \in Nat PROVE (a + 2 * c) % 2 = a
    OBVIOUS
  <2> HIDE DEF b
  <2>6. (Bit(b, 0) <=> a0 = 1) /\ (Bit(b, 1) <=> a1 = 1)
    BY <1>1, <2>1, <2>2, <2>3, <2>5 DEF Bit
  <2>7. (Bit(b, 2) <=> a2 = 1) /\ (Bit(b, 3) <=> a3 = 1)
    BY <1>1, <2>1, <2>2, <2>3, <2>5 DEF Bit
  <2>8. (Bit(b, 4) <=> a4 = 1) /\ (Bit(b, 5) <=> a5 = 1)
    BY <1>1, <2>1, <2>2, <2>4, <2>5 DEF Bit
  <2>9. (Bit(b, 6) <=> a6 = 1) /\ (Bit(b, 7) <=> a7 = 1)
    BY <1>1, <2>1, <2>2, <2>4, <2>5 DEF Bit
  <2> QED  BY <2>6, <2>7, <2>8, <2>9
<1> HIDE DEF b
<1>4. ASSUME NEW k \in 0..7 PROVE Bit(b, k) <=> q(k) = 1
  <2>1. k \in {0, 1, 2, 3, 4, 5, 6, 7}
    OBVIOUS
  <2> HIDE DEF q
  <2>2. /\ Bit(b, 0) <=> q(0) = 1
        /\ Bit(b, 1) <=> q(1) = 1
        /\ Bit(b, 2) <=> q(2) = 1
        /\ Bit(b, 3) <=> q(3) = 1
        /\ Bit(b, 4) <=> q(4) = 1
        /\ Bit(b, 5) <=> q(5) = 1
        /\ Bit(b, 6) <=> q(6) = 1
        /\ Bit(b, 7) <=> q(7) = 1
    BY <1>3 DEF a0, a1, a2, a3, a4, a5, a6, a7
  <2> QED  BY <2>1, <2>2
<1>5. ASSUME NEW k \in 0..7 PROVE q(k) = 1 <=> 128 + 16 * k + i \in S
  OBVIOUS
<1> HIDE DEF q
<1>6. \A k \in 0..7 : Bit(b, k) <=> 128 + 16 * k + i \in S
  BY <1>4, <1>5
<1> QED  BY <1>2, <1>6

LEMMA Halves ==
  ASSUME NEW n \in Int32
  PROVE  /\ n \in Int /\ Rest16(n) \in Int16 /\ Join(Rest16(n), Low16(n)) = n
         /\ Low16(n) \in Int
<1>1. n \in Int /\ -2147483648 <= n /\ n <= 2147483647
  BY SMT DEF Int32
<1>2. Rest16(n) \in Int /\ Low16(n) \in Word /\ n = Join(Rest16(n), Low16(n))
  <2>1. n \in Int
    BY <1>1, SMT
  <2> QED  BY <2>1, LowRest16
<1> DEFINE h == Rest16(n)
           l == Low16(n)
<1> HIDE DEF h, l
<1>3. ASSUME NEW m \in Int, NEW x \in Int, NEW y \in Word, m = 65536 * x + y,
             -2147483648 <= m, m <= 2147483647
      PROVE  x \in Int16
  <2>0. y \in Int /\ 0 <= y /\ y <= 65535
    BY SMT DEF Word
  <2>1. -32768 <= x /\ x <= 32767
    BY <1>3, <2>0, SMT
  <2> QED  BY <2>1, SMT DEF Int16
<1>4. n = 65536 * Rest16(n) + Low16(n)
  BY <1>2, SMT DEF Join
<1>5. Low16(n) \in Int
  <2>1. n \in Int
    BY <1>1, SMT
  <2> QED  BY <2>1, LowRest16
<1>6. Rest16(n) \in Int16
  BY <1>1, <1>2, <1>3, <1>4, SMT
<1> QED  BY <1>1, <1>2, <1>5, <1>6, SMT

(* The conversion to int32.                                                *)
LEMMA Signed32 ==
  ASSUME NEW n \in Int32
  PROVE  BE32(n) \in Seq(Byte) /\ Len(BE32(n)) = 4 /\ S32(BE32(n)) = n
<1> DEFINE h == Rest16(n)
           l == Low16(n)
           a == BE16(h)
           b == BE16(n)
           w == a \o b
<1>1. n \in Int /\ h \in Int16 /\ Join(h, l) = n /\ l \in Int
  BY Halves
<1>2. BE32(n) = w
  BY DEF BE32, Rest16
<1>3. h \in Int /\ S16(a) = h
  BY <1>1, Signed16
<1>4. U16(b) = l
  BY <1>1, Unsigned16
<1>5. a \in Seq(Byte) /\ b \in Seq(Byte) /\ Len(a) = 2 /\ Len(b) = 2
  BY <1>1, <1>3, BytesOfWord
<1> HIDE DEF a, b, h, l
<1>8. /\ w \in Seq(Byte) /\ Len(w) = Len(a) + Len(b)
      /\ SubSeq(w, 1, Len(a)) = a /\ SubSeq(w, Len(a) + 1, Len(a) + Len(b)) = b
  <2>1. a \in Seq(Byte) /\ b \in Seq(Byte)
    BY <1>5
  <2> QED  BY <2>1, TwoParts
<1> HIDE DEF w
<1>9. 2 + 1 = 3 /\ 2 + 2 = 4
  OBVIOUS
<1>10. Len(w) = 4 /\ SubSeq(w, 1, 2) = a /\ SubSeq(w, 3, 4) = b
  BY <1>5, <1>8, <1>9
<1>11. S32(w) = Join(h, l)
  <2>1. S32(w) = Join(S16(SubSeq(w, 1, 2)), U16(SubSeq(w, 3, 4)))
    BY SMT DEF S32, Join
  <2> QED  BY <1>3, <1>4, <1>10, <2>1, Zenon
<1> QED  BY <1>1, <1>2, <1>8, <1>10, <1>11

-----------------------------------------------------------------------------
(* Code by code.                                                           *)

(* DecodeInstantPower: every int32 but the three codes that mean no value, *)
(* and each of these as no value.                                          *)
THEOREM PowerInverts ==
  ASSUME NEW v \in Options(Watts), NEW w \in Wires(EPC.Power, v)
  PROVE  w \in Seq(Byte) /\ Len(w) = 4 /\ DecodeInstantPower(w) = [ok |-> TRUE, watt |-> v]
<1>1. CASE v = {}
  <2>1. w \in NoPower
    BY <1>1 DEF Wires, EPC
  <2>2. w \in Seq(Byte) /\ Len(w) = 4
    <3> DEFINE x == <<128, 0, 0, 0>>
               y == <<127, 255, 255, 255>>
               z == <<127, 255, 255, 254>>
    <3>1. x \in Seq(Byte) /\ Len(x) = 4
      BY DEF Byte
    <3>2. y \in Seq(Byte) /\ Len(y) = 4
      BY DEF Byte
    <3>3. z \in Seq(Byte) /\ Len(z) = 4
      BY DEF Byte
    <3>4. w = x \/ w = y \/ w = z
      BY <2>1 DEF NoPower
    <3> HIDE DEF x, y, z
    <3> QED  BY <3>1, <3>2, <3>3, <3>4
  <2> QED  BY <1>1, <2>1, <2>2 DEF DecodeInstantPower, Opt
<1>2. ASSUME NEW n \in Watts, v = {n} PROVE w \in Seq(Byte) /\ Len(w) = 4
                                        /\ DecodeInstantPower(w) = [ok |-> TRUE, watt |-> v]
  <2>0. Wires(EPC.Power, v) = {BE32(m) : m \in v}
    BY <1>2 DEF Wires, EPC
  <2>1. w = BE32(n)
    BY <1>2, <2>0
  <2>2. n \in Int /\ -2147483647 <= n /\ n <= 2147483645
    BY ReadingAssumption, SMT
  <2>3. w \in Seq(Byte) /\ Len(w) = 4 /\ S32(w) = n
    <3>1. n \in Int32
      BY <2>2, SMT DEF Int32
    <3> QED  BY <2>1, <3>1, Signed32
  <2>4. /\ S32(<<128, 0, 0, 0>>) = -2147483648 /\ S32(<<127, 255, 255, 255>>) = 2147483647
        /\ S32(<<127, 255, 255, 254>>) = 2147483646
    BY DEF S32, S16, U16
  <2>5. w \notin NoPower
    <3> SUFFICES ASSUME w \in NoPower PROVE FALSE
      OBVIOUS
    <3>1. S32(w) \in {-2147483648, 2147483647, 2147483646}
      BY <2>4, SMT DEF NoPower
    <3> QED  BY <2>2, <2>3, <3>1, SMT
  <2> QED  BY <1>2, <2>3, <2>5 DEF DecodeInstantPower, Opt
<1> QED  BY <1>1, <1>2 DEF Options

(* DecodeCurrent: each phase has its own code for no value.                *)
LEMMA TenthsInverts ==
  ASSUME NEW v \in Options(Amps)
  PROVE  Tenths(v) \in Seq(Byte) /\ Len(Tenths(v)) = 2 /\ Ampere(Tenths(v)) = v
<1>1. CASE v = {}
  BY <1>1 DEF Tenths, Ampere, Opt, Byte
<1>2. ASSUME NEW n \in Amps, v = {n} PROVE Tenths(v) \in Seq(Byte) /\ Len(Tenths(v)) = 2
                                        /\ Ampere(Tenths(v)) = v
  <2>1. Tenths(v) = BE16(n)
    BY <1>2 DEF Tenths
  <2>2. n \in Int /\ -32768 <= n /\ n <= 32767 /\ n # 32766
    BY ReadingAssumption, SMT
  <2>3. S16(BE16(n)) = n /\ BE16(n) # <<127, 254>>
    <3>1. n \in Int16
      BY <2>2, SMT DEF Int16
    <3>2. S16(BE16(n)) = n
      BY <3>1, Signed16
    <3>3. S16(<<127, 254>>) = 32766
      BY SMT DEF S16, U16
    <3> QED  BY <2>2, <3>2, <3>3, SMT
  <2>4. BE16(n) \in Seq(Byte) /\ Len(BE16(n)) = 2
    BY <2>2, BytesOfWord
  <2> QED  BY <1>2, <2>1, <2>3, <2>4 DEF Ampere, Opt
<1> QED  BY <1>1, <1>2 DEF Options

LEMMA CurrentInverts ==
  ASSUME NEW v \in [r : Options(Amps), t : Options(Amps)], NEW w \in Wires(EPC.Current, v)
  PROVE  w \in Seq(Byte) /\ Len(w) = 4 /\ DecodeCurrent(w) = [ok |-> TRUE, r |-> v.r, t |-> v.t]
<1> DEFINE a == Tenths(v.r)
           b == Tenths(v.t)
           c == a \o b
<1>1. w = c
  BY DEF Wires, EPC
<1>2. /\ a \in Seq(Byte) /\ Len(a) = 2 /\ Ampere(a) = v.r
      /\ b \in Seq(Byte) /\ Len(b) = 2 /\ Ampere(b) = v.t
  BY TenthsInverts
<1> HIDE DEF a, b
<1>3. /\ c \in Seq(Byte) /\ Len(c) = Len(a) + Len(b)
      /\ SubSeq(c, 1, Len(a)) = a /\ SubSeq(c, Len(a) + 1, Len(a) + Len(b)) = b
  <2>1. a \in Seq(Byte) /\ b \in Seq(Byte)
    BY <1>2
  <2> QED  BY <2>1, TwoParts
<1> HIDE DEF c
<1>4. 2 + 1 = 3 /\ 2 + 2 = 4
  OBVIOUS
<1>5. Len(c) = 4 /\ SubSeq(c, 1, 2) = a /\ SubSeq(c, 3, 4) = b
  BY <1>2, <1>3, <1>4
<1> QED  BY <1>1, <1>2, <1>3, <1>5 DEF DecodeCurrent

(* Energies: four bytes as they are, or the code for no value.             *)
LEMMA FunctionSeq ==
  ASSUME NEW S, NEW n \in Nat, NEW b \in [1..n -> S]
  PROVE  b \in Seq(S) /\ Len(b) = n
<1>1. b \in Seq(S)
  BY SeqDef, Zenon
<1> QED  BY <1>1, LenProperties

LEMMA FourBytes ==
  ASSUME NEW b \in [1..4 -> Byte]
  PROVE  b \in Seq(Byte) /\ Len(b) = 4
<1> DEFINE n == 4
<1>1. n \in Nat /\ b \in [1..n -> Byte]
  OBVIOUS
<1> HIDE DEF n
<1>2. b \in Seq(Byte) /\ Len(b) = n
  BY <1>1, FunctionSeq
<1> QED  BY <1>2 DEF n

LEMMA RawInverts ==
  ASSUME NEW v \in Options(Raws)
  PROVE  Raw(v) \in Seq(Byte) /\ Len(Raw(v)) = 4 /\ Energy(Raw(v)) = v
<1>1. CASE v = {}
  BY <1>1 DEF Raw, Energy, Opt, NoData32, Byte
<1>2. ASSUME NEW b \in Raws, v = {b} PROVE Raw(v) \in Seq(Byte) /\ Len(Raw(v)) = 4
                                        /\ Energy(Raw(v)) = v
  <2>1. Raw(v) = b
    BY <1>2 DEF Raw
  <2>2. b \in [1..4 -> Byte] /\ b # NoData32
    BY ReadingAssumption, SMT DEF Byte
  <2>3. b \in Seq(Byte) /\ Len(b) = 4
    BY <2>2, FourBytes
  <2> QED  BY <1>2, <2>1, <2>2, <2>3 DEF Energy, Opt
<1> QED  BY <1>1, <1>2 DEF Options

LEMMA FwdInverts ==
  ASSUME NEW v \in Options(Raws), NEW w \in Wires(EPC.Fwd, v)
  PROVE  w \in Seq(Byte) /\ Len(w) = 4 /\ DecodeCumulativeEnergy(w) = [ok |-> TRUE, raw |-> v]
<1>1. w = Raw(v)
  BY DEF Wires, EPC
<1> QED  BY <1>1, RawInverts DEF DecodeCumulativeEnergy

(* Any seven bytes of a time.                                              *)
Time == {s \in Seq(Byte) : Len(s) = 7}

LEMMA ScheduledInverts ==
  ASSUME NEW v \in [time : Time, raw : Options(Raws)], NEW w \in Wires(EPC.Scheduled, v)
  PROVE  /\ w \in Seq(Byte) /\ Len(w) = 11
         /\ DecodeScheduled30(w) = [ok |-> TRUE, time |-> v.time, raw |-> v.raw]
<1> DEFINE a == v.time
           b == Raw(v.raw)
           c == a \o b
<1>1. w = c
  BY DEF Wires, EPC
<1>2. a \in Seq(Byte) /\ Len(a) = 7 /\ b \in Seq(Byte) /\ Len(b) = 4 /\ Energy(b) = v.raw
  BY RawInverts DEF Time
<1> HIDE DEF a, b
<1>3. /\ c \in Seq(Byte) /\ Len(c) = Len(a) + Len(b)
      /\ SubSeq(c, 1, Len(a)) = a /\ SubSeq(c, Len(a) + 1, Len(a) + Len(b)) = b
  <2>1. a \in Seq(Byte) /\ b \in Seq(Byte)
    BY <1>2
  <2> QED  BY <2>1, TwoParts
<1> HIDE DEF c
<1>4. 7 + 1 = 8 /\ 7 + 4 = 11
  OBVIOUS
<1>5. Len(c) = 11 /\ SubSeq(c, 1, 7) = a /\ SubSeq(c, 8, 11) = b
  BY <1>2, <1>3, <1>4
<1> QED  BY <1>1, <1>2, <1>3, <1>5 DEF DecodeScheduled30, a

LEMMA Min1Inverts ==
  ASSUME NEW v \in [time : Time, fwd : Options(Raws), rev : Options(Raws)],
         NEW w \in Wires(EPC.Min1, v)
  PROVE  /\ w \in Seq(Byte) /\ Len(w) = 15
         /\ DecodeCumulative1Min(w)
              = [ok |-> TRUE, time |-> v.time, fwd |-> v.fwd, rev |-> v.rev]
<1> DEFINE a == v.time
           b == Raw(v.fwd)
           e == Raw(v.rev)
           c == a \o b
           d == c \o e
<1>1. w = d
  BY DEF Wires, EPC
<1>2. /\ a \in Seq(Byte) /\ Len(a) = 7 /\ b \in Seq(Byte) /\ Len(b) = 4 /\ Energy(b) = v.fwd
      /\ e \in Seq(Byte) /\ Len(e) = 4 /\ Energy(e) = v.rev
  BY RawInverts DEF Time
<1> HIDE DEF a, b, e
<1>3. /\ c \in Seq(Byte) /\ Len(c) = Len(a) + Len(b)
      /\ \A i \in 1..Len(a) : c[i] = a[i]
      /\ \A i \in 1..Len(b) : c[Len(a) + i] = b[i]
  <2>1. a \in Seq(Byte) /\ b \in Seq(Byte)
    BY <1>2
  <2> QED  BY <2>1, Joined
<1> HIDE DEF c
<1>4. /\ d \in Seq(Byte) /\ Len(d) = Len(c) + Len(e)
      /\ \A i \in 1..Len(c) : d[i] = c[i]
      /\ \A i \in 1..Len(e) : d[Len(c) + i] = e[i]
  <2>1. c \in Seq(Byte) /\ e \in Seq(Byte)
    BY <1>2, <1>3
  <2> QED  BY <2>1, Joined
<1> HIDE DEF d
<1>5. /\ Len(c) = 11 /\ Len(d) = 15
      /\ \A i \in 1..7 : d[0 + i] = a[i]
      /\ \A i \in 1..4 : d[7 + i] = b[i]
      /\ \A i \in 1..4 : d[11 + i] = e[i]
  BY <1>2, <1>3, <1>4
<1>6. ASSUME NEW q \in Seq(Byte), NEW k \in Nat, NEW l \in Nat, Len(q) = l,
             \A i \in 1..l : d[k + i] = q[i]
      PROVE  SubSeq(d, k + 1, k + l) = q
  BY <1>6, Slice
<1>7. SubSeq(d, 0 + 1, 0 + 7) = a /\ SubSeq(d, 7 + 1, 7 + 4) = b /\ SubSeq(d, 11 + 1, 11 + 4) = e
  BY <1>2, <1>5, <1>6
<1>8. 0 + 1 = 1 /\ 0 + 7 = 7 /\ 7 + 1 = 8 /\ 7 + 4 = 11 /\ 11 + 1 = 12 /\ 11 + 4 = 15
  OBVIOUS
<1>9. SubSeq(d, 1, 7) = a /\ SubSeq(d, 8, 11) = b /\ SubSeq(d, 12, 15) = e
  BY <1>7, <1>8
<1> QED  BY <1>1, <1>2, <1>4, <1>5, <1>9 DEF DecodeCumulative1Min, a

(* UnitKwh: a listed unit as its power of ten, any other code as none.     *)
LEMMA UnitInverts ==
  ASSUME NEW v \in Options(Units), NEW w \in Wires(EPC.Unit, v)
  PROVE  w \in Seq(Byte) /\ Len(w) = 1 /\ UnitKwh(w[1]) = v
<1>1. CASE v = {}
  <2>1. w = <<5>> \/ w = <<238>>
    BY <1>1 DEF Wires, EPC
  <2>2. <<5>> \in Seq(Byte) /\ <<238>> \in Seq(Byte)
    BY DEF Byte
  <2>3. w \in Seq(Byte) /\ Len(w) = 1 /\ w[1] \in {5, 238}
    <3>1. CASE w = <<5>>
      BY <2>2, <3>1
    <3>2. CASE w = <<238>>
      BY <2>2, <3>2
    <3> QED  BY <2>1, <3>1, <3>2
  <2>4. w[1] \notin Exponents
    BY <2>3 DEF Exponents
  <2> QED  BY <1>1, <2>3, <2>4 DEF UnitKwh, Opt
<1>2. ASSUME NEW n \in Units, v = {n} PROVE w \in Seq(Byte) /\ Len(w) = 1 /\ UnitKwh(w[1]) = v
  <2>1. w = <<IF n > 0 THEN n + 9 ELSE -n>>
    BY <1>2 DEF Wires, EPC
  <2>2. n \in (-4)..4
    BY ReadingAssumption, SMT
  <2>3. CASE n > 0
    BY <1>2, <2>1, <2>2, <2>3 DEF UnitKwh, Opt, Exponents, Byte
  <2>4. CASE ~(n > 0)
    BY <1>2, <2>1, <2>2, <2>4 DEF UnitKwh, Opt, Exponents, Byte
  <2> QED  BY <2>3, <2>4
<1> QED  BY <1>1, <1>2 DEF Options

LEMMA FaultInverts ==
  ASSUME NEW v \in BOOLEAN, NEW w \in Wires(EPC.Fault, v)
  PROVE  w \in Seq(Byte) /\ Len(w) = 1 /\ (w[1] = 65) = v
<1>1. w = IF v THEN <<65>> ELSE <<66>>
  BY DEF Wires, EPC
<1>2. 65 \in Byte /\ 66 \in Byte
  BY DEF Byte
<1> QED  BY <1>1, <1>2

LEMMA CoefficientBytes ==
  ASSUME NEW v \in Coefs, NEW w \in Wires(EPC.Coefficient, v)
  PROVE  w \in Seq(Byte) /\ Len(w) = 4 /\ w = v
<1>1. w = v
  BY DEF Wires, EPC
<1>2. v \in [1..4 -> Byte]
  BY ReadingAssumption, SMT DEF Byte
<1> QED  BY <1>1, <1>2, FourBytes

(* A property map's codes in order: the n-th of a set of numbers.          *)
LEMMA Ranks ==
  ASSUME NEW S, S \subseteq Nat, IsFiniteSet(S)
  PROVE  {Code(S, n) : n \in 1..Cardinality(S)} = S
         /\ \A n \in 1..Cardinality(S) : Code(S, n) \in S
<1> DEFINE N == Cardinality(S)
           Below(c) == {d \in S : d < c}
           R == [c \in S |-> Cardinality(Below(c)) + 1]
<1>1. N \in Nat
  BY FS_CardinalityType
<1>2. ASSUME NEW c \in S
      PROVE  IsFiniteSet(Below(c)) /\ Cardinality(Below(c)) \in Nat /\ Cardinality(Below(c)) < N
  <2>1. Below(c) \in SUBSET S /\ c \notin Below(c)
    OBVIOUS
  <2> HIDE DEF Below
  <2>2. /\ IsFiniteSet(Below(c)) /\ Cardinality(Below(c)) <= N
        /\ N = Cardinality(Below(c)) => S = Below(c)
    BY <2>1, FS_Subset
  <2>3. Cardinality(Below(c)) \in Nat
    BY <2>2, FS_CardinalityType
  <2> QED  BY <1>1, <2>1, <2>2, <2>3
<1>3. R \in [S -> 1..N]
  <2> HIDE DEF Below, N
  <2> QED  BY <1>1, <1>2
<1>4. ASSUME NEW c \in S, NEW d \in S, c < d PROVE R[c] < R[d]
  <2>0. c \in Nat /\ d \in Nat /\ \A x \in S : x \in Nat
    OBVIOUS
  <2>1. Below(c) \in SUBSET Below(d) /\ c \in Below(d) /\ c \notin Below(c)
    <3>1. \A x \in Nat : x < c => x < d
      BY <1>4, <2>0
    <3>2. c < d /\ ~(c < c)
      BY <1>4, <2>0
    <3> QED  BY <2>0, <3>1, <3>2
  <2> HIDE DEF Below
  <2>2. /\ Cardinality(Below(c)) <= Cardinality(Below(d))
        /\ Cardinality(Below(d)) = Cardinality(Below(c)) => Below(d) = Below(c)
    BY <1>2, <2>1, FS_Subset
  <2> QED  BY <1>2, <2>1, <2>2
<1>5. \A c, d \in S : R[c] = R[d] => c = d
  <2> SUFFICES ASSUME NEW c \in S, NEW d \in S, R[c] = R[d] PROVE c = d
    OBVIOUS
  <2>1. c \in Nat /\ d \in Nat /\ R[c] \in Nat /\ R[d] \in Nat
    BY <1>3
  <2> HIDE DEF R
  <2>2. ~(c < d) /\ ~(d < c)
    BY <1>4, <2>1
  <2> QED  BY <2>1, <2>2
<1>6. R \in Injection(S, 1..N)
  BY <1>3, <1>5 DEF Injection, IsInjective
<1>7. IsFiniteSet(1..N) /\ Cardinality(1..N) = N
  <2>1. 1 \in Int /\ N \in Int /\ (IF 1 > N THEN 0 ELSE N - 1 + 1) = N
    BY <1>1
  <2> HIDE DEF N
  <2> QED  BY <2>1, FS_Interval
<1>8. R \in Surjection(S, 1..N)
  <2> HIDE DEF R
  <2> QED  BY <1>6, <1>7, FS_Injection
<1>9. \A n \in 1..N : \E c \in S : R[c] = n
  BY <1>8 DEF Surjection
<1>10. ASSUME NEW n \in 1..N PROVE Code(S, n) \in S /\ R[Code(S, n)] = n
  <2>1. \E c \in S : Cardinality(Below(c)) = n - 1
    <3>1. PICK c \in S : R[c] = n
      BY <1>9
    <3>2. R[c] = Cardinality(Below(c)) + 1
      OBVIOUS
    <3> HIDE DEF R, Below
    <3>3. Cardinality(Below(c)) = n - 1
      BY <1>2, <3>1, <3>2
    <3> QED  BY <3>3
  <2>2. Code(S, n) \in S /\ Cardinality(Below(Code(S, n))) = n - 1
    BY <2>1, Zenon DEF Code
  <2> QED  BY <2>2
<1>11. ASSUME NEW c \in S PROVE R[c] \in 1..N /\ Code(S, R[c]) = c
  <2>1. R[c] \in 1..N
    BY <1>3
  <2> HIDE DEF R
  <2> QED  BY <2>1, <1>5, <1>10
<1> QED  BY <1>10, <1>11

LEMMA BytesJoin ==
  ASSUME NEW c \in Byte, NEW e \in Seq(Byte)
  PROVE  /\ <<c>> \o e \in Seq(Byte) /\ Len(<<c>> \o e) = 1 + Len(e) /\ (<<c>> \o e)[1] = c
         /\ \A i \in 1..Len(e) : (<<c>> \o e)[1 + i] = e[i]
<1> DEFINE h == <<c>>
           w == h \o e
<1>1. h \in Seq(Byte) /\ Len(h) = 1 /\ h[1] = c
  OBVIOUS
<1> HIDE DEF h
<1>2. /\ w \in Seq(Byte) /\ Len(w) = Len(h) + Len(e)
      /\ \A i \in 1..Len(h) : w[i] = h[i]
      /\ \A i \in 1..Len(e) : w[Len(h) + i] = e[i]
  <2>1. h \in Seq(Byte)
    BY <1>1
  <2> QED  BY <2>1, Joined
<1> HIDE DEF w
<1>3. /\ w \in Seq(Byte) /\ Len(w) = 1 + Len(e) /\ w[1] = c
      /\ \A i \in 1..Len(e) : w[1 + i] = e[i]
  BY <1>1, <1>2
<1> QED  BY <1>3 DEF h, w

(* A map of fewer than 16 codes is a list of them, a longer one 16 bytes   *)
(* of bits.                                                                *)
LEMMA MapListInverts ==
  ASSUME NEW S, S \subseteq 128..255, NEW N, N = Cardinality(S), IsFiniteSet(S), N < 16
  PROVE  LET w == <<N>> \o [n \in 1..N |-> Code(S, n)]
         IN  w \in Seq(Byte) /\ Len(w) <= 17 /\ DecodePropertyMap(w) = [ok |-> TRUE, epcs |-> S]
<1> DEFINE e == [n \in 1..N |-> Code(S, n)]
           w == <<N>> \o e
<1>1. N \in Nat /\ S \subseteq Nat /\ S \subseteq Byte
  BY FS_CardinalityType DEF Byte
<1>2. {Code(S, n) : n \in 1..N} = S /\ \A n \in 1..N : Code(S, n) \in S
  BY <1>1, Ranks
<1>3. e \in Seq(Byte) /\ Len(e) = N
  <2>1. e \in [1..N -> Byte]
    BY <1>1, <1>2
  <2> HIDE DEF e
  <2> QED  BY <1>1, <2>1, FunctionSeq
<1>4. N \in Byte
  BY <1>1 DEF Byte
<1>5. \A n \in 1..N : e[n] = Code(S, n)
  OBVIOUS
<1> HIDE DEF e
<1>6. /\ w \in Seq(Byte) /\ Len(w) = 1 + N /\ w[1] = N
      /\ \A i \in 1..N : w[1 + i] = e[i]
  BY <1>3, <1>4, BytesJoin
<1> HIDE DEF w
<1>7. {w[1 + i] : i \in 1..N} = S
  BY <1>2, <1>5, <1>6
<1>8. w # <<>> /\ w[1] < 16 /\ ~(Len(w) < 1 + w[1]) /\ Len(w) <= 17
  BY <1>1, <1>6
<1>9. DecodePropertyMap(w) = [ok |-> TRUE, epcs |-> {w[1 + i] : i \in 1..w[1]}]
  BY <1>8 DEF DecodePropertyMap
<1> QED  BY <1>6, <1>7, <1>8, <1>9 DEF w, e

LEMMA MapBitsInvert ==
  ASSUME NEW S, S \subseteq 128..255, NEW N \in Byte, N >= 16
  PROVE  LET w == <<N>> \o [i \in 1..16 |-> Row(S, i - 1)]
         IN  w \in Seq(Byte) /\ Len(w) = 17 /\ DecodePropertyMap(w) = [ok |-> TRUE, epcs |-> S]
<1> DEFINE e == [i \in 1..16 |-> Row(S, i - 1)]
           w == <<N>> \o e
<1>1. ASSUME NEW i
      PROVE  Row(S, i) \in 0..255 /\ \A k \in 0..7 : Bit(Row(S, i), k) <=> 128 + 16 * k + i \in S
  <2> DEFINE B == 0..255
             Agrees(b) == \A k \in 0..7 : Bit(b, k) <=> 128 + 16 * k + i \in S
  <2>1. \E b \in B : Agrees(b)
    BY RowBits
  <2>2. Row(S, i) = CHOOSE b \in B : Agrees(b)
    BY DEF Row
  <2> HIDE DEF B, Agrees
  <2>3. Row(S, i) \in B /\ Agrees(Row(S, i))
    BY <2>1, <2>2, Zenon
  <2> QED  BY <2>3 DEF B, Agrees
<1>2. e \in Seq(Byte) /\ Len(e) = 16
  <2>1. e \in [1..16 -> Byte]
    BY <1>1 DEF Byte
  <2> DEFINE m == 16
  <2>2. m \in Nat /\ e \in [1..m -> Byte]
    BY <2>1
  <2> HIDE DEF e, m
  <2>3. e \in Seq(Byte) /\ Len(e) = m
    BY <2>2, FunctionSeq
  <2> QED  BY <2>3 DEF m
<1>3. \A i \in 0..15 : e[1 + i] = Row(S, i)
  OBVIOUS
<1> HIDE DEF e
<1>4. /\ w \in Seq(Byte) /\ Len(w) = 1 + Len(e) /\ w[1] = N
      /\ \A i \in 1..Len(e) : w[1 + i] = e[i]
  <2>1. e \in Seq(Byte)
    BY <1>2
  <2> QED  BY <2>1, BytesJoin
<1> HIDE DEF w
<1>5. Len(w) = 17 /\ \A i \in 0..15 : w[2 + i] = Row(S, i)
  <2>1. \A i \in 0..15 : 1 + i \in 1..16 /\ 1 + (1 + i) = 2 + i
    OBVIOUS
  <2> QED  BY <1>2, <1>3, <1>4, <2>1
<1>6. BitmapCodes(w) = S
  <2>1. ASSUME NEW c \in (0..15) \X (0..7)
        PROVE  Bit(w[2 + c[1]], c[2]) <=> 16 * (c[2] + 8) + c[1] \in S
    <3>1. c[1] \in 0..15 /\ c[2] \in 0..7
      OBVIOUS
    <3>2. 16 * (c[2] + 8) + c[1] = 128 + 16 * c[2] + c[1]
      BY <3>1
    <3> QED  BY <1>1, <1>5, <3>1, <3>2
  <2>2. ASSUME NEW s \in S PROVE \E c \in (0..15) \X (0..7) : s = 16 * (c[2] + 8) + c[1]
    <3>1. s \in 128..255
      OBVIOUS
    <3> DEFINE k == (s \div 16) - 8
               i == s % 16
               D == (0..15) \X (0..7)
               CodeAt(c) == 16 * (c[2] + 8) + c[1]
    <3>2. k \in 0..7 /\ i \in 0..15 /\ s = 16 * (k + 8) + i
      BY <3>1
    <3> HIDE DEF k, i
    <3>3. <<i, k>> \in D /\ s = CodeAt(<<i, k>>)
      BY <3>2
    <3> HIDE DEF D, CodeAt
    <3>4. \E c \in D : s = CodeAt(c)
      BY <3>3
    <3> QED  BY <3>4 DEF D, CodeAt
  <2> DEFINE D == (0..15) \X (0..7)
             P(c) == Bit(w[2 + c[1]], c[2])
             CodeAt(c) == 16 * (c[2] + 8) + c[1]
  <2>3. BitmapCodes(w) = {CodeAt(c) : c \in {c \in D : P(c)}}
    BY DEF BitmapCodes
  <2>4. /\ \A c \in D : P(c) <=> CodeAt(c) \in S
        /\ \A s \in S : \E c \in D : s = CodeAt(c)
    BY <2>1, <2>2
  <2> HIDE DEF D, P, CodeAt
  <2>5. ASSUME NEW c \in {c \in D : P(c)} PROVE CodeAt(c) \in S
    BY <2>4, Zenon
  <2>6. ASSUME NEW s \in S PROVE \E c \in {c \in D : P(c)} : s = CodeAt(c)
    BY <2>4, Zenon
  <2> QED  BY <2>3, <2>5, <2>6, Zenon
<1>7. DecodePropertyMap(w) = [ok |-> TRUE, epcs |-> BitmapCodes(w)]
  <2>0. N \in Nat
    BY ByteValue
  <2>1. ~(w[1] < 16) /\ ~(Len(w) < 17)
    <3>1. w[1] = N /\ Len(w) = 17
      BY <1>4, <1>5
    <3>2. ~(N < 16)
      BY <2>0
    <3> QED  BY <3>1, <3>2
  <2>2. w # <<>>
    BY <1>5
  <2> QED  BY <2>1, <2>2 DEF DecodePropertyMap
<1> QED  BY <1>4, <1>5, <1>6, <1>7 DEF w, e

(* DecodePropertyMap gives back any set of property codes, on both sides   *)
(* of the limit between list and bitmap.                                   *)
THEOREM MapInverts ==
  ASSUME NEW v, v \subseteq 128..255, NEW w \in Wires(EPC.Map, v)
  PROVE  w \in Seq(Byte) /\ Len(w) <= 17 /\ DecodePropertyMap(w) = [ok |-> TRUE, epcs |-> v]
<1> DEFINE N == Cardinality(v)
           a == 128
           b == 255
           C == a..b
<1>0. a \in Int /\ b \in Int /\ (IF a > b THEN 0 ELSE b - a + 1) = 128 /\ v \in SUBSET C
  OBVIOUS
<1>1. IsFiniteSet(C) /\ Cardinality(C) = 128
  <2> HIDE DEF a, b
  <2> QED  BY <1>0, FS_Interval
<1> HIDE DEF C
<1>2. IsFiniteSet(v) /\ Cardinality(v) <= Cardinality(C)
  BY <1>0, <1>1, FS_Subset
<1>3. N \in Nat /\ N <= 128
  BY <1>1, <1>2, FS_CardinalityType
<1> HIDE DEF N
<1> DEFINE x == <<N>> \o [n \in 1..N |-> Code(v, n)]
           y == <<N>> \o [i \in 1..16 |-> Row(v, i - 1)]
<1>4. w = IF N < 16 THEN x ELSE y
  <2>1. /\ EPC.Map # EPC.Power /\ EPC.Map # EPC.Current /\ EPC.Map # EPC.Fwd
        /\ EPC.Map # EPC.Min1 /\ EPC.Map # EPC.Scheduled /\ EPC.Map # EPC.Fault
        /\ EPC.Map # EPC.Coefficient /\ EPC.Map # EPC.Unit
    BY DEF EPC
  <2>2. Wires(EPC.Map, v) = {<<N>> \o IF N < 16 THEN [n \in 1..N |-> Code(v, n)]
                                      ELSE [i \in 1..16 |-> Row(v, i - 1)]}
    BY <2>1, Zenon DEF Wires, N
  <2> QED  BY <2>2
<1>5. CASE N < 16
  <2>1. x \in Seq(Byte) /\ Len(x) <= 17 /\ DecodePropertyMap(x) = [ok |-> TRUE, epcs |-> v]
    BY <1>2, <1>5, MapListInverts DEF N
  <2> QED  BY <1>4, <1>5, <2>1
<1>6. CASE ~(N < 16)
  <2>1. N \in Byte /\ N >= 16
    BY <1>3, <1>6 DEF Byte
  <2>2. y \in Seq(Byte) /\ Len(y) = 17 /\ DecodePropertyMap(y) = [ok |-> TRUE, epcs |-> v]
    BY <2>1, MapBitsInvert
  <2> QED  BY <1>4, <1>6, <2>2
<1> QED  BY <1>5, <1>6
=============================================================================
