----------------------------- MODULE MessageProofs -----------------------------
(***************************************************************************)
(* Theorems about Message, for bodies of any length, bytes of any number   *)
(* of values and sizes of any number of bytes.                             *)
(***************************************************************************)
EXTENDS Message, WellFoundedInduction, TLAPS

USE SMTT(30), ZenonT(30), SMTT(60)
-------------------------------------------------------------------------------
\* The facts about sequences that the proofs below cite.
LEMMA SeqElement == ASSUME NEW S, NEW s \in Seq(S), NEW i \in 1 .. Len(s) PROVE s[i] \in S
OBVIOUS

LEMMA SeqConcat ==
    ASSUME NEW S, NEW s \in Seq(S), NEW t \in Seq(S)
    PROVE  /\ s \o t \in Seq(S) /\ Len(s \o t) = Len(s) + Len(t)
           /\ \A i \in 1 .. Len(s) + Len(t) :
                  (s \o t)[i] = IF i <= Len(s) THEN s[i] ELSE t[i - Len(s)]
OBVIOUS

LEMMA ConcatEmpty == ASSUME NEW S, NEW s \in Seq(S) PROVE s \o <<>> = s /\ <<>> \o s = s
OBVIOUS

LEMMA ConcatAssoc ==
    ASSUME NEW S, NEW s \in Seq(S), NEW t \in Seq(S), NEW u \in Seq(S)
    PROVE  (s \o t) \o u = s \o (t \o u)
OBVIOUS

LEMMA SubSeqType ==
    ASSUME NEW S, NEW s, NEW m \in Int, NEW n \in Int, \A i \in m .. n : s[i] \in S
    PROVE  /\ SubSeq(s, m, n) \in Seq(S)
           /\ Len(SubSeq(s, m, n)) = IF m <= n THEN n - m + 1 ELSE 0
           /\ \A i \in 1 .. n - m + 1 : SubSeq(s, m, n)[i] = s[m + i - 1]
OBVIOUS

LEMMA SubSeqNone == ASSUME NEW s, NEW m \in Int, NEW n \in Int, n < m PROVE SubSeq(s, m, n) = <<>>
OBVIOUS

LEMMA SubSeqAll == ASSUME NEW S, NEW s \in Seq(S) PROVE SubSeq(s, 1, Len(s)) = s
OBVIOUS

LEMMA SubSeqFirst ==
    ASSUME NEW S, NEW s \in Seq(S), NEW t \in Seq(S), NEW m \in 1 .. Len(s), NEW n \in 1 .. Len(s)
    PROVE  SubSeq(s \o t, m, n) = SubSeq(s, m, n)
OBVIOUS

LEMMA SubSeqSecond ==
    ASSUME NEW S, NEW s \in Seq(S), NEW t \in Seq(S),
           NEW m \in Len(s) + 1 .. Len(s) + Len(t), NEW n \in Len(s) + 1 .. Len(s) + Len(t)
    PROVE  SubSeq(s \o t, m, n) = SubSeq(t, m - Len(s), n - Len(s))
OBVIOUS

-------------------------------------------------------------------------------
(***************************************************************************)
(* Induction over a set of numbers, and the function Power.                *)
(***************************************************************************)
\* A set that contains 0, and with a number the next one, contains them all.
LEMMA SetInduction ==
    ASSUME NEW S, 0 \in S, \A n \in Nat : n \in S => n + 1 \in S
    PROVE  \A n \in Nat : n \in S
<1> DEFINE R == {ss \in Nat \X Nat : ss[1] < ss[2]}
           T == Nat \ S
<1>1. IsWellFoundedOn(R, Nat)
  BY NatLessThanWellFounded, Zenon DEF OpToRel
<1>2. SUFFICES ASSUME T # {} PROVE FALSE
  OBVIOUS
<1>3. PICK m \in T : \A k \in T : ~ (<<k, m>> \in R)
  <2> T \subseteq Nat
    OBVIOUS
  <2> HIDE DEF R, T
  <2> QED BY <1>1, <1>2, WFMin, Zenon
<1>4. \A k \in T : ~ (k < m)
  BY <1>3, Zenon
<1>5. m - 1 \in Nat /\ m - 1 \in S
  BY <1>4
<1>6. QED
  BY <1>5

\* f is the sequence that starts with a and goes on by g.
Iterates(f, S, a, g) == f \in [Nat -> S] /\ f[0] = a /\ \A n \in Nat : f[n + 1] = g[f[n]]

\* There is such a sequence.
LEMMA Recursion ==
    ASSUME NEW S, NEW a, NEW g, a \in S, g \in [S -> S]
    PROVE  \E f : Iterates(f, S, a, g)
<1> DEFINE Runs(n) == {h \in [0 .. n -> S] :
                           h[0] = a /\ \A k \in 0 .. n - 1 : h[k + 1] = g[h[k]]}
<1>1. \A n \in Nat : Runs(n) # {}
  <2> DEFINE T == {n \in Nat : Runs(n) # {}}
  <2>1. 0 \in T
    <3>1. [k \in 0 .. 0 |-> a] \in Runs(0)
      OBVIOUS
    <3>2. QED
      BY <3>1
  <2>2. ASSUME NEW n \in Nat, n \in T PROVE n + 1 \in T
    <3>1. PICK h \in Runs(n) : TRUE
      BY <2>2
    <3> DEFINE j == [k \in 0 .. n + 1 |-> IF k = n + 1 THEN g[h[n]] ELSE h[k]]
    <3>2. j \in [0 .. n + 1 -> S] /\ j[0] = a
      BY <3>1
    <3>3. ASSUME NEW k \in 0 .. n PROVE j[k + 1] = g[j[k]]
      BY <3>1
    <3>4. j \in Runs(n + 1)
      BY <3>2, <3>3
    <3>5. QED
      <4> HIDE DEF Runs, j
      <4> QED BY <3>4
  <2>3. QED
    <3> HIDE DEF T
    <3>1. \A n \in Nat : n \in T
      BY <2>1, <2>2, SetInduction
    <3>2. QED
      BY <3>1 DEF T
<1>2. ASSUME NEW m \in Nat, NEW n \in Nat, NEW h \in Runs(m), NEW j \in Runs(n)
      PROVE  \A k \in Nat : k <= m /\ k <= n => h[k] = j[k]
  <2> DEFINE T == {k \in Nat : k <= m /\ k <= n => h[k] = j[k]}
  <2>1. 0 \in T
    OBVIOUS
  <2>2. ASSUME NEW k \in Nat, k \in T PROVE k + 1 \in T
    BY <2>2
  <2>3. QED
    <3> HIDE DEF T
    <3>1. \A k \in Nat : k \in T
      BY <2>1, <2>2, SetInduction, Zenon
    <3>2. QED
      BY <3>1 DEF T
<1> DEFINE H(n) == CHOOSE h \in Runs(n) : TRUE
           f == [n \in Nat |-> H(n)[n]]
<1>3. ASSUME NEW n \in Nat PROVE H(n) \in Runs(n)
  <2> HIDE DEF Runs
  <2> QED BY <1>1
<1>4. f \in [Nat -> S] /\ f[0] = a
  <2> HIDE DEF H
  <2> QED BY <1>3
<1>5. ASSUME NEW n \in Nat PROVE f[n + 1] = g[f[n]]
  <2>1. H(n + 1)[n + 1] = g[H(n + 1)[n]]
    <3> HIDE DEF H
    <3> QED BY <1>3
  <2>2. H(n + 1)[n] = H(n)[n]
    <3> HIDE DEF H, Runs
    <3>1. H(n) \in Runs(n) /\ H(n + 1) \in Runs(n + 1)
      BY <1>3
    <3> QED BY <1>2, <3>1
  <2>3. QED
    <3> HIDE DEF H
    <3> QED BY <2>1, <2>2
<1>6. Iterates(f, S, a, g)
  BY <1>4, <1>5, Zenon DEF Iterates
<1>7. QED
  BY <1>6

LEMMA ByteAssumption == ByteValues \in Nat /\ ByteValues > 1
BY MessageAssumption

\* Power is what its definition says.
LEMMA PowerDef ==
    /\ Power \in [Nat -> Nat \ {0}]
    /\ Power[0] = 1
    /\ \A n \in Nat : Power[n + 1] = ByteValues * Power[n]
<1> DEFINE P == Nat \ {0}
           g == [x \in P |-> ByteValues * x]
           Eq(f) == f = [n \in Nat |-> IF n = 0 THEN 1 ELSE ByteValues * f[n - 1]]
<1>1. g \in [P -> P]
  BY MessageAssumption
<1>2. PICK f : Iterates(f, P, 1, g)
  <2>1. 1 \in P
    OBVIOUS
  <2> HIDE DEF P, g
  <2> QED BY <1>1, <2>1, Recursion
<1>3. Eq(f)
  <2>1. ASSUME NEW n \in Nat PROVE f[n] = IF n = 0 THEN 1 ELSE ByteValues * f[n - 1]
    <3>1. CASE n = 0
      BY <1>2, <3>1, Zenon DEF Iterates
    <3>2. CASE n # 0
      <4>1. n - 1 \in Nat /\ (n - 1) + 1 = n
        BY <3>2
      <4>2. f[n] = g[f[n - 1]] /\ f[n - 1] \in P
        BY <1>2, <4>1, Zenon DEF Iterates
      <4>3. QED
        BY <3>2, <4>2
    <3>3. QED BY <3>1, <3>2
  <2>2. QED
    BY <1>2, <2>1, Zenon DEF Iterates
<1>4. Power = CHOOSE e : Eq(e)
  BY Zenon DEF Power
<1>5. Eq(Power)
  <2> HIDE DEF Eq
  <2> QED BY <1>3, <1>4, Zenon
<1>6. DOMAIN Power = Nat /\ Power[0] = 1 /\ \A n \in Nat : Power[n + 1] = ByteValues * Power[n]
  <2>1. ASSUME NEW n \in Nat PROVE Power[n] = IF n = 0 THEN 1 ELSE ByteValues * Power[n - 1]
    BY <1>5
  <2>2. DOMAIN Power = Nat
    BY <1>5
  <2>3. Power[0] = 1
    BY <2>1
  <2>4. ASSUME NEW n \in Nat PROVE Power[n + 1] = ByteValues * Power[n]
    <3>1. n + 1 \in Nat /\ n + 1 # 0 /\ (n + 1) - 1 = n
      OBVIOUS
    <3>2. QED
      BY <2>1, <3>1
  <2>5. QED
    BY <2>2, <2>3, <2>4
<1> DEFINE T == {n \in Nat : Power[n] \in P}
<1>7. \A n \in Nat : n \in T
  <2>1. 0 \in T
    BY <1>6
  <2>2. ASSUME NEW n \in Nat, n \in T PROVE n + 1 \in T
    BY <1>6, <2>2, ByteAssumption
  <2>3. QED
    <3> HIDE DEF T
    <3> QED BY <2>1, <2>2, SetInduction
<1>8. QED
  BY <1>5, <1>6, <1>7, Zenon

\* Quotient and remainder.
LEMMA DivUnique ==
    ASSUME NEW n \in Nat, NEW d \in Nat \ {0}, NEW q \in Nat, NEW r \in Nat, n = d * q + r, r < d
    PROVE  n \div d = q
OBVIOUS

LEMMA DivMod ==
    ASSUME NEW n \in Nat, NEW d \in Nat \ {0}
    PROVE  n \div d \in Nat /\ n % d \in 0 .. d - 1 /\ n = d * (n \div d) + (n % d)
OBVIOUS

LEMMA ShiftBound ==
    ASSUME NEW b \in Nat, NEW p \in Nat, NEW q \in Nat, NEW r \in Nat, q < p, r < b
    PROVE  b * q + r < b * p
<1>1. b * (q + 1) = b * q + b
  OBVIOUS
<1>2. b * (q + 1) <= b * p
  OBVIOUS
<1>3. b * q \in Nat /\ b * p \in Nat
  OBVIOUS
<1>4. QED
  BY <1>1, <1>2, <1>3

LEMMA DivDiv ==
    ASSUME NEW n \in Nat, NEW a \in Nat \ {0}, NEW b \in Nat \ {0}
    PROVE  n \div (a * b) = (n \div a) \div b
<1> DEFINE q == n \div a
           r == n % a
           p == q \div b
           s == q % b
<1>1. q \in Nat /\ r \in 0 .. a - 1 /\ n = a * q + r
  BY DivMod, Zenon
<1>2. p \in Nat /\ s \in 0 .. b - 1 /\ q = b * p + s
  BY <1>1, DivMod, Zenon
<1> HIDE DEF q, r, p, s
<1>3. n = (a * b) * p + (a * s + r)
  <2>1. a * (b * p + s) = (a * b) * p + a * s
    BY <1>2
  <2> QED BY <1>1, <1>2, <2>1
<1>4. a * s + r < a * b
  <2>1. a * s <= a * (b - 1)
    BY <1>2
  <2>2. a * (b - 1) = a * b - a
    OBVIOUS
  <2> QED BY <1>1, <1>2, <2>1, <2>2
<1>5. a * b \in Nat \ {0} /\ a * s + r \in Nat
  BY <1>1, <1>2
<1>6. n \div (a * b) = p
  BY <1>2, <1>3, <1>4, <1>5, DivUnique
<1>7. QED
  BY <1>6 DEF p, q
-------------------------------------------------------------------------------
(***************************************************************************)
(* The bytes of a size.                                                    *)
(***************************************************************************)
Digit(n, i) == (n \div Power[i]) % ByteValues

LEMMA ByteDivMod ==
    ASSUME NEW n \in Nat
    PROVE  /\ n \div ByteValues \in Nat /\ n % ByteValues \in 0 .. ByteValues - 1
           /\ n = ByteValues * (n \div ByteValues) + (n % ByteValues)
<1>1. ByteValues \in Nat \ {0}
  BY ByteAssumption
<1>2. QED
  BY <1>1, DivMod, Zenon

LEMMA DigitType == ASSUME NEW n \in Nat, NEW i \in Nat PROVE Digit(n, i) \in Byte
<1>1. Power[i] \in Nat \ {0}
  BY PowerDef
<1>2. n \div Power[i] \in Nat
  BY <1>1, DivMod
<1>3. QED
  BY <1>2, ByteDivMod DEF Digit, Byte

\* The first digit is the remainder, the others are those of the quotient.
LEMMA FirstDigit == ASSUME NEW n \in Nat PROVE Digit(n, 0) = n % ByteValues
<1>1. n \div 1 = n
  OBVIOUS
<1>2. QED
  BY <1>1, PowerDef DEF Digit

LEMMA NextDigit ==
    ASSUME NEW n \in Nat, NEW i \in Nat
    PROVE  Digit(n, i + 1) = Digit(n \div ByteValues, i)
<1>1. Power[i] \in Nat \ {0} /\ Power[i + 1] = ByteValues * Power[i]
  BY PowerDef
<1>2. n \div (ByteValues * Power[i]) = (n \div ByteValues) \div Power[i]
  BY <1>1, DivDiv, ByteAssumption
<1>3. QED
  BY <1>1, <1>2 DEF Digit

LEMMA QuotientBound ==
    ASSUME NEW k \in Nat, NEW n \in 0 .. Power[k + 1] - 1
    PROVE  n \in Nat /\ n \div ByteValues \in 0 .. Power[k] - 1
<1>1. Power[k] \in Nat \ {0} /\ Power[k + 1] = ByteValues * Power[k]
  BY PowerDef
<1> DEFINE P == Power[k]
           q == n \div ByteValues
           r == n % ByteValues
<1>0. n \in Nat /\ n < ByteValues * P
  BY <1>1, ByteAssumption
<1>2. q \in Nat /\ r \in Nat /\ n = ByteValues * q + r
  BY <1>0, ByteDivMod, ByteAssumption
<1> HIDE DEF P, q, r
<1>3. P \in Nat
  BY <1>1 DEF P
<1>4. ASSUME q >= P PROVE FALSE
  <2>1. ByteValues * q >= ByteValues * P
    BY <1>2, <1>3, <1>4, ByteAssumption
  <2>2. QED
    BY <1>0, <1>2, <1>3, <2>1, ByteAssumption
<1>5. QED
  BY <1>0, <1>1, <1>2, <1>3, <1>4 DEF P, q

\* Numbers that fit k digits and have the same digits are the same.
SameDigits(m, n, k) == \A i \in 0 .. k - 1 : Digit(m, i) = Digit(n, i)

LEMMA DigitsDiffer ==
    ASSUME NEW k \in Nat, NEW m \in 0 .. Power[k] - 1, NEW n \in 0 .. Power[k] - 1,
           SameDigits(m, n, k)
    PROVE  m = n
<1> DEFINE Goal(j) == \A x, y \in 0 .. Power[j] - 1 : SameDigits(x, y, j) => x = y
           T == {j \in Nat : Goal(j)}
<1>1. 0 \in T
  BY PowerDef
<1>2. ASSUME NEW j \in Nat, j \in T PROVE j + 1 \in T
  <2>1. SUFFICES ASSUME NEW x \in 0 .. Power[j + 1] - 1, NEW y \in 0 .. Power[j + 1] - 1,
                        SameDigits(x, y, j + 1)
                 PROVE  x = y
    OBVIOUS
  <2> DEFINE p == x \div ByteValues
             q == y \div ByteValues
  <2>2. x \in Nat /\ y \in Nat /\ p \in 0 .. Power[j] - 1 /\ q \in 0 .. Power[j] - 1
    BY QuotientBound
  <2>3. SameDigits(p, q, j)
    <3>1. SUFFICES ASSUME NEW i \in 0 .. j - 1 PROVE Digit(p, i) = Digit(q, i)
      BY DEF SameDigits
    <3>2. Digit(x, i + 1) = Digit(y, i + 1)
      BY <2>1 DEF SameDigits
    <3>3. QED
      BY <2>2, <3>2, NextDigit
  <2>4. p = q
    BY <1>2, <2>2, <2>3
  <2>5. x % ByteValues = y % ByteValues
    <3>1. Digit(x, 0) = Digit(y, 0)
      BY <2>1 DEF SameDigits
    <3>2. QED
      BY <2>2, <3>1, FirstDigit
  <2>6. QED
    <3>1. x = ByteValues * p + (x % ByteValues) /\ y = ByteValues * q + (y % ByteValues)
      BY <2>2, ByteDivMod
    <3>2. QED
      BY <2>4, <2>5, <3>1
<1>3. k \in T
  <2> HIDE DEF T
  <2> QED BY <1>1, <1>2, SetInduction
<1>4. QED
  BY <1>3

\* Every k digits are those of a number that fits them.
LEMMA DigitsExist ==
    ASSUME NEW k \in Nat, NEW d \in [0 .. k - 1 -> Byte]
    PROVE  \E n \in 0 .. Power[k] - 1 : \A i \in 0 .. k - 1 : Digit(n, i) = d[i]
<1> DEFINE Goal(j) == \A e \in [0 .. j - 1 -> Byte] :
                          \E n \in 0 .. Power[j] - 1 : \A i \in 0 .. j - 1 : Digit(n, i) = e[i]
           T == {j \in Nat : Goal(j)}
<1>1. 0 \in T
  <2>1. 0 \in 0 .. Power[0] - 1
    BY PowerDef
  <2>2. QED
    BY <2>1
<1>2. ASSUME NEW j \in Nat, j \in T PROVE j + 1 \in T
  <2>1. SUFFICES ASSUME NEW e \in [0 .. j -> Byte]
                 PROVE  \E n \in 0 .. Power[j + 1] - 1 : \A i \in 0 .. j : Digit(n, i) = e[i]
    OBVIOUS
  <2> DEFINE rest == [i \in 0 .. j - 1 |-> e[i + 1]]
  <2>2. rest \in [0 .. j - 1 -> Byte]
    OBVIOUS
  <2>3. PICK q \in 0 .. Power[j] - 1 : \A i \in 0 .. j - 1 : Digit(q, i) = rest[i]
    BY <1>2, <2>2, Zenon
  <2> DEFINE n == ByteValues * q + e[0]
  <2>4. e[0] \in 0 .. ByteValues - 1 /\ q \in Nat /\ Power[j] \in Nat /\ q <= Power[j] - 1
    BY PowerDef DEF Byte
  <2>5. n \in Nat
    BY <2>4, ByteAssumption
  <2>6. n < Power[j + 1]
    <3>1. Power[j + 1] = ByteValues * Power[j]
      BY PowerDef
    <3>2. e[0] \in Nat /\ e[0] < ByteValues /\ q < Power[j]
      BY <2>4, ByteAssumption
    <3>3. ByteValues * q + e[0] < ByteValues * Power[j]
      BY <2>4, <3>2, ShiftBound, ByteAssumption, Zenon
    <3>4. QED
      BY <3>1, <3>3
  <2>7. n \div ByteValues = q /\ n % ByteValues = e[0]
    <3>1. n \div ByteValues = q
      <4> HIDE DEF n
      <4>1. n = ByteValues * q + e[0]
        BY DEF n
      <4>2. QED
        BY <2>4, <2>5, <4>1, DivUnique, ByteAssumption
    <3>2. n = ByteValues * (n \div ByteValues) + (n % ByteValues) /\ n % ByteValues \in Nat
      BY <2>5, ByteDivMod
    <3>3. QED
      <4>1. n = ByteValues * q + (n % ByteValues) /\ n = ByteValues * q + e[0]
        BY <3>1, <3>2
      <4>2. ByteValues * q \in Nat
        BY <2>4, ByteAssumption
      <4> HIDE DEF n
      <4>3. QED
        BY <2>4, <3>1, <3>2, <4>1, <4>2
  <2> HIDE DEF n
  <2>8. ASSUME NEW i \in 0 .. j PROVE Digit(n, i) = e[i]
    <3>1. CASE i = 0
      BY <2>5, <2>7, <3>1, FirstDigit
    <3>2. CASE i # 0
      <4>1. i - 1 \in Nat /\ i - 1 \in 0 .. j - 1 /\ (i - 1) + 1 = i
        BY <3>2
      <4>2. Digit(n, (i - 1) + 1) = Digit(q, i - 1)
        BY <2>5, <2>7, <4>1, NextDigit
      <4>3. Digit(q, i - 1) = e[i]
        BY <2>3, <4>1
      <4>4. QED
        BY <4>1, <4>2, <4>3
    <3>3. QED
      BY <3>1, <3>2
  <2>9. Power[j + 1] \in Nat
    BY PowerDef
  <2>10. QED
    BY <2>5, <2>6, <2>8, <2>9
<1>3. k \in T
  <2> HIDE DEF T
  <2> QED BY <1>1, <1>2, SetInduction
<1>4. QED
  BY <1>3

\* The bytes of a size are bytes, a size that fits them is read back from them, and every
\* such bytes are read as some size.
LEMMA EncodeType ==
    ASSUME NEW n \in Nat
    PROVE  Encode(n) \in Seq(Byte) /\ Len(Encode(n)) = SizeWidth
<1>1. ASSUME NEW i \in 1 .. SizeWidth PROVE (n \div Power[i - 1]) % ByteValues \in Byte
  <2>1. i - 1 \in Nat
    BY MessageAssumption
  <2>2. QED
    BY <2>1, DigitType DEF Digit
<1>2. SizeWidth \in Nat
  BY MessageAssumption
<1>3. QED
  BY <1>1, <1>2 DEF Encode

LEMMA SizeAssumption ==
    /\ SizeWidth \in Nat /\ SizeWidth > 0
    /\ Power[SizeWidth] \in Nat
    /\ MaxBody \in Nat /\ MaxBody < Power[SizeWidth]
<1>1. SizeWidth \in Nat /\ SizeWidth > 0 /\ MaxBody \in 0 .. Power[SizeWidth] - 1
  BY MessageAssumption
<1>2. Power[SizeWidth] \in Nat
  BY <1>1, PowerDef
<1>3. QED
  BY <1>1, <1>2

LEMMA EncodeDigits ==
    ASSUME NEW n \in Nat, NEW i \in 0 .. SizeWidth - 1
    PROVE  Encode(n)[i + 1] = Digit(n, i)
<1>1. SizeWidth \in Nat /\ i + 1 \in 1 .. SizeWidth /\ (i + 1) - 1 = i
  BY MessageAssumption
<1>2. QED
  BY <1>1 DEF Encode, Digit

LEMMA EncodeDecode ==
    ASSUME NEW n \in 0 .. Power[SizeWidth] - 1
    PROVE  Decode(Encode(n)) = n
<1>1. SizeWidth \in Nat /\ n \in Nat /\ Power[SizeWidth] \in Nat
  BY PowerDef, MessageAssumption
<1>2. ASSUME NEW m \in 0 .. Power[SizeWidth] - 1, Encode(m) = Encode(n) PROVE m = n
  <2>1. m \in Nat
    BY <1>1
  <2>2. SameDigits(m, n, SizeWidth)
    BY <1>1, <1>2, <2>1, EncodeDigits DEF SameDigits
  <2>3. QED
    BY <1>1, <2>2, DigitsDiffer
<1>3. QED
  BY <1>2 DEF Decode

LEMMA DecodeType ==
    ASSUME NEW bytes \in Seq(Byte), Len(bytes) = SizeWidth
    PROVE  Decode(bytes) \in Nat
<1>1. SizeWidth \in Nat /\ Power[SizeWidth] \in Nat
  BY PowerDef, MessageAssumption
<1> DEFINE d == [i \in 0 .. SizeWidth - 1 |-> bytes[i + 1]]
<1>2. d \in [0 .. SizeWidth - 1 -> Byte]
  BY <1>1
<1>3. PICK n \in 0 .. Power[SizeWidth] - 1 : \A i \in 0 .. SizeWidth - 1 : Digit(n, i) = d[i]
  <2> HIDE DEF d
  <2> QED BY <1>1, <1>2, DigitsExist
<1>4. n \in Nat
  BY <1>1
<1>5. ASSUME NEW j \in 1 .. SizeWidth PROVE Encode(n)[j] = bytes[j]
  <2>1. j - 1 \in 0 .. SizeWidth - 1 /\ (j - 1) + 1 = j
    BY <1>1
  <2>2. Encode(n)[(j - 1) + 1] = Digit(n, j - 1)
    BY <1>4, <2>1, EncodeDigits
  <2>3. QED
    BY <1>3, <2>1, <2>2
<1>6. Encode(n) = bytes
  BY <1>1, <1>4, <1>5, EncodeType
<1>7. Decode(bytes) \in 0 .. Power[SizeWidth] - 1
  BY <1>6 DEF Decode
<1>8. QED
  BY <1>1, <1>7
-------------------------------------------------------------------------------
(***************************************************************************)
(* What the calls do to a body.                                            *)
(***************************************************************************)
Body == {b \in Seq(Byte) : Len(b) <= MaxBody}

\* The header that a call leaves has the size of the body that it leaves.
OutcomeType(outcome) ==
    /\ outcome.body \in Body
    /\ outcome.size = Len(outcome.body)
    /\ outcome.out \in Seq(Byte)
    /\ outcome.thrown \in Exceptions

\* What a value looks like in the body.
PackedString(string) == string \o Encode(Len(string))

\* The size of a body that is not too long fits the header.
LEMMA SizeIsSet ==
    ASSUME NEW body \in Body, NEW size, NEW out
    PROVE  SetSize(body, size, out) = Outcome(body, Len(body), out, "none")
BY DEF SetSize, Body

\* A call that throws before it changes the body leaves the header right.
LEMMA NothingDone ==
    ASSUME NEW body \in Body, NEW exception \in Exceptions
    PROVE  OutcomeType(Outcome(body, Len(body), <<>>, exception))
<1>1. <<>> \in Seq(Byte)
  OBVIOUS
<1>2. QED
  BY <1>1 DEF Outcome, OutcomeType

LEMMA PushBuffer ==
    ASSUME NEW body \in Body, NEW bytes \in Seq(Byte)
    PROVE  LET outcome == push_back_buffer(body, Len(body), bytes) IN
           /\ OutcomeType(outcome)
           /\ outcome.thrown = "none" => bytes # <<>> /\ outcome.body = body \o bytes
           /\ outcome.thrown # "none" => outcome.body = body
<1> DEFINE outcome == push_back_buffer(body, Len(body), bytes)
<1>1. body \in Seq(Byte) /\ Len(body) \in Nat /\ Len(bytes) \in Nat /\ MaxBody \in Nat
  BY SizeAssumption DEF Body
<1>2. body \o bytes \in Seq(Byte) /\ Len(body \o bytes) = Len(body) + Len(bytes)
  BY <1>1, SeqConcat
<1>3. <<>> \in Seq(Byte) /\ "length_error" \in Exceptions /\ "out_of_range" \in Exceptions
  BY DEF Exceptions
<1>4. CASE Len(body) + Len(bytes) > MaxBody
  <2>1. outcome = Outcome(body, Len(body), <<>>, "length_error")
    BY <1>4 DEF push_back_buffer
  <2>2. OutcomeType(outcome)
    BY <1>3, <2>1, NothingDone
  <2>3. outcome.thrown = "length_error" /\ outcome.body = body
    BY <2>1 DEF Outcome
  <2>4. QED
    BY <2>2, <2>3
<1>5. CASE ~ (Len(body) + Len(bytes) > MaxBody) /\ bytes = <<>>
  <2>1. body \o bytes = body
    BY <1>1, <1>5, ConcatEmpty
  <2>2. outcome = Outcome(body, Len(body), <<>>, "out_of_range")
    BY <1>5, <2>1 DEF push_back_buffer
  <2>3. OutcomeType(outcome)
    BY <1>3, <2>2, NothingDone
  <2>4. outcome.thrown = "out_of_range" /\ outcome.body = body
    BY <2>2 DEF Outcome
  <2>5. QED
    BY <2>3, <2>4
<1>6. CASE ~ (Len(body) + Len(bytes) > MaxBody) /\ bytes # <<>>
  <2> DEFINE all == body \o bytes
  <2>1. all \in Body
    BY <1>1, <1>2, <1>6 DEF Body
  <2>2. SetSize(all, Len(body), <<>>) = Outcome(all, Len(all), <<>>, "none")
    <3> HIDE DEF all
    <3> QED BY <2>1, SizeIsSet
  <2>3. outcome = Outcome(all, Len(all), <<>>, "none")
    BY <1>6, <2>2, Zenon DEF push_back_buffer
  <2>4. OutcomeType(outcome)
    <3>1. "none" \in Exceptions
      BY DEF Exceptions
    <3> HIDE DEF all, outcome
    <3>2. QED
      BY <2>1, <2>3, <3>1, NothingDone
  <2>5. outcome.thrown = "none" /\ outcome.body = all
    BY <2>3 DEF Outcome
  <2>6. QED
    BY <1>6, <2>4, <2>5
<1>7. QED
  BY <1>4, <1>5, <1>6

LEMMA ConcatBytes ==
    ASSUME NEW s \in Seq(Byte), NEW t \in Seq(Byte), NEW u \in Seq(Byte)
    PROVE  (s \o t) \o u = s \o (t \o u)
BY ConcatAssoc

LEMMA PushStringBuffer ==
    ASSUME NEW body \in Body, NEW string \in Seq(Byte)
    PROVE  LET outcome == push_back_string(body, Len(body), string) IN
           /\ OutcomeType(outcome)
           /\ outcome.thrown = "none" => string # <<>> /\ outcome.body = body \o PackedString(string)
<1> DEFINE chars == push_back_buffer(body, Len(body), string)
           size == Encode(Len(string))
<1>1. size \in Seq(Byte) /\ body \in Seq(Byte)
  BY EncodeType DEF Body
<1>2. /\ OutcomeType(chars)
      /\ chars.thrown = "none" => string # <<>> /\ chars.body = body \o string
  BY PushBuffer
<1>3. CASE chars.thrown # "none"
  BY <1>2, <1>3 DEF push_back_string
<1>4. CASE chars.thrown = "none"
  <2> DEFINE both == push_back_buffer(chars.body, Len(chars.body), size)
  <2>1. push_back_string(body, Len(body), string) = both
    <3>1. chars.size = Len(chars.body)
      BY <1>2 DEF OutcomeType
    <3> HIDE DEF OutcomeType
    <3>2. QED
      BY <1>4, <3>1, Zenon DEF push_back_string
  <2>2. chars.body \in Body
    BY <1>2 DEF OutcomeType
  <2>3. /\ OutcomeType(both)
        /\ both.thrown = "none" => both.body = chars.body \o size
    <3> HIDE DEF chars, size
    <3> QED BY <1>1, <2>2, PushBuffer, Zenon
  <2>4. (body \o string) \o size = body \o (string \o size)
    <3> HIDE DEF size
    <3> QED BY <1>1, ConcatBytes
  <2>5. QED
    <3> HIDE DEF both, chars
    <3> QED BY <1>2, <1>4, <2>1, <2>3, <2>4, Zenon DEF PackedString
<1>5. QED
  BY <1>3, <1>4

LEMMA ExtractBuffer ==
    ASSUME NEW body \in Body, NEW size \in Nat
    PROVE  LET outcome == extract_to_buffer(body, Len(body), size) IN
           /\ OutcomeType(outcome)
           /\ outcome.thrown = "none" => Len(outcome.out) = size
<1> DEFINE new_size == Len(body) - size
<1>1. body \in Seq(Byte) /\ Len(body) \in Nat /\ Len(body) <= MaxBody /\ MaxBody \in Nat
  BY SizeAssumption DEF Body
<1>2. CASE size > Len(body) \/ size = 0
  <2>1. "length_error" \in Exceptions /\ "out_of_range" \in Exceptions
    BY DEF Exceptions
  <2>2. extract_to_buffer(body, Len(body), size) \in
            {Outcome(body, Len(body), <<>>, "length_error"),
             Outcome(body, Len(body), <<>>, "out_of_range")}
    BY <1>1, <1>2 DEF extract_to_buffer
  <2>3. /\ OutcomeType(Outcome(body, Len(body), <<>>, "length_error"))
        /\ OutcomeType(Outcome(body, Len(body), <<>>, "out_of_range"))
    BY <2>1, NothingDone
  <2>4. extract_to_buffer(body, Len(body), size).thrown # "none"
    BY <2>2 DEF Outcome
  <2>5. QED
    BY <2>2, <2>3, <2>4
<1>3. CASE size <= Len(body) /\ size # 0
  <2>1. new_size \in 0 .. Len(body) - 1
    BY <1>1, <1>3
  <2>2. /\ SubSeq(body, 1, new_size) \in Seq(Byte)
        /\ Len(SubSeq(body, 1, new_size)) = new_size
    BY <1>1, <2>1, SubSeqType, SeqElement
  <2>3. /\ SubSeq(body, new_size + 1, Len(body)) \in Seq(Byte)
        /\ Len(SubSeq(body, new_size + 1, Len(body))) = size
    BY <1>1, <1>3, <2>1, SubSeqType, SeqElement
  <2>4. extract_to_buffer(body, Len(body), size) =
            Outcome(SubSeq(body, 1, new_size), new_size,
                    SubSeq(body, new_size + 1, Len(body)), "none")
    <3>1. SubSeq(body, 1, new_size) \in Body
      BY <1>1, <2>1, <2>2 DEF Body
    <3>2. ~ (size > Len(body)) /\ size # 0
      BY <1>1, <1>3
    <3>3. QED
      BY <2>2, <3>1, <3>2, SizeIsSet, Zenon DEF extract_to_buffer
  <2>5. QED
    BY <1>1, <2>1, <2>2, <2>3, <2>4 DEF Outcome, OutcomeType, Body, Exceptions
<1>4. QED
  BY <1>1, <1>2, <1>3

\* What was pushed last is extracted, and what was there before is left.
LEMMA ExtractLast ==
    ASSUME NEW body \in Body, NEW bytes \in Seq(Byte), bytes # <<>>, NEW header
    PROVE  extract_to_buffer(body \o bytes, header, Len(bytes)) =
               Outcome(body, Len(body), bytes, "none")
<1> DEFINE all == body \o bytes
<1>0. body \in Seq(Byte)
  BY DEF Body
<1>1. all \in Seq(Byte) /\ Len(all) = Len(body) + Len(bytes)
  BY <1>0, SeqConcat
<1>2. Len(body) \in Nat /\ Len(bytes) \in Nat /\ Len(bytes) > 0
  BY <1>0
<1>3. SubSeq(all, 1, Len(body)) = body
  <2>1. CASE body = <<>>
    BY <2>1, SubSeqNone
  <2>2. CASE body # <<>>
    <3>1. 1 \in 1 .. Len(body) /\ Len(body) \in 1 .. Len(body)
      BY <1>0, <2>2
    <3>2. QED
      BY <1>0, <3>1, SubSeqFirst, SubSeqAll
  <2>3. QED
    BY <2>1, <2>2
<1>4. SubSeq(all, Len(body) + 1, Len(all)) = bytes
  <2>1. /\ Len(body) + 1 \in Len(body) + 1 .. Len(body) + Len(bytes)
        /\ Len(all) \in Len(body) + 1 .. Len(body) + Len(bytes)
    BY <1>1, <1>2
  <2>2. SubSeq(all, Len(body) + 1, Len(all)) =
            SubSeq(bytes, Len(body) + 1 - Len(body), Len(all) - Len(body))
    BY <1>0, <2>1, SubSeqSecond
  <2>3. Len(body) + 1 - Len(body) = 1 /\ Len(all) - Len(body) = Len(bytes)
    BY <1>1, <1>2
  <2>4. QED
    BY <2>2, <2>3, SubSeqAll
<1>5. Len(all) - Len(bytes) = Len(body)
  BY <1>1, <1>2
<1> HIDE DEF all
<1>6. extract_to_buffer(all, header, Len(bytes)) = Outcome(body, Len(body), bytes, "none")
  <2>1. ~ (Len(bytes) > Len(all)) /\ Len(bytes) # 0
    BY <1>1, <1>2
  <2>2. QED
    BY <1>3, <1>4, <1>5, <2>1, SizeIsSet, Zenon DEF extract_to_buffer
<1>7. QED
  BY <1>6 DEF all

LEMMA ExtractStringType ==
    ASSUME NEW body \in Body
    PROVE  OutcomeType(extract_string(body, Len(body)))
<1> DEFINE size == extract_to_buffer(body, Len(body), SizeWidth)
<1>1. /\ OutcomeType(size)
      /\ size.thrown = "none" => Len(size.out) = SizeWidth
  <2>1. SizeWidth \in Nat
    BY MessageAssumption
  <2>2. QED
    BY <2>1, ExtractBuffer
<1>2. CASE size.thrown # "none"
  BY <1>1, <1>2 DEF extract_string
<1>3. CASE size.thrown = "none"
  <2>1. size.body \in Body /\ size.size = Len(size.body) /\ Decode(size.out) \in Nat
    BY <1>1, <1>3, DecodeType DEF OutcomeType
  <2>2. OutcomeType(extract_to_buffer(size.body, size.size, Decode(size.out)))
    <3> HIDE DEF size
    <3> QED BY <2>1, ExtractBuffer
  <2>3. QED
    BY <1>3, <2>2 DEF extract_string
<1>4. QED
  BY <1>2, <1>3

\* The end of a body is no longer than the body.
LEMMA EndFits ==
    ASSUME NEW body \in Seq(Byte), NEW bytes \in Seq(Byte), NEW rest \in Seq(Byte),
           body \o (bytes \o rest) \in Body
    PROVE  Len(bytes) <= MaxBody
<1>1. bytes \o rest \in Seq(Byte) /\ Len(bytes \o rest) = Len(bytes) + Len(rest)
  BY SeqConcat
<1>2. Len(body \o (bytes \o rest)) = Len(body) + Len(bytes \o rest)
  BY <1>1, SeqConcat
<1>3. Len(body) \in Nat /\ Len(bytes) \in Nat /\ Len(rest) \in Nat /\ MaxBody \in Nat
  BY SizeAssumption
<1>4. QED
  BY <1>1, <1>2, <1>3 DEF Body
\* Neither is its beginning.
LEMMA BeginFits ==
    ASSUME NEW body \in Seq(Byte), NEW rest \in Seq(Byte), body \o rest \in Body
    PROVE  body \in Body
<1>1. Len(body \o rest) = Len(body) + Len(rest)
  BY SeqConcat
<1>2. Len(body) \in Nat /\ Len(rest) \in Nat /\ MaxBody \in Nat
  BY SizeAssumption
<1>3. QED
  BY <1>1, <1>2 DEF Body

LEMMA ExtractLastString ==
    ASSUME NEW body \in Seq(Byte), NEW string \in Seq(Byte), string # <<>>,
           body \o PackedString(string) \in Body, NEW header
    PROVE  extract_string(body \o PackedString(string), header) =
               Outcome(body, Len(body), string, "none")
<1> DEFINE size == Encode(Len(string))
<1>0. size \in Seq(Byte) /\ body \in Body /\ Len(string) <= MaxBody
  <2>1. size \in Seq(Byte)
    BY EncodeType
  <2>2. body \o (string \o size) \in Body
    BY DEF PackedString
  <2> HIDE DEF size
  <2>3. string \o size \in Seq(Byte)
    BY <2>1, SeqConcat
  <2>4. QED
    BY <2>1, <2>2, <2>3, BeginFits, EndFits
<1>1. Len(string) \in 0 .. Power[SizeWidth] - 1 /\ Len(string) \in Nat
  BY <1>0, SizeAssumption
<1>2. size \in Seq(Byte) /\ Len(size) = SizeWidth /\ Decode(size) = Len(string)
  BY <1>1, EncodeType, EncodeDecode
<1>3. size # <<>>
  BY <1>2, MessageAssumption
<1> HIDE DEF size
<1>4. body \o PackedString(string) = (body \o string) \o size
  <2>1. size \in Seq(Byte)
    BY <1>2
  <2>2. (body \o string) \o size = body \o (string \o size)
    BY <2>1, ConcatBytes
  <2>3. QED
    BY <2>2 DEF PackedString, size
<1>5. body \o string \in Body
  <2>1. body \o string \in Seq(Byte)
    BY SeqConcat
  <2>2. (body \o string) \o size \in Body
    BY <1>4
  <2>3. QED
    BY <1>2, <2>1, <2>2, BeginFits
<1>6. extract_to_buffer((body \o string) \o size, header, SizeWidth) =
          Outcome(body \o string, Len(body \o string), size, "none")
  BY <1>2, <1>3, <1>5, ExtractLast, Zenon
<1>7. extract_to_buffer(body \o string, Len(body \o string), Len(string)) =
          Outcome(body, Len(body), string, "none")
  BY <1>0, ExtractLast
<1>8. QED
  BY <1>2, <1>4, <1>6, <1>7 DEF extract_string, Outcome
-------------------------------------------------------------------------------
(***************************************************************************)
(* The body is the items, each packed behind the one before it.  bodies[i] *)
(* is the body when it held the first i of them.                           *)
(***************************************************************************)
Packed(item) == IF item.kind = "string" THEN PackedString(item.bytes) ELSE item.bytes

Stacked(bodies, its, body) ==
    /\ bodies \in [0 .. Len(its) -> Seq(Byte)]
    /\ bodies[0] = <<>>
    /\ bodies[Len(its)] = body
    /\ \A i \in 1 .. Len(its) : bodies[i] = bodies[i - 1] \o Packed(its[i])

\* A value that was pushed is not empty, and fits the body.
Fits(item) == item.bytes # <<>> /\ Len(item.bytes) <= MaxBody

IsStack(its, body) ==
    /\ its \in Seq(Item)
    /\ \A i \in 1 .. Len(its) : Fits(its[i])
    /\ \E bodies : Stacked(bodies, its, body)

LEMMA PackedType ==
    ASSUME NEW item \in Item
    PROVE  Packed(item) \in Seq(Byte)
<1>1. item.bytes \in Seq(Byte) /\ Len(item.bytes) \in Nat
  BY DEF Item
<1>2. Encode(Len(item.bytes)) \in Seq(Byte)
  BY <1>1, EncodeType
<1>3. PackedString(item.bytes) \in Seq(Byte)
  BY <1>1, <1>2, SeqConcat DEF PackedString
<1>4. QED
  BY <1>1, <1>3 DEF Packed

LEMMA EmptyStack == IsStack(<<>>, <<>>)
<1> DEFINE bodies == [i \in 0 .. 0 |-> <<>>]
<1>1. Stacked(bodies, <<>>, <<>>)
  BY DEF Stacked
<1>2. <<>> \in Seq(Item) /\ \A i \in 1 .. Len(<<>>) : Fits(<<>>[i])
  OBVIOUS
<1>3. QED
  BY <1>1, <1>2 DEF IsStack

\* Pushing puts one item on top.
LEMMA StackPush ==
    ASSUME NEW its, NEW body, IsStack(its, body), NEW item \in Item, Fits(item)
    PROVE  IsStack(Append(its, item), body \o Packed(item))
<1> DEFINE n == Len(its)
           new == Append(its, item)
           top == body \o Packed(item)
<1>1. its \in Seq(Item) /\ n \in Nat
  BY DEF IsStack
<1>2. PICK bodies : Stacked(bodies, its, body)
  BY DEF IsStack
<1>3. new \in Seq(Item) /\ Len(new) = n + 1 /\ new[n + 1] = item
      /\ \A i \in 1 .. n : new[i] = its[i]
  BY <1>1
<1>4. body \in Seq(Byte) /\ bodies \in [0 .. n -> Seq(Byte)] /\ bodies[0] = <<>> /\ bodies[n] = body
  BY <1>1, <1>2 DEF Stacked
<1>5. top \in Seq(Byte)
  BY <1>4, PackedType, SeqConcat
<1> DEFINE more == [i \in 0 .. n + 1 |-> IF i = n + 1 THEN top ELSE bodies[i]]
<1> HIDE DEF n, new, top
<1>6. /\ more \in [0 .. n + 1 -> Seq(Byte)]
      /\ more[0] = <<>> /\ more[n + 1] = top
      /\ \A i \in 0 .. n : more[i] = bodies[i]
  BY <1>1, <1>4, <1>5
<1> HIDE DEF more
<1>7. ASSUME NEW i \in 1 .. n + 1 PROVE more[i] = more[i - 1] \o Packed(new[i])
  <2>1. CASE i = n + 1
    <3>1. i - 1 = n /\ n \in 0 .. n
      BY <1>1, <2>1
    <3>2. more[i - 1] = body /\ more[i] = top /\ new[i] = item
      BY <1>3, <1>4, <1>6, <2>1, <3>1
    <3>3. QED
      BY <3>2 DEF top
  <2>2. CASE i # n + 1
    <3>1. i \in 1 .. n /\ i \in 0 .. n /\ i - 1 \in 0 .. n
      BY <1>1, <2>2
    <3>2. bodies[i] = bodies[i - 1] \o Packed(its[i])
      BY <1>2, <3>1, Zenon DEF Stacked, n
    <3>3. QED
      BY <1>3, <1>6, <3>1, <3>2, Zenon
  <2>3. QED
    BY <2>1, <2>2, Zenon
<1>8. Stacked(more, new, top)
  <2>1. more \in [0 .. Len(new) -> Seq(Byte)] /\ more[0] = <<>> /\ more[Len(new)] = top
    BY <1>3, <1>6, Zenon
  <2>2. \A i \in 1 .. Len(new) : more[i] = more[i - 1] \o Packed(new[i])
    BY <1>3, <1>7, Zenon
  <2>3. QED
    BY <2>1, <2>2, Zenon DEF Stacked
<1>9. ASSUME NEW i \in 1 .. n + 1 PROVE Fits(new[i])
  <2>1. i = n + 1 \/ i \in 1 .. n
    BY <1>1
  <2>2. QED
    BY <1>3, <2>1 DEF IsStack, n
<1>10. IsStack(new, top)
  BY <1>3, <1>8, <1>9 DEF IsStack
<1>11. QED
  BY <1>10 DEF new, top

\* The last item is at the end of the body, and the others are the stack below it.
LEMMA StackPop ==
    ASSUME NEW its, NEW body, IsStack(its, body), its # <<>>
    PROVE  /\ its[Len(its)] \in Item /\ Fits(its[Len(its)])
           /\ \E below \in Seq(Byte) :
                  /\ body = below \o Packed(its[Len(its)])
                  /\ IsStack(SubSeq(its, 1, Len(its) - 1), below)
<1> DEFINE n == Len(its)
           new == SubSeq(its, 1, n - 1)
<1>1. its \in Seq(Item) /\ n \in Nat \ {0} /\ n \in 1 .. n /\ n - 1 \in 0 .. n
  BY DEF IsStack
<1>2. PICK bodies : Stacked(bodies, its, body)
  BY DEF IsStack
<1>3. new \in Seq(Item) /\ Len(new) = n - 1 /\ \A i \in 1 .. n - 1 : new[i] = its[i]
  <2>1. CASE n = 1
    <3>1. new = <<>> /\ n - 1 = 0
      BY <1>1, <2>1, SubSeqNone
    <3>2. QED
      BY <3>1
  <2>2. CASE n # 1
    <3> DEFINE k == n - 1
    <3>1. 1 \in Int /\ k \in Int /\ 1 <= k /\ \A i \in 1 .. k : i \in 1 .. n
      <4> HIDE DEF n
      <4> QED BY <1>1, <2>2
    <3>2. \A i \in 1 .. n : its[i] \in Item
      BY <1>1, SeqElement
    <3> HIDE DEF k
    <3>3. /\ SubSeq(its, 1, k) \in Seq(Item)
          /\ Len(SubSeq(its, 1, k)) = k - 1 + 1
          /\ \A i \in 1 .. k - 1 + 1 : SubSeq(its, 1, k)[i] = its[1 + i - 1]
      BY <3>1, <3>2, SubSeqType
    <3>4. k - 1 + 1 = k /\ \A i \in 1 .. k : 1 + i - 1 = i
      BY <3>1
    <3>5. QED
      BY <3>3, <3>4 DEF k
  <2>3. QED
    BY <2>1, <2>2
<1>4. its[n] \in Item /\ \A i \in 1 .. n : Fits(its[i])
  BY <1>1 DEF IsStack
<1> HIDE DEF n, new
<1>5. /\ bodies \in [0 .. n -> Seq(Byte)] /\ bodies[0] = <<>> /\ bodies[n] = body
      /\ \A i \in 1 .. n : bodies[i] = bodies[i - 1] \o Packed(its[i])
  BY <1>2, Zenon DEF Stacked, n
<1>6. bodies[n - 1] \in Seq(Byte) /\ body = bodies[n - 1] \o Packed(its[n])
  BY <1>1, <1>5, Zenon
<1> DEFINE less == [i \in 0 .. n - 1 |-> bodies[i]]
<1>7. /\ less \in [0 .. n - 1 -> Seq(Byte)]
      /\ less[0] = <<>>
      /\ \A i \in 0 .. n - 1 : less[i] = bodies[i]
  BY <1>1, <1>5
<1> HIDE DEF less
<1>8. ASSUME NEW i \in 1 .. n - 1 PROVE less[i] = less[i - 1] \o Packed(new[i]) /\ Fits(new[i])
  <2>1. i \in 1 .. n /\ i \in 0 .. n - 1 /\ i - 1 \in 0 .. n - 1
    BY <1>1
  <2>2. QED
    BY <1>3, <1>4, <1>5, <1>7, <2>1, Zenon
<1>9. Stacked(less, new, bodies[n - 1])
  <2>1. n - 1 \in 0 .. n - 1
    BY <1>1
  <2>2. QED
    BY <1>3, <1>7, <1>8, <2>1 DEF Stacked
<1>10. IsStack(new, bodies[n - 1])
  BY <1>3, <1>8, <1>9 DEF IsStack
<1>11. QED
  BY <1>1, <1>4, <1>6, <1>10, Zenon DEF n, new

\* What a call that failed half way leaves is one item, or none.
LEMMA StackRaw ==
    ASSUME NEW body \in Body
    PROVE  IsStack(Raw(body), body)
<1>1. CASE body = <<>>
  BY <1>1, EmptyStack DEF Raw
<1>2. CASE body # <<>>
  <2> DEFINE item == [kind |-> "raw", bytes |-> body]
  <2>1. item \in Item /\ Fits(item) /\ Packed(item) = body /\ body \in Seq(Byte)
    BY <1>2 DEF Item, Fits, Packed, Body
  <2>2. Append(<<>>, item) = <<item>> /\ <<>> \o body = body
    BY <2>1, ConcatEmpty
  <2>3. IsStack(Append(<<>>, item), <<>> \o Packed(item))
    <3> HIDE DEF item
    <3> QED BY <2>1, EmptyStack, StackPush, Zenon
  <2>4. QED
    BY <1>2, <2>1, <2>2, <2>3 DEF Raw
<1>3. QED
  BY <1>1, <1>2

\* The last item is what its extraction yields, and the rest of the stack is left.
LEMMA PopData ==
    ASSUME NEW its, NEW body \in Body, IsStack(its, body), its # <<>>,
           its[Len(its)].kind = "data", NEW size, Len(its[Len(its)].bytes) = size
    PROVE  LET outcome == extract_to_buffer(body, Len(body), size) IN
           /\ outcome.thrown = "none" /\ outcome.out = its[Len(its)].bytes
           /\ IsStack(SubSeq(its, 1, Len(its) - 1), outcome.body)
<1> DEFINE last == its[Len(its)]
<1>1. last \in Item /\ Fits(last)
  BY StackPop
<1>2. PICK below \in Seq(Byte) :
          body = below \o Packed(last) /\ IsStack(SubSeq(its, 1, Len(its) - 1), below)
  BY StackPop, Zenon
<1>3. Packed(last) = last.bytes
  BY DEF Packed
<1>4. last.bytes \in Seq(Byte) /\ last.bytes # <<>>
  BY <1>1 DEF Item, Fits
<1>5. extract_to_buffer(below \o last.bytes, Len(body), Len(last.bytes)) =
          Outcome(below, Len(below), last.bytes, "none")
  <2> HIDE DEF last
  <2>1. below \in Body
    BY <1>2, <1>3, <1>4, BeginFits
  <2> QED BY <1>4, <2>1, ExtractLast
<1>6. extract_to_buffer(body, Len(body), size) = Outcome(below, Len(below), last.bytes, "none")
  BY <1>2, <1>3, <1>5
<1>7. QED
  BY <1>2, <1>6 DEF Outcome

LEMMA PopString ==
    ASSUME NEW its, NEW body \in Body, IsStack(its, body), its # <<>>, its[Len(its)].kind = "string"
    PROVE  LET outcome == extract_string(body, Len(body)) IN
           /\ outcome.thrown = "none" /\ outcome.out = its[Len(its)].bytes
           /\ IsStack(SubSeq(its, 1, Len(its) - 1), outcome.body)
<1> DEFINE last == its[Len(its)]
<1>1. last \in Item /\ Fits(last)
  BY StackPop
<1>2. PICK below \in Seq(Byte) :
          body = below \o Packed(last) /\ IsStack(SubSeq(its, 1, Len(its) - 1), below)
  BY StackPop, Zenon
<1>3. Packed(last) = PackedString(last.bytes)
  BY DEF Packed
<1>4. last.bytes \in Seq(Byte) /\ last.bytes # <<>> /\ Len(last.bytes) <= MaxBody
  BY <1>1 DEF Item, Fits
<1>5. extract_string(below \o PackedString(last.bytes), Len(body)) =
          Outcome(below, Len(below), last.bytes, "none")
  <2> HIDE DEF last
  <2>1. below \o PackedString(last.bytes) \in Body
    BY <1>2, <1>3
  <2> QED BY <1>2, <1>4, <2>1, ExtractLastString
<1>6. extract_string(body, Len(body)) = Outcome(below, Len(below), last.bytes, "none")
  BY <1>2, <1>3, <1>5
<1>7. QED
  BY <1>2, <1>6 DEF Outcome

-------------------------------------------------------------------------------
(***************************************************************************)
(* The inductive invariant: the header has the size of the body, and the   *)
(* body is the stack of the items.                                         *)
(***************************************************************************)
Inv ==
    /\ m_body \in Body
    /\ m_size = Len(m_body)
    /\ IsStack(items, m_body)
    /\ result \in Seq(Byte)
    /\ thrown \in Exceptions

LEMMA InvInit == Init => Inv
<1>1. <<>> \in Body
  BY SizeAssumption DEF Body
<1>2. QED
  BY <1>1, EmptyStack DEF Init, Inv, Exceptions

\* What the items are after a push, and after an extraction of what is not the last item.
LEMMA PushedStack ==
    ASSUME NEW its, NEW body, IsStack(its, body), NEW item \in Item,
           NEW outcome, OutcomeType(outcome),
           outcome.thrown = "none" => Fits(item) /\ outcome.body = body \o Packed(item)
    PROVE  IsStack(IF outcome.thrown = "none" THEN Append(its, item)
                   ELSE IF outcome.body = body THEN its ELSE Raw(outcome.body), outcome.body)
<1>1. CASE outcome.thrown = "none"
  BY <1>1, StackPush, Zenon
<1>2. CASE outcome.thrown # "none" /\ outcome.body = body
  BY <1>2
<1>3. CASE outcome.thrown # "none" /\ outcome.body # body
  BY <1>3, StackRaw DEF OutcomeType
<1>4. QED
  BY <1>1, <1>2, <1>3

LEMMA OtherStack ==
    ASSUME NEW its, NEW body, IsStack(its, body), NEW outcome, OutcomeType(outcome)
    PROVE  IsStack(IF outcome.body = body THEN its ELSE Raw(outcome.body), outcome.body)
<1>1. CASE outcome.body = body
  BY <1>1
<1>2. CASE outcome.body # body
  BY <1>2, StackRaw DEF OutcomeType
<1>3. QED
  BY <1>1, <1>2

LEMMA InvNext == Inv /\ [Next]_vars => Inv'
<1> SUFFICES ASSUME Inv, [Next]_vars PROVE Inv'
  OBVIOUS
<1>1. m_body \in Body /\ m_size = Len(m_body) /\ m_body \in Seq(Byte) /\ IsStack(items, m_body)
  BY DEF Inv, Body
<1>2. ASSUME NEW data \in Data, push_back(data) PROVE Inv'
  <2> DEFINE outcome == push_back_buffer(m_body, Len(m_body), data)
             item == [kind |-> "data", bytes |-> data]
  <2>1. data \in Seq(Byte) /\ item \in Item /\ Packed(item) = data
    BY MessageAssumption DEF Item, Packed
  <2>2. /\ OutcomeType(outcome)
        /\ outcome.thrown = "none" => data # <<>> /\ outcome.body = m_body \o data
    BY <1>1, <2>1, PushBuffer
  <2>3. ASSUME outcome.thrown = "none" PROVE Len(data) <= MaxBody
    <3>1. outcome.body \in Body /\ outcome.body = m_body \o data
      BY <2>2, <2>3 DEF OutcomeType
    <3>2. data \o <<>> = data /\ <<>> \in Seq(Byte)
      BY <2>1, ConcatEmpty
    <3>3. m_body \o (data \o <<>>) \in Body
      BY <3>1, <3>2
    <3>4. QED
      BY <1>1, <2>1, <3>2, <3>3, EndFits, Zenon
  <2>4. outcome.thrown = "none" => Fits(item) /\ outcome.body = m_body \o Packed(item)
    BY <2>1, <2>2, <2>3 DEF Fits
  <2>5. Does(outcome) /\ Pushed(item, outcome)
    BY <1>1, <1>2 DEF push_back
  <2> HIDE DEF outcome, item
  <2>6. IsStack(items', outcome.body)
    BY <1>1, <2>1, <2>2, <2>4, <2>5, PushedStack, Zenon DEF Pushed
  <2>7. QED
    BY <2>2, <2>5, <2>6 DEF Does, Inv, OutcomeType
<1>3. ASSUME NEW string \in Strings, PushString(string) PROVE Inv'
  <2> DEFINE outcome == push_back_string(m_body, Len(m_body), string)
             item == [kind |-> "string", bytes |-> string]
  <2>1. string \in Seq(Byte) /\ item \in Item /\ Packed(item) = PackedString(string)
    BY MessageAssumption DEF Item, Packed
  <2>2. /\ OutcomeType(outcome)
        /\ outcome.thrown = "none" => string # <<>> /\ outcome.body = m_body \o PackedString(string)
    BY <1>1, <2>1, PushStringBuffer
  <2>3. ASSUME outcome.thrown = "none" PROVE Len(string) <= MaxBody
    <3>1. m_body \o PackedString(string) \in Body
      BY <2>2, <2>3, Zenon DEF OutcomeType
    <3>2. Encode(Len(string)) \in Seq(Byte)
      BY <2>1, EncodeType
    <3>3. m_body \o (string \o Encode(Len(string))) \in Body
      BY <3>1 DEF PackedString
    <3>4. QED
      BY <1>1, <2>1, <3>2, <3>3, EndFits
  <2>4. outcome.thrown = "none" => Fits(item) /\ outcome.body = m_body \o Packed(item)
    BY <2>1, <2>2, <2>3, Zenon DEF Fits
  <2>5. Does(outcome) /\ Pushed(item, outcome)
    BY <1>1, <1>3 DEF PushString
  <2> HIDE DEF outcome, item
  <2>6. IsStack(items', outcome.body)
    BY <1>1, <2>1, <2>2, <2>4, <2>5, PushedStack DEF Pushed
  <2>7. QED
    BY <2>2, <2>5, <2>6 DEF Does, Inv, OutcomeType
<1>4. ASSUME NEW data \in Data, extract(Len(data)) PROVE Inv'
  <2> DEFINE outcome == extract_to_buffer(m_body, Len(m_body), Len(data))
  <2>1. data \in Seq(Byte) /\ Len(data) \in Nat
    BY MessageAssumption
  <2>2. OutcomeType(outcome)
    BY <1>1, <2>1, ExtractBuffer
  <2>3. IsLast("data", Len(data)) => IsStack(SubSeq(items, 1, Len(items) - 1), outcome.body)
    BY <1>1, PopData DEF IsLast
  <2>4. Does(outcome) /\ Extracted("data", Len(data), outcome)
    BY <1>1, <1>4 DEF extract
  <2> HIDE DEF outcome
  <2>5. IsStack(items', outcome.body)
    BY <1>1, <2>2, <2>3, <2>4, OtherStack DEF Extracted
  <2>6. QED
    BY <2>2, <2>4, <2>5 DEF Does, Inv, OutcomeType
<1>5. ASSUME ExtractString PROVE Inv'
  <2> DEFINE outcome == extract_string(m_body, Len(m_body))
  <2>1. OutcomeType(outcome)
    BY <1>1, ExtractStringType
  <2>2. IsLast("string", 0) => IsStack(SubSeq(items, 1, Len(items) - 1), outcome.body)
    BY <1>1, PopString DEF IsLast
  <2>3. Does(outcome) /\ Extracted("string", 0, outcome)
    BY <1>1, <1>5 DEF ExtractString
  <2> HIDE DEF outcome
  <2>4. IsStack(items', outcome.body)
    BY <1>1, <2>1, <2>2, <2>3, OtherStack DEF Extracted
  <2>5. QED
    BY <2>1, <2>3, <2>4 DEF Does, Inv, OutcomeType
<1>6. ASSUME clear PROVE Inv'
  <2>1. <<>> \in Body /\ <<>> \in Seq(Byte) /\ "none" \in Exceptions
    BY SizeAssumption DEF Body, Exceptions
  <2>2. QED
    BY <1>6, <2>1, EmptyStack DEF clear, Does, Outcome, Inv
<1>7. ASSUME UNCHANGED vars PROVE Inv'
  BY <1>7 DEF vars, Inv
<1>8. QED
  BY <1>2, <1>3, <1>4, <1>5, <1>6, <1>7 DEF Next

\* At all times the body is the items pushed and not extracted, each behind the one before
\* it, and the header has its size: no call that throws half way breaks the stack.
THEOREM Invariance == Spec => []Inv
BY InvInit, InvNext, PTL DEF Spec

\* The body stays a sequence of bytes whose length the header can express, whatever calls
\* throw.
THEOREM TypeCorrect == Spec => []TypeOK
<1>1. Inv => TypeOK
  BY SizeAssumption DEF Inv, TypeOK, Body, IsStack
<1>2. QED
  BY <1>1, Invariance, PTL

\* m_header.m_size is the size of m_body after every call, for bodies of any size: no call
\* can throw between the change of the body and that of the header, also not the second
\* transfer of a string after the first.
THEOREM HeaderMatches == Spec => []HeaderMatchesBody
<1>1. Inv => HeaderMatchesBody
  BY DEF Inv, HeaderMatchesBody
<1>2. QED
  BY <1>1, Invariance, PTL

\* operator>> yields what operator<< stored last: for any byte and size width, for values
\* and strings of any length, and however many calls before threw half way.
THEOREM RoundTrips == Spec => RoundTrip
<1> DEFINE DataBack ==
               \A data \in Data :
                   extract(Len(data)) /\ IsLast("data", Len(data)) =>
                       thrown' = "none" /\ result' = items[Len(items)].bytes
           StringBack ==
               ExtractString /\ IsLast("string", 0) =>
                   thrown' = "none" /\ result' = items[Len(items)].bytes
<1>1. Inv => DataBack
  BY PopData DEF Inv, extract, IsLast, Does
<1>2. Inv => StringBack
  BY PopString DEF Inv, ExtractString, IsLast, Does
<1>3. Inv => [DataBack /\ StringBack]_vars
  BY <1>1, <1>2
<1>4. QED
  BY <1>3, Invariance, PTL DEF RoundTrip
===============================================================================
