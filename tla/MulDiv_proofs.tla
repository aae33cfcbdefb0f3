---------------------------- MODULE MulDiv_proofs ----------------------------
(* Proofs about MulDiv, for every width and every operand: the loops of the   *)
(* multiplier and of the divider compute what the M extension defines.        *)
EXTENDS MulDiv, WellFoundedInduction, TLAPS

----------------------------------------------------------------------------
(* Powers of two.                                                             *)

(* A set of numbers that is not empty has a least one.                        *)
LEMMA LeastNumber ==
    ASSUME NEW T, T \subseteq Nat, T # {}
    PROVE  \E n \in T : \A m \in T : n <= m
<1> DEFINE Less == {p \in Nat \X Nat : p[1] < p[2]}
<1>1. IsWellFoundedOn(Less, Nat)
  <2>1. OpToRel(<, Nat) = Less
    BY Zenon DEF OpToRel
  <2> QED
    BY <2>1, NatLessThanWellFounded, Zenon
<1> HIDE DEF Less
<1>2. PICK n \in T : \A m \in T : ~(<<m, n>> \in Less)
  BY <1>1, WFMin
<1>3. ASSUME NEW m \in T PROVE n <= m
  <2>1. n \in Nat /\ m \in Nat /\ <<m, n>> \in Nat \X Nat /\ <<m, n>> \notin Less
    BY <1>2
  <2>2. ~(m < n)
    BY <2>1 DEF Less
  <2> QED
    BY <2>1, <2>2
<1> QED
  BY <1>3

(* So what holds of 0 and goes on from each number to the next holds of all.  *)
LEMMA Induction ==
    ASSUME NEW S, 0 \in S, \A n \in Nat : n \in S => n + 1 \in S
    PROVE  Nat \subseteq S
<1> SUFFICES ASSUME Nat \ S # {} PROVE FALSE
  OBVIOUS
<1>1. PICK n \in Nat \ S : \A m \in Nat \ S : n <= m
  <2>1. Nat \ S \subseteq Nat
    OBVIOUS
  <2> QED
    BY <2>1, LeastNumber
<1>2. n - 1 \in Nat
  BY <1>1
<1>3. n - 1 \in S
  BY <1>1, <1>2
<1> QED
  BY <1>1, <1>2, <1>3

(* A table of the powers up to n.                                             *)
Table(n, f) == /\ f \in [0 .. n -> Nat]
               /\ f[0] = 1
               /\ \A k \in 1 .. n : f[k] = 2 * f[k - 1]

LEMMA TableExists == ASSUME NEW n \in Nat PROVE \E f : Table(n, f)
<1> DEFINE S == {k \in Nat : \E f : Table(k, f)}
<1>1. 0 \in S
  <2>1. Table(0, [k \in 0 .. 0 |-> 1])
    BY DEF Table
  <2> QED
    BY <2>1
<1>2. ASSUME NEW k \in Nat, k \in S PROVE k + 1 \in S
  <2>1. PICK f : Table(k, f)
    BY <1>2
  <2> DEFINE g == [j \in 0 .. k + 1 |-> IF j = k + 1 THEN 2 * f[k] ELSE f[j]]
  <2>2. Table(k + 1, g)
    BY <2>1 DEF Table
  <2> QED
    BY <2>2
<1> HIDE DEF S
<1>3. n \in S
  BY <1>1, <1>2, Induction
<1> QED
  BY <1>3 DEF S

LEMMA TablesAgree ==
    ASSUME NEW m \in Nat, NEW f, Table(m, f), NEW n \in Nat, NEW g, Table(n, g), m <= n
    PROVE  \A k \in 0 .. m : f[k] = g[k]
<1> DEFINE S == {k \in Nat : k <= m => f[k] = g[k]}
<1>1. 0 \in S
  BY DEF Table
<1>2. ASSUME NEW k \in Nat, k \in S PROVE k + 1 \in S
  <2> SUFFICES ASSUME k + 1 <= m PROVE f[k + 1] = g[k + 1]
    OBVIOUS
  <2>1. f[k] = g[k]
    BY <1>2
  <2>2. k + 1 \in 1 .. m /\ k + 1 \in 1 .. n /\ (k + 1) - 1 = k
    OBVIOUS
  <2>3. f[k + 1] = 2 * f[k] /\ g[k + 1] = 2 * g[k]
    BY <2>2 DEF Table
  <2> QED
    BY <2>1, <2>3
<1> HIDE DEF S
<1>3. Nat \subseteq S
  BY <1>1, <1>2, Induction
<1> QED
  BY <1>3 DEF S

(* The definition of Pow2 has a solution, so it can be unfolded.              *)
LEMMA Powers ==
    /\ Pow2[0] = 1
    /\ \A n \in Nat : Pow2[n] \in Nat \ {0} /\ Pow2[n + 1] = 2 * Pow2[n]
<1> DEFINE T(n) == CHOOSE f : Table(n, f)
           p == [n \in Nat |-> T(n)[n]]
<1>1. \A n \in Nat : Table(n, T(n))
  BY TableExists
<1> HIDE DEF T
<1>2. p[0] = 1
  BY <1>1 DEF Table
<1>3. ASSUME NEW n \in Nat PROVE p[n] \in Nat /\ p[n + 1] = 2 * p[n]
  <2>1. Table(n, T(n)) /\ Table(n + 1, T(n + 1))
    BY <1>1
  <2>2. T(n)[n] = T(n + 1)[n]
    BY <2>1, TablesAgree
  <2>3. T(n + 1)[n + 1] = 2 * T(n + 1)[n]
    BY <2>1 DEF Table
  <2>4. T(n)[n] \in Nat
    BY <2>1 DEF Table
  <2> QED
    BY <2>2, <2>3, <2>4
<1>4. p = [n \in Nat |-> IF n = 0 THEN 1 ELSE 2 * p[n - 1]]
  <2>1. ASSUME NEW n \in Nat PROVE p[n] = IF n = 0 THEN 1 ELSE 2 * p[n - 1]
    <3>1. CASE n = 0
      BY <1>2, <3>1
    <3>2. CASE n # 0
      <4>1. n - 1 \in Nat /\ (n - 1) + 1 = n
        BY <3>2
      <4> QED
        BY <1>3, <3>2, <4>1
    <3> QED
      BY <3>1, <3>2
  <2> HIDE DEF p
  <2>2. p = [n \in Nat |-> p[n]]
    BY DEF p
  <2> QED
    BY <2>1, <2>2
<1> HIDE DEF p
<1>5. Pow2 = [n \in Nat |-> IF n = 0 THEN 1 ELSE 2 * Pow2[n - 1]]
  <2> DEFINE Solves(f) == f = [n \in Nat |-> IF n = 0 THEN 1 ELSE 2 * f[n - 1]]
  <2>1. Pow2 = CHOOSE f : Solves(f)
    BY Zenon DEF Pow2
  <2>2. Solves(p)
    BY <1>4
  <2> HIDE DEF Solves
  <2>3. Solves(Pow2)
    BY <2>1, <2>2, Zenon
  <2> QED
    BY <2>3 DEF Solves
<1>6. Pow2[0] = 1
  BY <1>5
<1>7. ASSUME NEW n \in Nat PROVE Pow2[n + 1] = 2 * Pow2[n]
  BY <1>5
<1>8. Nat \subseteq {n \in Nat : Pow2[n] \in Nat \ {0}}
  <2> DEFINE S == {n \in Nat : Pow2[n] \in Nat \ {0}}
  <2>1. 0 \in S
    BY <1>6
  <2>2. ASSUME NEW n \in Nat, n \in S PROVE n + 1 \in S
    BY <1>7, <2>2
  <2> HIDE DEF S
  <2>3. Nat \subseteq S
    BY <2>1, <2>2, Induction
  <2> QED
    BY <2>3 DEF S
<1> QED
  BY <1>6, <1>7, <1>8

LEMMA PowersOfSums ==
    \A m, n \in Nat : Pow2[m + n] = Pow2[m] * Pow2[n]
<1> SUFFICES ASSUME NEW m \in Nat, NEW n \in Nat PROVE Pow2[m + n] = Pow2[m] * Pow2[n]
  OBVIOUS
<1> DEFINE S == {k \in Nat : Pow2[m + k] = Pow2[m] * Pow2[k]}
<1>1. 0 \in S
  BY Powers
<1>2. ASSUME NEW k \in Nat, k \in S PROVE k + 1 \in S
  <2>1. Pow2[m + k] = Pow2[m] * Pow2[k] /\ m + k \in Nat /\ (m + k) + 1 = m + (k + 1)
    BY <1>2
  <2>2. /\ Pow2[m + (k + 1)] = 2 * Pow2[m + k] /\ Pow2[k + 1] = 2 * Pow2[k]
        /\ Pow2[m] \in Nat /\ Pow2[k] \in Nat
    BY <2>1, Powers
  <2>3. Pow2[m] * (2 * Pow2[k]) = 2 * (Pow2[m] * Pow2[k])
    BY <2>2
  <2> QED
    BY <2>1, <2>2, <2>3
<1> HIDE DEF S
<1>3. n \in S
  BY <1>1, <1>2, Induction
<1> QED
  BY <1>3 DEF S

----------------------------------------------------------------------------
(* Division with remainder.                                                   *)
LEMMA QuotientIs ==
    ASSUME NEW a \in Int, NEW b \in Int, NEW q \in Int, NEW r \in Int,
           b > 0, a = q * b + r, 0 <= r, r < b
    PROVE  a \div b = q /\ a % b = r
OBVIOUS

LEMMA DivMod ==
    ASSUME NEW a \in Int, NEW b \in Int, b > 0
    PROVE  /\ a \div b \in Int /\ a % b \in Int /\ 0 <= a % b /\ a % b < b
           /\ a = (a \div b) * b + (a % b)
OBVIOUS

LEMMA QuotientOfNat ==
    ASSUME NEW a \in Nat, NEW b \in Nat, b > 0
    PROVE  a \div b \in Nat /\ a % b \in Nat /\ a \div b <= a
<1>1. /\ a \div b \in Int /\ a % b \in Int /\ 0 <= a % b /\ a % b < b
      /\ a = (a \div b) * b + (a % b)
  BY DivMod
<1>2. ASSUME NEW q \in Int, NEW r \in Int, 0 <= r, r < b, a = q * b + r
      PROVE  q >= 0 /\ q <= a
  <2>1. q >= 0
    <3>1. q < 0 => q * b <= -b
      OBVIOUS
    <3> QED
      BY <1>2, <3>1
  <2>2. q * b >= q
    BY <2>1
  <2> QED
    BY <1>2, <2>1, <2>2
<1> QED
  BY <1>1, <1>2

(* Adding a multiple of the divisor.                                          *)
LEMMA AddMultiple ==
    ASSUME NEW a \in Int, NEW k \in Int, NEW b \in Int, b > 0
    PROVE  (a + k * b) % b = a % b /\ (a + k * b) \div b = a \div b + k
<1>1. PICK q \in Int, r \in Int : /\ q = a \div b /\ r = a % b
                                  /\ 0 <= r /\ r < b /\ a = q * b + r
  BY DivMod
<1>2. a + k * b = (q + k) * b + r
  BY <1>1
<1>3. a + k * b \in Int /\ q + k \in Int
  OBVIOUS
<1> QED
  BY <1>1, <1>2, <1>3, QuotientIs

(* One more bit of a number.                                                  *)
LEMMA NextBit ==
    ASSUME NEW a \in Nat, NEW p \in Nat, p > 0
    PROVE  /\ a \div p = 2 * (a \div (2 * p)) + ((a \div p) % 2)
           /\ (a \div p) % 2 \in {0, 1}
<1>1. PICK q \in Int : q = a \div p
  BY DivMod
<1>2. q \div 2 = a \div (2 * p)
  BY <1>1
<1>3. q = 2 * (q \div 2) + (q % 2) /\ q % 2 \in {0, 1}
  BY <1>1
<1> QED
  BY <1>1, <1>2, <1>3

----------------------------------------------------------------------------
(* The operands of the loops.                                                 *)
Types == /\ func \in Functions /\ src1 \in Word /\ src2 \in Word
         /\ i \in 0 .. Bits
         /\ product \in Nat /\ multiplicand \in Nat /\ multiplier \in Nat
         /\ quotient \in Nat /\ remainder \in Nat

LEMMA BitsFacts ==
    /\ Bits \in Nat \ {0} /\ Width \in Nat \ {0} /\ Half \in Nat \ {0}
    /\ Mod \in Nat /\ Pow2[Bits - 1] \in Nat \ {0} /\ Mod = 2 * Pow2[Bits - 1]
<1>1. Width \in Nat \ {0} /\ Half \in Nat \ {0}
  BY WidthAssumption
<1>2. Bits \in Nat \ {0}
  BY <1>1 DEF Bits
<1>3. Bits - 1 \in Nat /\ (Bits - 1) + 1 = Bits
  BY <1>2
<1>4. Pow2[Bits - 1] \in Nat \ {0} /\ Pow2[Bits] = 2 * Pow2[Bits - 1]
  BY <1>3, Powers
<1> QED
  BY <1>1, <1>2, <1>4 DEF Mod

LEMMA OperandFacts ==
    ASSUME NEW x \in Nat
    PROVE  /\ Low(x) \in 0 .. Mod - 1
           /\ Abs(x) \in 0 .. Mod - 1
           /\ Abs(x) = IF Negative(x) THEN Mod - Low(x) ELSE Low(x)
           /\ Low(x) # 0 => Abs(x) > 0
<1> PICK h \in Nat \ {0} : h = Pow2[Bits - 1] /\ Mod = 2 * h
  BY BitsFacts
<1>1. Low(x) \in 0 .. Mod - 1
  BY BitsFacts, QuotientOfNat, DivMod DEF Low
<1>2. Negative(x) => Low(x) >= h
  BY DEF Negative
<1>3. Negative(x) => Complement(Low(x)) = Mod - Low(x)
  <2> SUFFICES ASSUME Negative(x) PROVE (Mod - Low(x)) % Mod = Mod - Low(x)
    BY DEF Complement
  <2> PICK d \in Nat : d = Mod - Low(x) /\ d < Mod
    BY <1>1, <1>2
  <2> QED
    BY <1>1, <1>2, QuotientIs
<1> QED
  BY <1>1, <1>2, <1>3 DEF Abs

LEMMA WordIsNat == ASSUME NEW x \in Word PROVE x \in Nat
  BY WidthAssumption, Powers DEF Word

LEMMA InitTypes == Init => Types
<1> SUFFICES ASSUME Init PROVE Types
  OBVIOUS
<1>1. src1 \in Nat /\ src2 \in Nat
  BY WordIsNat DEF Init
<1>2. multiplicand \in Nat /\ multiplier \in Nat
  BY <1>1, OperandFacts DEF Init
<1>3. i \in 0 .. Bits
  BY BitsFacts DEF Init
<1> QED
  BY <1>2, <1>3 DEF Init, Types

(* A pass shifts a bit into the remainder; the shift itself drops nothing.    *)
LEMMA DivisionFacts ==
    ASSUME Types, func \in Divisions, Low(src2) # 0
    PROVE  /\ Abs(src1) \in Nat /\ Abs(src1) < Mod
           /\ Abs(src2) \in Nat \ {0} /\ Abs(src2) < Mod /\ Mod \in Nat
BY WordIsNat, OperandFacts, BitsFacts DEF Types

LEMMA PassesLeft ==
    ASSUME Types, i > 0
    PROVE  /\ i - 1 \in 0 .. Bits /\ Pow2[i - 1] \in Nat \ {0}
           /\ Pow2[i] = 2 * Pow2[i - 1]
<1>1. i - 1 \in Nat /\ (i - 1) + 1 = i /\ i - 1 \in 0 .. Bits
  BY BitsFacts DEF Types
<1> QED
  BY <1>1, Powers

(* One pass, on plain numbers: q and r are the quotient, in its place, and    *)
(* the remainder of the bits of a from the one of weight p up.                *)
Divided(a, b, q, r, p) == a \div p = (q \div p) * b + r /\ q % p = 0 /\ r < b

LEMMA DivideOnce ==
    ASSUME NEW a \in Nat, NEW b \in Nat, NEW q \in Nat, NEW r \in Nat,
           NEW p \in Nat \ {0}, Divided(a, b, q, r, 2 * p),
           NEW s \in Nat, s = 2 * r + ((a \div p) % 2)
    PROVE  /\ s < b => Divided(a, b, q, s, p)
           /\ s >= b => Divided(a, b, q + p, s - b, p)
<1> USE DEF Divided
<1>0. p > 0 /\ p \in Nat /\ 2 * p \in Nat /\ 2 * p > 0
  OBVIOUS
<1>1. a \div p = 2 * (a \div (2 * p)) + ((a \div p) % 2) /\ (a \div p) % 2 \in {0, 1}
  BY <1>0, NextBit, Zenon
<1> PICK k \in Nat : k = q \div (2 * p)
  BY <1>0, QuotientOfNat
<1>2. q = k * (2 * p)
  BY <1>0, DivMod
<1>3. q = (2 * k) * p /\ q + p = (2 * k + 1) * p
  BY <1>2
<1>4. q \div p = 2 * k /\ q % p = 0
  BY <1>3, QuotientIs
<1>5. (q + p) \div p = 2 * k + 1 /\ (q + p) % p = 0
  BY <1>3, QuotientIs
<1>6. a \div p = 2 * (k * b + r) + ((a \div p) % 2)
  BY <1>1
<1>7. a \div p = 2 * (k * b) + s
  <2> PICK kb \in Nat, d \in Nat : kb = k * b /\ d = (a \div p) % 2
    BY <1>1
  <2> QED
    BY <1>6
<1>8. (2 * k) * b = 2 * (k * b) /\ (2 * k + 1) * b = 2 * (k * b) + b
  OBVIOUS
<1>9. s < 2 * b
  BY <1>1
<1>10. k * b \in Nat /\ a \div p \in Int
  BY DivMod
<1> QED
  BY <1>4, <1>5, <1>7, <1>8, <1>9, <1>10

LEMMA ShiftFits ==
    ASSUME Types, DivisionInvariant, func \in Divisions, Low(src2) # 0, i > 0
    PROVE  Shifted \in Nat /\ Shifted = 2 * remainder + ((Abs(src1) \div Pow2[i - 1]) % 2)
<1>1. 2 * remainder < Mod /\ remainder \in Nat /\ Mod \in Nat
  BY BitsFacts DEF DivisionInvariant, Types
<1>2. (2 * remainder) % Mod = 2 * remainder
  BY <1>1
<1>3. (Abs(src1) \div Pow2[i - 1]) % 2 \in {0, 1}
  BY DivisionFacts, PassesLeft, NextBit
<1> QED
  BY <1>1, <1>2, <1>3 DEF Shifted

(* While passes are left, the part of the dividend above is short.            *)
LEMMA HighPart ==
    ASSUME NEW a \in Nat, NEW m \in Nat, NEW p \in Nat \ {0}, a < m
    PROVE  2 * (a \div (2 * p)) < m
<1> PICK h \in Nat : h = a \div (2 * p) /\ h * (2 * p) <= a
  BY QuotientOfNat, DivMod
<1>1. h * (2 * p) = 2 * (h * p)
  OBVIOUS
<1>2. h * p >= h
  OBVIOUS
<1> QED
  BY <1>1, <1>2

LEMMA RemainderBelow ==
    ASSUME NEW h \in Nat, NEW k \in Nat, NEW b \in Nat, NEW r \in Nat, NEW m \in Nat,
           h = k * b + r, 2 * h < m
    PROVE  2 * r < m
<1>1. k * b \in Nat
  OBVIOUS
<1> QED
  BY <1>1

LEMMA DivideKeeps ==
    ASSUME Types, DivisionInvariant, Divide
    PROVE  DivisionInvariant' /\ Types'
<1> DEFINE a == Abs(src1)
           b == Abs(src2)
           p == Pow2[i - 1]
<1>1. /\ func \in Divisions /\ i > 0 /\ Low(src2) # 0
      /\ UNCHANGED <<func, src1, src2, product, multiplicand, multiplier>>
      /\ i' = i - 1
  BY DEF Divide, inputs
<1>2. a \in Nat /\ a < Mod /\ b \in Nat \ {0} /\ Mod \in Nat
  BY <1>1, DivisionFacts
<1>3. p \in Nat \ {0} /\ Pow2[i] = 2 * p /\ i - 1 \in 0 .. Bits
  BY <1>1, PassesLeft
<1>4. Shifted \in Nat /\ Shifted = 2 * remainder + ((a \div p) % 2)
  BY <1>1, ShiftFits
<1>5. /\ a \div (2 * p) = (quotient \div (2 * p)) * b + remainder
      /\ quotient % (2 * p) = 0 /\ remainder < b
      /\ quotient \in Nat /\ remainder \in Nat
  BY <1>1, <1>3 DEF DivisionInvariant, Types
<1>6. /\ remainder' = IF Shifted >= b THEN Shifted - b ELSE Shifted
      /\ quotient' = IF Shifted >= b THEN quotient + p ELSE quotient
  BY DEF Divide, Fits
<1>7. UNCHANGED <<a, b, Bits, Mod, Low(src2)>>
  BY <1>1 DEF Abs, Low, Negative, Complement, Bits, Mod
<1> HIDE DEF a, b, p
<1>abp. PICK A \in Nat, B \in Nat \ {0}, P \in Nat \ {0} : A = a /\ B = b /\ P = p
  BY <1>2, <1>3
<1>8. /\ a \div p = (quotient' \div p) * b + remainder'
      /\ quotient' % p = 0 /\ remainder' < b /\ remainder' \in Nat /\ quotient' \in Nat
  <2>qrs. PICK q \in Nat, r \in Nat, s \in Nat : q = quotient /\ r = remainder /\ s = Shifted
    BY <1>4, <1>5
  <2>1. Divided(A, B, q, r, 2 * P) /\ s = 2 * r + ((A \div P) % 2) /\ B \in Nat
    BY <1>abp, <2>qrs, <1>4, <1>5, Zenon DEF Divided
  <2>2. /\ s < b => Divided(a, b, q, s, p)
        /\ s >= b => Divided(a, b, q + p, s - b, p)
    BY <1>abp, <2>1, DivideOnce
  <2>3. CASE s < b
    <3>1. quotient' = q /\ remainder' = s
      BY <1>2, <1>4, <1>6, <2>3, <2>qrs
    <3> QED
      BY <2>2, <2>3, <2>qrs, <3>1 DEF Divided
  <2>4. CASE s >= b
    <3>1. /\ quotient' = q + p /\ remainder' = s - b
          /\ s - b \in Nat /\ q + p \in Nat
      BY <1>2, <1>3, <1>6, <2>4, <2>qrs
    <3> QED
      BY <2>2, <2>4, <3>1, Zenon DEF Divided
  <2> QED
    BY <1>2, <2>3, <2>4, <2>qrs
<1>9. ASSUME i - 1 > 0 PROVE 2 * remainder' < Mod
  <2>1. i - 1 \in Nat /\ (i - 1) - 1 \in Nat /\ ((i - 1) - 1) + 1 = i - 1
    BY <1>3, <1>9
  <2>2. PICK pp \in Nat \ {0} : P = 2 * pp
    BY <2>1, <1>abp, Powers DEF p
  <2>3. 2 * (A \div P) < Mod /\ A \div P \in Nat
    BY <1>2, <1>abp, <2>2, HighPart, QuotientOfNat
  <2>4. PICK q \in Nat, r \in Nat : q = quotient' /\ r = remainder'
    BY <1>8
  <2>5. q \div P \in Nat
    BY QuotientOfNat
  <2>6. A \div P = (q \div P) * B + r /\ B \in Nat
    BY <1>8, <1>abp, <2>4, Zenon
  <2> QED
    BY <1>2, <2>3, <2>4, <2>5, <2>6, RemainderBelow, Zenon
<1>10. Types'
  BY <1>1, <1>3, <1>7, <1>8 DEF Types, Divisions
<1>11. /\ a' \div Pow2[i'] = (quotient' \div Pow2[i']) * b' + remainder'
       /\ quotient' % Pow2[i'] = 0 /\ remainder' < b'
       /\ i' > 0 => 2 * remainder' < Mod'
  BY <1>1, <1>7, <1>8, <1>9 DEF p
<1> QED
  BY <1>10, <1>11 DEF DivisionInvariant, a, b

----------------------------------------------------------------------------
(* The multiplication: what has been added, and what is left to add, is the   *)
(* product, up to multiples of the word's size.                               *)
Congruent(x, y, m) == \E k \in Int : x = y + k * m
MultiplySide == func \in Products =>
    /\ multiplier < Pow2[i]
    /\ Congruent(product + multiplicand * multiplier, Low(src1) * Low(src2), Pow2[Width])

LEMMA ModIsCongruent ==
    ASSUME NEW x \in Nat, NEW w \in Nat \ {0}
    PROVE  Congruent(x % w, x, w) /\ x % w \in Nat
<1>1. PICK e \in Int, f \in Nat : f = x % w /\ x = e * w + f
  <2>1. /\ x \div w \in Int /\ x % w \in Int /\ 0 <= x % w
        /\ x = (x \div w) * w + (x % w)
    BY DivMod
  <2>2. x % w \in Nat
    BY <2>1
  <2> QED
    BY <2>1, <2>2, Zenon
<1>2. f = x + (-e) * w
  BY <1>1
<1>3. -e \in Int
  OBVIOUS
<1>4. Congruent(f, x, w)
  BY <1>2, <1>3 DEF Congruent
<1> QED
  BY <1>1, <1>4, Zenon

LEMMA CongruentMod ==
    ASSUME NEW x \in Int, NEW y \in Int, NEW w \in Nat \ {0}, Congruent(x, y, w)
    PROVE  x % w = y % w
<1>1. PICK k \in Int : x = y + k * w
  BY DEF Congruent
<1>2. w \in Int /\ w > 0
  OBVIOUS
<1>3. (y + k * w) % w = y % w
  BY <1>2, AddMultiple, Zenon
<1> QED
  BY <1>1, <1>3, Zenon

(* One pass, on plain numbers: d is the last bit of the multiplier, h the     *)
(* rest of it, and c and s may have lost a multiple of the word's size.       *)
LEMMA MultiplyOnce ==
    ASSUME NEW t \in Int, NEW p \in Nat, NEW c \in Nat, NEW h \in Nat, NEW d \in {0, 1},
           NEW w \in Nat \ {0}, Congruent(p + c * (2 * h + d), t, w),
           NEW s \in Nat, Congruent(s, p + c * d, w),
           NEW g \in Nat, Congruent(g, 2 * c, w)
    PROVE  Congruent(s + g * h, t, w)
<1>1. PICK k \in Int : p + c * (2 * h + d) = t + k * w
  BY DEF Congruent
<1>2. PICK v \in Int : s = (p + c * d) + v * w
  BY DEF Congruent
<1>3. PICK u \in Int : g = 2 * c + u * w
  BY DEF Congruent
<1>4. g * h = (2 * c) * h + (u * h) * w
  BY <1>3
<1>5. c * (2 * h + d) = (2 * c) * h + c * d
  OBVIOUS
<1>6. ((k + v) + u * h) * w = (k * w + v * w) + (u * h) * w
  OBVIOUS
<1>7. s + g * h = t + ((k + v) + u * h) * w
  <2>1. ASSUME NEW cd \in Int, NEW ch \in Int, NEW kw \in Int, NEW vw \in Int,
               NEW uhw \in Int, NEW gh \in Int, NEW all \in Int,
               p + (ch + cd) = t + kw, s = (p + cd) + vw, gh = ch + uhw,
               all = (kw + vw) + uhw
        PROVE  s + gh = t + all
    BY <2>1
  <2>2. /\ c * d \in Int /\ (2 * c) * h \in Int /\ k * w \in Int /\ v * w \in Int
        /\ (u * h) * w \in Int /\ g * h \in Int /\ ((k + v) + u * h) * w \in Int
    OBVIOUS
  <2>3. p + ((2 * c) * h + c * d) = t + k * w
    BY <1>1, <1>5
  <2> QED
    BY <1>2, <1>4, <1>6, <2>1, <2>2, <2>3
<1>8. (k + v) + u * h \in Int
  OBVIOUS
<1> QED
  BY <1>7, <1>8 DEF Congruent

LEMMA InitMultiply == Init => MultiplySide
<1> SUFFICES ASSUME Init, func \in Products PROVE MultiplySide
  BY DEF MultiplySide
<1>1. src1 \in Nat /\ src2 \in Nat
  BY WordIsNat DEF Init
<1>2. Low(src1) \in Nat /\ Low(src2) \in Nat /\ Low(src2) < Mod
  BY <1>1, OperandFacts, BitsFacts
<1>3. multiplier < Pow2[i]
  BY <1>2 DEF Init, Mod
<1>4. product + multiplicand * multiplier = Low(src1) * Low(src2) + 0 * Pow2[Width]
  <2>1. Low(src1) * Low(src2) \in Nat /\ Pow2[Width] \in Nat
    BY <1>2, BitsFacts, Powers
  <2> QED
    BY <2>1 DEF Init
<1> QED
  BY <1>3, <1>4 DEF MultiplySide, Congruent

LEMMA MultiplyKeeps ==
    ASSUME Types, MultiplySide, Multiply
    PROVE  MultiplySide' /\ Types'
<1>1. /\ func \in Products /\ i > 0 /\ i' = i - 1
      /\ UNCHANGED <<func, src1, src2, quotient, remainder>>
      /\ product' = Sum
      /\ multiplicand' = (2 * multiplicand) % Pow2[Width]
      /\ multiplier' = multiplier \div 2
  BY DEF Multiply, inputs
<1>2. /\ i - 1 \in 0 .. Bits /\ Pow2[i - 1] \in Nat \ {0} /\ Pow2[i] = 2 * Pow2[i - 1]
      /\ Pow2[Width] \in Nat \ {0}
  BY <1>1, PassesLeft, BitsFacts, Powers
<1>3. /\ product \in Nat /\ multiplicand \in Nat /\ multiplier \in Nat
      /\ multiplier < Pow2[i]
      /\ Congruent(product + multiplicand * multiplier, Low(src1) * Low(src2), Pow2[Width])
  BY <1>1 DEF Types, MultiplySide
<1>4. PICK h \in Nat, d \in {0, 1} :
         h = multiplier \div 2 /\ d = multiplier % 2 /\ multiplier = 2 * h + d
  BY <1>3
<1>5. Sum \in Nat /\ Congruent(Sum, product + multiplicand * d, Pow2[Width])
  <2>1. CASE d = 1
    <3>1. /\ product + multiplicand \in Nat /\ Sum = (product + multiplicand) % Pow2[Width]
          /\ product + multiplicand * d = product + multiplicand
      BY <1>3, <1>4, <2>1 DEF Sum
    <3> QED
      BY <1>2, <3>1, ModIsCongruent
  <2>2. CASE d = 0
    <3>1. Sum = product /\ product + multiplicand * d = product
      BY <1>3, <1>4, <2>2 DEF Sum
    <3>2. product = product + 0 * Pow2[Width]
      BY <1>2, <1>3
    <3> QED
      BY <1>3, <3>1, <3>2 DEF Congruent
  <2> QED
    BY <2>1, <2>2
<1>6. Low(src1) * Low(src2) \in Int
  <2>1. Low(src1) \in Nat /\ Low(src2) \in Nat
    BY WordIsNat, OperandFacts, BitsFacts DEF Types
  <2> QED
    BY <2>1
<1>7. /\ multiplicand' \in Nat
      /\ Congruent(Sum + multiplicand' * h, Low(src1) * Low(src2), Pow2[Width])
  <2>1. 2 * multiplicand \in Nat
    BY <1>3
  <2>2. Congruent(multiplicand', 2 * multiplicand, Pow2[Width]) /\ multiplicand' \in Nat
    BY <1>1, <1>2, <2>1, ModIsCongruent
  <2>3. PICK g \in Nat : g = multiplicand'
    BY <2>2
  <2>4. Congruent(Sum + g * h, Low(src1) * Low(src2), Pow2[Width])
    BY <1>2, <1>3, <1>4, <1>5, <1>6, <2>2, <2>3, MultiplyOnce
  <2> QED
    BY <2>2, <2>3, <2>4
<1>8. UNCHANGED <<Bits, Low(src1), Low(src2)>>
  BY <1>1 DEF Low, Bits, Mod
<1>9. Congruent(product' + multiplicand' * multiplier', Low(src1)' * Low(src2)', Pow2[Width])
  BY <1>1, <1>4, <1>7, <1>8
<1>10. multiplier' < Pow2[i'] /\ multiplier' \in Nat
  BY <1>1, <1>2, <1>3, <1>4
<1>11. product' \in Nat /\ multiplicand' \in Nat
  BY <1>1, <1>5, <1>7
<1>12. Types'
  BY <1>1, <1>2, <1>8, <1>10, <1>11 DEF Types, Products
<1> QED
  BY <1>9, <1>10, <1>12 DEF MultiplySide

----------------------------------------------------------------------------
(* The results.  Names for the operands and for what the loops leave.         *)
LEMMA Remainders ==
    ASSUME NEW m \in Nat, NEW x \in Nat, x < m
    PROVE  x % m = x /\ (-x) % m = (m - x) % m
<1>1. x % m = x
  BY QuotientIs
<1>2. -x \in Int /\ m - x \in Int /\ m \in Nat \ {0} /\ m - x = (-x) + 1 * m
  OBVIOUS
<1>3. Congruent(m - x, -x, m)
  BY <1>2 DEF Congruent
<1> QED
  BY <1>1, <1>2, <1>3, CongruentMod

LEMMA MeaningIs ==
    ASSUME NEW x \in Nat
    PROVE  /\ Meaning(Low(x)) = IF Negative(x) THEN -Abs(x) ELSE Abs(x)
           /\ Magnitude(Meaning(Low(x))) = Abs(x)
           /\ Meaning(Low(x)) < 0 <=> Negative(x)
           /\ Meaning(Low(x)) = 0 <=> Low(x) = 0
<1>1. /\ Low(x) \in 0 .. Mod - 1 /\ Abs(x) \in 0 .. Mod - 1 /\ Mod \in Nat
      /\ Abs(x) = IF Negative(x) THEN Mod - Low(x) ELSE Low(x)
  BY OperandFacts, BitsFacts
<1>2. Meaning(Low(x)) = IF Negative(x) THEN Low(x) - Mod ELSE Low(x)
  BY DEF Meaning, Negative
<1>3. Negative(x) => Low(x) > 0
  BY <1>1, BitsFacts DEF Negative
<1> QED
  BY <1>1, <1>2, <1>3 DEF Magnitude

(* The width of a word is a multiple of the width of the operation.           *)
LEMMA ModDividesWord ==
    \E c \in Nat \ {0} : Pow2[Width] = c * Mod /\ (func \in Narrow => c = Mod)
<1>1. CASE func \in Narrow
  <2>1. Bits = Half /\ Width = Half + Half /\ Half \in Nat
    BY <1>1, WidthAssumption DEF Bits
  <2>2. Pow2[Half + Half] = Pow2[Half] * Pow2[Half] /\ Pow2[Half] \in Nat \ {0}
    BY <2>1, PowersOfSums, Powers
  <2> QED
    BY <2>1, <2>2 DEF Mod
<1>2. CASE func \notin Narrow
  <2>1. Mod = Pow2[Width] /\ Mod \in Nat
    BY <1>2, BitsFacts DEF Mod, Bits
  <2>2. Mod = 1 * Mod
    BY <2>1
  <2> QED
    BY <1>2, <2>1, <2>2
<1> QED
  BY <1>1, <1>2

LEMMA ProductRight ==
    ASSUME Types, MultiplySide, func \in Products, i = 0
    PROVE  Value = Expected /\ Value \in 0 .. Mod - 1
<1>1. Low(src1) \in Nat /\ Low(src2) \in Nat /\ Mod \in Nat \ {0}
  BY WordIsNat, OperandFacts, BitsFacts DEF Types
<1>2. Meaning(Low(src1)) = Low(src1) /\ Meaning(Low(src2)) = Low(src2)
  BY DEF Meaning, Products, Signed
<1>3. Expected = (Low(src1) * Low(src2)) % Mod /\ Value = product % Mod
  <2>1. func \notin Quotients
    BY DEF Products, Quotients
  <2>2. Expected = (Meaning(Low(src1)) * Meaning(Low(src2))) % Mod
    BY <2>1, Zenon DEF Expected
  <2>3. Value = product % Mod
    BY Zenon DEF Value
  <2> QED
    BY <1>2, <2>2, <2>3, Zenon
<1>4. multiplier = 0
  BY Powers DEF MultiplySide, Types
<1>5. PICK k \in Int : product + multiplicand * multiplier = Low(src1) * Low(src2) + k * Pow2[Width]
  BY DEF MultiplySide, Congruent
<1>6. PICK t \in Int : t = Low(src1) * Low(src2)
  BY <1>1
<1>7. PICK c \in Nat \ {0} : Pow2[Width] = c * Mod
  BY ModDividesWord
<1>8. product = t + (k * c) * Mod
  <2>1. product + multiplicand * multiplier = product
    BY <1>4 DEF Types
  <2>2. k * (c * Mod) = (k * c) * Mod
    BY <1>1
  <2> QED
    BY <1>5, <1>6, <1>7, <2>1, <2>2
<1>9. Congruent(product, t, Mod) /\ product \in Int
  <2>1. k * c \in Int
    OBVIOUS
  <2> QED
    BY <1>8, <2>1 DEF Congruent, Types
<1>10. product % Mod = t % Mod
  BY <1>1, <1>9, CongruentMod
<1>11. product % Mod \in 0 .. Mod - 1
  BY <1>1, <1>9, DivMod
<1> QED
  BY <1>3, <1>6, <1>10, <1>11, Zenon

LEMMA DivisionByZero ==
    ASSUME Types, func \in Divisions, Low(src2) = 0
    PROVE  Value = Expected /\ Value \in 0 .. Mod - 1
<1>1. src1 \in Nat /\ src2 \in Nat
  BY WordIsNat DEF Types
<1>2. PICK m \in Nat \ {0}, x \in Nat : m = Mod /\ x = Low(src1) /\ x < m
  BY <1>1, OperandFacts, BitsFacts
<1>3. Meaning(Low(src2)) = 0
  BY <1>1, MeaningIs
<1>4. Meaning(Low(src1)) % Mod = Low(src1)
  <2>1. Meaning(Low(src1)) = x \/ Meaning(Low(src1)) = x - m
    BY <1>2 DEF Meaning
  <2>2. x % m = x
    BY <1>2, Remainders
  <2>3. (x - m) % m = x
    <3>1. x - m = x + (-1) * m /\ x - m \in Int /\ -1 \in Int
      BY <1>2
    <3>2. Congruent(x - m, x, m)
      BY <3>1 DEF Congruent
    <3> QED
      BY <2>2, <3>1, <3>2, CongruentMod
  <2> QED
    BY <1>2, <2>1, <2>2, <2>3, Zenon
<1>5. func \notin Products
  BY DEF Products, Divisions, Quotients
<1> QED
  BY <1>2, <1>3, <1>4, <1>5 DEF Value, ByZero, Expected

LEMMA DivisionRight ==
    ASSUME Types, DivisionInvariant, func \in Divisions, Low(src2) # 0, i = 0
    PROVE  Value = Expected /\ Value \in 0 .. Mod - 1
<1>1. src1 \in Nat /\ src2 \in Nat
  BY WordIsNat DEF Types
<1>2. PICK a \in Nat, b \in Nat \ {0}, m \in Nat \ {0} :
         a = Abs(src1) /\ b = Abs(src2) /\ m = Mod /\ a < m /\ b < m
  BY DivisionFacts
<1>3. PICK q \in Nat, r \in Nat :
         q = quotient /\ r = remainder /\ a = q * b + r /\ r < b
  <2>1. Pow2[i] = 1
    BY Powers
  <2>2. PICK q \in Nat, r \in Nat : q = quotient /\ r = remainder
    BY DEF Types
  <2>3. a \div 1 = (q \div 1) * b + r /\ r < b
    BY <1>2, <2>1, <2>2, Zenon DEF DivisionInvariant
  <2>4. a = q * b + r
    BY <2>3
  <2> QED
    BY <2>2, <2>3, <2>4
<1>4. a \div b = q
  BY <1>3, QuotientIs
<1>5. q < m /\ r < m
  <2>1. q <= q * b
    OBVIOUS
  <2> QED
    BY <1>2, <1>3, <2>1
<1>6. PICK s \in BOOLEAN, t \in BOOLEAN : s = Negative(src1) /\ t = Negative(src2)
  BY DEF Negative
<1>7. PICK x \in {a, -a}, y \in {b, -b} :
         /\ x = Meaning(Low(src1)) /\ y = Meaning(Low(src2))
         /\ x = IF s THEN -a ELSE a
         /\ y = IF t THEN -b ELSE b
         /\ y # 0 /\ Magnitude(x) = a /\ Magnitude(y) = b
         /\ (x < 0) = s /\ (y < 0) = t
  BY <1>1, <1>2, <1>6, MeaningIs
<1>8. PICK u \in Int : u = Truncated(x, y) /\ u = IF s # t THEN -q ELSE q
  BY <1>4, <1>7 DEF Truncated
<1>9. func \notin Products /\ (func \in Quotients \/ func \notin Quotients)
  BY DEF Products, Divisions, Quotients
<1>10. /\ q % m = q /\ (-q) % m = (m - q) % m
       /\ r % m = r /\ (-r) % m = (m - r) % m
  BY <1>5, Remainders
<1>0. (m - q) % m \in 0 .. m - 1 /\ (m - r) % m \in 0 .. m - 1
  BY DivMod
<1>11. CASE func \in Quotients
  <2>1. Value = IF s # t THEN (m - q) % m ELSE q
    BY <1>2, <1>3, <1>6, <1>9, <1>11, Zenon DEF Value, Quotient, Complement
  <2>2. Expected = u % m
    BY <1>2, <1>7, <1>8, <1>9, <1>11, Zenon DEF Expected
  <2> QED
    BY <1>0, <1>2, <1>5, <1>8, <1>10, <2>1, <2>2
<1>12. CASE func \notin Quotients
  <2>1. Value = IF s THEN (m - r) % m ELSE r
    BY <1>2, <1>3, <1>6, <1>9, <1>12, Zenon DEF Value, Remainder, Complement
  <2>2. Expected = (x - y * u) % m
    BY <1>2, <1>7, <1>8, <1>9, <1>12, Zenon DEF Expected
  <2>3. x - y * u = IF s THEN -r ELSE r
    <3>1. PICK p \in Int : p = q * b
      OBVIOUS
    <3>2. a = p + r
      BY <1>3, <3>1
    <3>3. b * q = p /\ b * (-q) = -p /\ (-b) * q = -p /\ (-b) * (-q) = p
      BY <3>1
    <3>4. y * u = IF s THEN -p ELSE p
      BY <1>7, <1>8, <3>3
    <3> QED
      BY <1>7, <3>2, <3>4
  <2> QED
    BY <1>0, <1>2, <1>5, <1>10, <2>1, <2>2, <2>3
<1> QED
  BY <1>11, <1>12

(* The extension puts the value in the low bits, and copies of its top bit    *)
(* above them.                                                                *)
LEMMA Extension ==
    ASSUME NEW v \in Nat, NEW h \in Nat \ {0}, v < 2 * h
    PROVE  /\ (v + (2 * h) * (2 * h) - 2 * h) % (2 * h) = v
           /\ (v + (2 * h) * (2 * h) - 2 * h) \div (2 * h) = 2 * h - 1
           /\ v % (2 * h) = v /\ v \div (2 * h) = 0
           /\ ((2 * h) * (2 * h)) \div (2 * h) = 2 * h
<1>1. PICK m \in Nat \ {0} : m = 2 * h
  OBVIOUS
<1>2. m * m - m = (m - 1) * m /\ m * m \in Int
  OBVIOUS
<1>3. v + m * m - m = (m - 1) * m + v
  BY <1>2
<1>4. (v + m * m - m) % m = v /\ (v + m * m - m) \div m = m - 1
  <2>1. PICK k \in Nat : k = m - 1
    BY <1>1
  <2>2. k * m \in Nat /\ k * m = (m - 1) * m
    BY <2>1
  <2>3. PICK n \in Nat : n = k * m + v
    BY <2>2
  <2>4. n % m = v /\ n \div m = k
    <3>1. n \in Int /\ m \in Int /\ k \in Int /\ v \in Int /\ m > 0 /\ 0 <= v /\ v < m
      BY <1>1, <2>1, <2>3
    <3> QED
      BY <2>3, <3>1, QuotientIs
  <2>5. v + m * m - m = n
    BY <1>3, <2>2, <2>3
  <2> QED
    BY <2>1, <2>4, <2>5
<1>5. v % m = v /\ v \div m = 0
  BY <1>1
<1>6. (m * m) \div m = m
  <2>1. PICK n \in Nat : n = m * m
    BY <1>2
  <2>2. n = m * m + 0
    BY <2>1
  <2> QED
    BY <2>1, <2>2, QuotientIs
<1> QED
  BY <1>1, <1>4, <1>5, <1>6

(* Expected is about the operands only.                                       *)
LEMMA SameOperands ==
    ASSUME UNCHANGED <<func, src1, src2>>
    PROVE  UNCHANGED <<Bits, Mod, Low(src1), Low(src2), Abs(src1), Abs(src2), Expected>>
<1>1. UNCHANGED <<func, src1, src2>>
  OBVIOUS
<1>2. Bits' = Bits
  BY <1>1, Zenon DEF Bits
<1>3. Mod' = Mod
  BY <1>2, Zenon DEF Mod
<1>4. (Low(src1))' = Low(src1) /\ (Low(src2))' = Low(src2)
  BY <1>1, <1>3, Zenon DEF Low
<1>5. (Negative(src1))' = Negative(src1) /\ (Negative(src2))' = Negative(src2)
  BY <1>1, <1>2, <1>4, Zenon DEF Negative
<1>6. (Abs(src1))' = Abs(src1) /\ (Abs(src2))' = Abs(src2)
  BY <1>3, <1>4, <1>5, Zenon DEF Abs, Complement
<1>7. (Meaning(Low(src1)))' = Meaning(Low(src1)) /\ (Meaning(Low(src2)))' = Meaning(Low(src2))
  BY <1>1, <1>2, <1>3, <1>4, Zenon DEF Meaning
<1>8. Expected' = Expected
  BY <1>1, <1>3, <1>7 DEF Expected
<1> QED
  BY <1>2, <1>3, <1>4, <1>6, <1>8

LEMMA ReturnRight ==
    ASSUME Types, Return, Value = Expected, Value \in 0 .. Mod - 1
    PROVE  ResultRight'
<1>1. /\ UNCHANGED <<func, src1, src2>>
      /\ result' = IF func \in Narrow THEN SignExtend(Value) ELSE Value
  BY DEF Return, inputs
<1>2. UNCHANGED <<Bits, Mod, Expected>>
  BY <1>1, SameOperands
<1>3. PICK v \in Nat, h \in Nat \ {0} :
         v = Expected /\ h = Pow2[Bits - 1] /\ Mod = 2 * h /\ v < 2 * h
  BY BitsFacts
<1>4. CASE func \in Narrow
  <2>1. Pow2[Width] = (2 * h) * (2 * h)
    BY <1>3, <1>4, ModDividesWord
  <2>2. result' = IF v >= h THEN v + (2 * h) * (2 * h) - 2 * h ELSE v
    BY <1>1, <1>3, <1>4, <2>1, Zenon DEF SignExtend
  <2>3. /\ result' % (2 * h) = v
        /\ result' \div (2 * h) = IF v >= h THEN ((2 * h) * (2 * h)) \div (2 * h) - 1 ELSE 0
    BY <2>2, Extension, <1>3
  <2> QED
    BY <1>1, <1>2, <1>3, <2>1, <2>3, Zenon DEF ResultRight
<1>5. CASE func \notin Narrow
  <2>1. result' = v /\ v % (2 * h) = v
    BY <1>1, <1>3, <1>5, Extension
  <2> QED
    BY <1>1, <1>2, <1>3, <1>5, <2>1, Zenon DEF ResultRight
<1> QED
  BY <1>4, <1>5

----------------------------------------------------------------------------
(* The inductive invariant: the division's and the multiplication's.          *)
IInv == Types /\ DivisionInvariant /\ MultiplySide /\ ResultRight

(* Nothing has been shifted in at the start.                                  *)
LEMMA InitDivision == Init => DivisionInvariant
<1> SUFFICES ASSUME Init, func \in Divisions, Low(src2) # 0 PROVE DivisionInvariant
  BY DEF DivisionInvariant
<1>1. PICK a \in Nat, b \in Nat \ {0}, m \in Nat \ {0} :
         a = Abs(src1) /\ b = Abs(src2) /\ m = Mod /\ a < m
  BY InitTypes, DivisionFacts
<1>2. Pow2[i] = m /\ quotient = 0 /\ remainder = 0
  BY <1>1 DEF Init, Mod
<1>3. a \div m = 0 /\ 0 \div m = 0 /\ 0 % m = 0 /\ 0 * b = 0
  BY <1>1
<1>4. 0 < b /\ 2 * 0 < m /\ 0 + 0 = 0
  BY <1>1
<1> QED
  BY <1>1, <1>2, <1>3, <1>4, Zenon DEF DivisionInvariant

LEMMA Initially == Init => IInv
<1> SUFFICES ASSUME Init PROVE IInv
  OBVIOUS
<1>1. ResultRight
  BY DEF Init, ResultRight
<1> QED
  BY <1>1, InitTypes, InitDivision, InitMultiply DEF IInv

(* A step that leaves the operands and the result alone leaves it right.      *)
LEMMA ResultKept ==
    ASSUME ResultRight, UNCHANGED <<func, src1, src2, result>>
    PROVE  ResultRight'
<1>1. UNCHANGED <<func, src1, src2, result>>
  OBVIOUS
<1>2. UNCHANGED <<Bits, Mod, Expected>>
  BY SameOperands
<1> QED
  BY <1>1, <1>2, Zenon DEF ResultRight

(* And one that leaves the loops alone leaves their invariants alone.         *)
LEMMA LoopsKept ==
    ASSUME Types, DivisionInvariant, MultiplySide,
           UNCHANGED <<func, src1, src2, i, product, multiplicand, multiplier,
                       quotient, remainder>>
    PROVE  Types' /\ DivisionInvariant' /\ MultiplySide'
<1>1. UNCHANGED <<func, src1, src2, i, product, multiplicand, multiplier,
                  quotient, remainder>>
  OBVIOUS
<1>2. UNCHANGED <<Bits, Mod, Low(src1), Low(src2), Abs(src1), Abs(src2)>>
  BY SameOperands
<1>3. Types'
  BY <1>1, <1>2 DEF Types
<1>4. DivisionInvariant'
  BY <1>1, <1>2, Zenon DEF DivisionInvariant
<1>5. MultiplySide'
  BY <1>1, <1>2, Zenon DEF MultiplySide
<1> QED
  BY <1>3, <1>4, <1>5

(* What a finished operation returns.                                         *)
LEMMA ValueRight ==
    ASSUME Types, DivisionInvariant, MultiplySide,
           i = 0 \/ (func \in Divisions /\ Low(src2) = 0)
    PROVE  Value = Expected /\ Value \in 0 .. Mod - 1
<1>1. func \in Products \/ func \in Divisions
  BY DEF Types, Functions
<1>2. func \in Products => func \notin Divisions
  BY DEF Products, Divisions, Quotients
<1> QED
  BY <1>1, <1>2, ProductRight, DivisionByZero, DivisionRight

LEMMA Inductive == IInv /\ [Next]_vars => IInv'
<1> SUFFICES ASSUME IInv, [Next]_vars PROVE IInv'
  OBVIOUS
<1>1. Types /\ DivisionInvariant /\ MultiplySide /\ ResultRight
  BY DEF IInv
<1>2. CASE Multiply
  <2>1. Types' /\ MultiplySide'
    BY <1>1, <1>2, MultiplyKeeps
  <2>2. func \in Products /\ UNCHANGED <<func, src1, src2, result>>
    BY <1>2 DEF Multiply, inputs
  <2>3. DivisionInvariant'
    BY <2>2 DEF DivisionInvariant, Products, Divisions, Quotients
  <2> QED
    BY <1>1, <2>1, <2>2, <2>3, ResultKept DEF IInv
<1>3. CASE Divide
  <2>1. Types' /\ DivisionInvariant'
    BY <1>1, <1>3, DivideKeeps
  <2>2. func \in Divisions /\ UNCHANGED <<func, src1, src2, result>>
    BY <1>3 DEF Divide, inputs
  <2>3. MultiplySide'
    BY <2>2 DEF MultiplySide, Products, Divisions, Quotients
  <2> QED
    BY <1>1, <2>1, <2>2, <2>3, ResultKept DEF IInv
<1>4. CASE Return
  <2>1. /\ UNCHANGED <<func, src1, src2, i, product, multiplicand, multiplier,
                       quotient, remainder>>
        /\ i = 0 \/ (func \in Divisions /\ Low(src2) = 0)
    BY <1>4 DEF Return, inputs
  <2>2. Value = Expected /\ Value \in 0 .. Mod - 1
    BY <1>1, <2>1, ValueRight
  <2>3. ResultRight'
    BY <1>1, <1>4, <2>2, ReturnRight
  <2>4. Types' /\ DivisionInvariant' /\ MultiplySide'
    BY <1>1, <2>1, LoopsKept
  <2> QED
    BY <2>3, <2>4 DEF IInv
<1>5. CASE UNCHANGED vars
  <2>1. UNCHANGED <<func, src1, src2, i, product, multiplicand, multiplier,
                    quotient, remainder, result>>
    BY <1>5 DEF vars, inputs
  <2> QED
    BY <1>1, <2>1, LoopsKept, ResultKept DEF IInv
<1> QED
  BY <1>2, <1>3, <1>4, <1>5 DEF Next

(* The loop invariant of the divider, for words of every width: the shifted   *)
(* remainder never loses a bit, although the divisor may use the whole word.  *)
THEOREM Divides == Spec => []DivisionInvariant
<1>1. IInv => DivisionInvariant
  BY DEF IInv
<1> QED
  BY <1>1, Initially, Inductive, PTL DEF Spec

(* The multiplier and the divider return what the M extension defines, for    *)
(* every width, operation and pair of operands.                               *)
THEOREM Returns == Spec => []ResultRight
<1>1. IInv => ResultRight
  BY DEF IInv
<1> QED
  BY <1>1, Initially, Inductive, PTL DEF Spec
=============================================================================
