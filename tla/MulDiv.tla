------------------------------- MODULE MulDiv -------------------------------
(* The multiplier and divider, vsrc/pipeline/execute/mul_div_unit.sv, with    *)
(* the operand widths and the extension of the result that execute.sv adds.   *)
(* The hardware unrolls the loops into one cycle; here a step is one pass of  *)
(* the shift-and-add or shift-and-subtract loop, so that the loops have       *)
(* invariants.  Words have Width bits (64 in the code) and the W forms work   *)
(* on the low Half bits (32).                                                *)
EXTENDS Integers

CONSTANTS Width, Half

ASSUME WidthAssumption == Width \in Nat /\ Half \in Nat /\ Half > 0 /\ Width = 2 * Half

VARIABLES func,            \* the operation
          src1, src2,      \* its operands
          i,               \* passes left
          product, multiplicand, multiplier,    \* the multiplication
          quotient, remainder,                  \* the division
          result           \* aluoute, once done
inputs == <<func, src1, src2>>
vars == <<inputs, i, product, multiplicand, multiplier, quotient, remainder, result>>

Products  == {"MUL", "MULW"}
Quotients == {"DIV", "DIVU", "DIVW", "DIVUW"}
Divisions == Quotients \cup {"REM", "REMU", "REMW", "REMUW"}
Functions == Products \cup Divisions
Narrow    == {"MULW", "DIVW", "DIVUW", "REMW", "REMUW"}
Signed    == {"DIV", "REM", "DIVW", "REMW"}
None      == -1

(* 1 << n, without a width.  A recursive function rather than 2 ^ n, so that    *)
(* proofs can unfold it.                                                      *)
Pow2[n \in Nat] == IF n = 0 THEN 1 ELSE 2 * Pow2[n - 1]

Word == 0 .. Pow2[Width] - 1
Bits == IF func \in Narrow THEN Half ELSE Width
Mod  == Pow2[Bits]

(* The operands the loops get: src[31:0] for the W forms, absolute values     *)
(* for the signed divisions.                                                 *)
Low(x) == x % Mod
Negative(x) == func \in Signed /\ Low(x) >= Pow2[Bits - 1]
Complement(x) == (Mod - x) % Mod
Abs(x) == IF Negative(x) THEN Complement(Low(x)) ELSE Low(x)
SignExtend(x) == IF x >= Pow2[Bits - 1] THEN x + Pow2[Width] - Mod ELSE x

Init == /\ func \in Functions
        /\ src1 \in Word /\ src2 \in Word
        /\ i = Bits
        /\ product = 0
        /\ multiplicand = Low(src1) /\ multiplier = Low(src2)
        /\ quotient = 0 /\ remainder = 0
        /\ result = None

(* One pass of the multiplication.  The W form adds in double width and       *)
(* keeps the low half.                                                       *)
Sum == IF multiplier % 2 = 1 THEN (product + multiplicand) % Pow2[Width] ELSE product
Multiply ==
    /\ func \in Products /\ i > 0
    /\ product' = Sum
    /\ multiplicand' = (2 * multiplicand) % Pow2[Width]
    /\ multiplier' = multiplier \div 2
    /\ i' = i - 1
    /\ UNCHANGED <<inputs, quotient, remainder, result>>

(* One pass of the division: the next bit of the dividend is shifted in, in   *)
(* Bits bits.  Variant for the mutation runs: an equal remainder is kept.     *)
Shifted == ((2 * remainder) % Mod) + ((Abs(src1) \div Pow2[i - 1]) % 2)
StrictFits(r) == r > Abs(src2)
Fits(r) == r >= Abs(src2)
Divide ==
    /\ func \in Divisions /\ i > 0 /\ Low(src2) # 0
    /\ remainder' = IF Fits(Shifted) THEN Shifted - Abs(src2) ELSE Shifted
    /\ quotient' = IF Fits(Shifted) THEN quotient + Pow2[i - 1] ELSE quotient
    /\ i' = i - 1
    /\ UNCHANGED <<inputs, product, multiplicand, multiplier, result>>

(* The results of the functions, with the signs put back, and extended to     *)
(* the width of a word (aluext).  Variant for the mutation runs: the         *)
(* remainder gets the sign of the quotient.                                  *)
Quotient  == IF Negative(src1) # Negative(src2) THEN Complement(quotient) ELSE quotient
SignOfQuotient == IF Negative(src1) # Negative(src2) THEN Complement(remainder)
                  ELSE remainder
Remainder == IF Negative(src1) THEN Complement(remainder) ELSE remainder
ByZero == IF func \in Quotients THEN Mod - 1 ELSE Low(src1)
Value == IF func \in Products THEN product % Mod
         ELSE IF Low(src2) = 0 THEN ByZero
         ELSE IF func \in Quotients THEN Quotient ELSE Remainder
Return == /\ result = None
          /\ i = 0 \/ (func \in Divisions /\ Low(src2) = 0)
          /\ result' = IF func \in Narrow THEN SignExtend(Value) ELSE Value
          /\ UNCHANGED <<inputs, i, product, multiplicand, multiplier, quotient, remainder>>

Next == Multiply \/ Divide \/ Return
Spec == Init /\ [][Next]_vars

----------------------------------------------------------------------------
(* The quotient so far divides the part of the dividend shifted in so far,    *)
(* and the shift never loses the remainder's top bit, although the divisor    *)
(* may use every bit of the word.                                            *)
DivisionInvariant ==
    func \in Divisions /\ Low(src2) # 0 =>
        /\ Abs(src1) \div Pow2[i] = (quotient \div Pow2[i]) * Abs(src2) + remainder
        /\ quotient % Pow2[i] = 0
        /\ remainder < Abs(src2)
        /\ i > 0 => 2 * remainder < Mod

(* The unsigned and signed values of a word of the operation.                *)
Meaning(x) == IF func \in Signed /\ x >= Pow2[Bits - 1] THEN x - Mod ELSE x
Magnitude(x) == IF x < 0 THEN -x ELSE x
(* What the M extension says the low bits of the result are: rounding towards *)
(* zero, the remainder with the sign of the dividend, all ones and the        *)
(* dividend when dividing by zero, and the dividend and zero when the         *)
(* quotient of the most negative number by -1 does not fit.                  *)
Truncated(x, y) == LET q == Magnitude(x) \div Magnitude(y)
                   IN  IF (x < 0) # (y < 0) THEN -q ELSE q
Expected ==
    LET x == Meaning(Low(src1))
        y == Meaning(Low(src2))
    IN  CASE func \in Products -> (x * y) % Mod
          [] func \in Quotients -> IF y = 0 THEN Mod - 1 ELSE Truncated(x, y) % Mod
          [] OTHER -> IF y = 0 THEN x % Mod ELSE (x - y * Truncated(x, y)) % Mod

(* The result is the one the M extension defines, for every operand: the      *)
(* signs, the division by zero, the overflow of the most negative number and  *)
(* the sign extension of every W form.                                       *)
ResultRight ==
    result # None =>
        /\ result % Mod = Expected
        /\ func \in Narrow => result \div Mod =
               IF Expected >= Pow2[Bits - 1] THEN (Pow2[Width] \div Mod) - 1 ELSE 0
=============================================================================
