-------------------------------- MODULE Alu ---------------------------------
(***************************************************************************)
(* The arithmetic the compiler emits for the accumulator and the flags of   *)
(* the 6502: addition and subtraction with carry, comparison, shifts and    *)
(* rotations, and the loads, counts and logic that come between them and    *)
(* must leave the carry alone.  The model is a program of any instructions. *)
(* Programs compute with numbers of several bytes by chaining the carry;    *)
(* the history variable chain follows one such number.                      *)
(***************************************************************************)
EXTENDS Integers

CONSTANTS Half,      \* a byte is below 2 * Half: 128
          MaxDigits  \* bound on the bytes of a chained number

ASSUME AluAssumption == Half \in Nat \ {0} /\ MaxDigits \in Nat \ {0}

Modulus == 2 * Half
Byte    == 0 .. Modulus - 1

VARIABLES a,         \* rA
          carry,     \* rSCarry, 0 or 1
          zero, negative, overflow,
          chain      \* history: the number a chain of instructions computes

aluVars == <<a, carry, zero, negative, overflow, chain>>

(* left and right are the operands' bytes so far as numbers, result the     *)
(* bytes computed, weight what the next byte counts.                        *)
Chain(op, left, right, result, weight, digits) ==
    [op |-> op, left |-> left, right |-> right, result |-> result,
     weight |-> weight, digits |-> digits]

NoChain == Chain("none", 0, 0, 0, 1, 0)

AluInit ==
    /\ a \in Byte /\ carry = 0
    /\ zero = FALSE /\ negative = FALSE /\ overflow = FALSE
    /\ chain = NoChain

-----------------------------------------------------------------------------
(* Wrong variants, for mutation testing. *)
CarryAdditionOfTwo(x, y, c) == IF x + y >= 2 * Half THEN 1 ELSE 0

OverflowSubtractionAsAddition(x, y, c) ==
    LET r == (x - y + c - 1) % (2 * Half) IN
    (x >= Half) = (y >= Half) /\ (x >= Half) # (r >= Half)

WrapPastEnd(n) ==
    IF n < 0 THEN n + Modulus ELSE IF n > Modulus THEN n - Modulus ELSE n

-----------------------------------------------------------------------------
(* i8 additions and subtractions; n is the sum or difference of two bytes.  *)
Wrap(n) ==
    IF n < 0 THEN n + Modulus ELSE IF n >= Modulus THEN n - Modulus ELSE n

Sign(n) == n >= Half

(* dynTestAndSetCarryAddition, in 32 bits. *)
CarryAddition(x, y, c) == IF x + y + c >= Modulus THEN 1 ELSE 0

(* dynTestAndSetCarrySubtraction3, in 32 bits. *)
CarrySubtraction3(x, y, c) == IF x - y + c - 1 >= 0 THEN 1 ELSE 0

(* dynTestAndSetOverflowAddition, dynTestAndSetOverflowSubtraction: the     *)
(* exclusive ors compare sign bits.                                         *)
OverflowAddition(x, y, r) == Sign(x) = Sign(y) /\ Sign(x) # Sign(r)

OverflowSubtraction(x, y, c) ==
    LET r == Wrap(Wrap(x - y) - (1 - c)) IN
    Sign(x) # Sign(r) /\ Sign(x) # Sign(y)

SetZeroNegative(r) == zero' = (r = 0) /\ negative' = Sign(r)

(* What the next instruction of a chain adds to it. *)
Extended(op, y, r) ==
    IF chain.op = op /\ chain.digits < MaxDigits
    THEN Chain(op, chain.left + a * chain.weight, chain.right + y * chain.weight,
               chain.result + r * chain.weight, chain.weight * Modulus,
               chain.digits + 1)
    ELSE NoChain

(* The same for a chain that starts with the highest byte. *)
ExtendedDown(r) ==
    IF chain.op = "shr" /\ chain.digits < MaxDigits
    THEN Chain("shr", chain.left * Modulus + a, 0, chain.result * Modulus + r, 1,
               chain.digits + 1)
    ELSE NoChain

-----------------------------------------------------------------------------
Clc ==
    /\ carry' = 0
    /\ chain' = Chain("add", 0, 0, 0, 1, 0)
    /\ UNCHANGED <<a, zero, negative, overflow>>

Sec ==
    /\ carry' = 1
    /\ chain' = Chain("sub", 0, 0, 0, 1, 0)
    /\ UNCHANGED <<a, zero, negative, overflow>>

Clv ==
    /\ overflow' = FALSE
    /\ UNCHANGED <<a, carry, zero, negative, chain>>

(* lda, pla, txa, tya; and, ora, eor: some byte goes to the accumulator. *)
LoadA(r) ==
    /\ a' = r
    /\ SetZeroNegative(r)
    /\ UNCHANGED <<carry, overflow, chain>>

(* ldx, ldy, tax, tay, tsx, inx, iny, dex, dey, inc, dec: some byte goes     *)
(* elsewhere.                                                               *)
LoadOther(r) ==
    /\ SetZeroNegative(r)
    /\ UNCHANGED <<a, carry, overflow, chain>>

(* bit: bits 7 and 6 of the operand, and whether it shares one with a. *)
Bit(n, v, z) ==
    /\ negative' = n /\ overflow' = v /\ zero' = z
    /\ UNCHANGED <<a, carry, chain>>

Adc(v) ==
    LET newA == Wrap(Wrap(a + v) + carry) IN
    /\ a' = newA
    /\ SetZeroNegative(newA)
    /\ overflow' = OverflowAddition(a, v, newA)
    /\ carry' = CarryAddition(a, v, carry)
    /\ chain' = Extended("add", v, newA)

Sbc(v) ==
    LET newA == Wrap(Wrap(Wrap(a - v) + carry) - 1) IN
    /\ a' = newA
    /\ SetZeroNegative(newA)
    /\ overflow' = OverflowSubtraction(a, v, carry)
    /\ carry' = CarrySubtraction3(a, v, carry)
    /\ chain' = Extended("sub", v, newA)

(* cmp; cpx and cpy compare other bytes. *)
Compare(x, v) ==
    /\ SetZeroNegative(Wrap(x - v))
    /\ carry' = IF x >= v THEN 1 ELSE 0
    /\ chain' = NoChain
    /\ UNCHANGED <<a, overflow>>

Cmp(v) == Compare(a, v)

(* asl starts a chain to the left, lsr one to the right. *)
Asl ==
    LET newA == Wrap(a + a) IN
    /\ a' = newA
    /\ SetZeroNegative(newA)
    /\ carry' = IF Sign(a) THEN 1 ELSE 0
    /\ chain' = Chain("shl", a, 0, newA, Modulus, 1)
    /\ UNCHANGED overflow

Rol ==
    LET newA == Wrap(a + a) + carry IN
    /\ a' = newA
    /\ SetZeroNegative(newA)
    /\ carry' = IF Sign(a) THEN 1 ELSE 0
    /\ chain' = Extended("shl", 0, newA)
    /\ UNCHANGED overflow

Lsr ==
    LET newA == a \div 2 IN
    /\ a' = newA
    /\ SetZeroNegative(newA)
    /\ carry' = a % 2
    /\ chain' = Chain("shr", a, 0, newA, 1, 1)
    /\ UNCHANGED overflow

Ror ==
    LET newA == (a \div 2) + carry * Half IN
    /\ a' = newA
    /\ SetZeroNegative(newA)
    /\ carry' = a % 2
    /\ chain' = ExtendedDown(newA)
    /\ UNCHANGED overflow

AluNext ==
    \/ Clc \/ Sec \/ Clv \/ Asl \/ Rol \/ Lsr \/ Ror
    \/ \E v \in Byte : LoadA(v) \/ LoadOther(v) \/ Adc(v) \/ Sbc(v) \/ Cmp(v)
    \/ \E x, v \in Byte : Compare(x, v)
    \/ \E n, v, z \in BOOLEAN : Bit(n, v, z)

AluSpec == AluInit /\ [][AluNext]_aluVars

-----------------------------------------------------------------------------
(* The type invariant. *)
AluTypeOK ==
    /\ a \in Byte /\ carry \in {0, 1}
    /\ zero \in BOOLEAN /\ negative \in BOOLEAN /\ overflow \in BOOLEAN

(* Chained by the carry, the instructions compute numbers of any length:    *)
(* clc and adc add, sec and sbc subtract, asl and rol double, lsr and ror   *)
(* halve, whatever loads, counts and logic come between.                    *)
WideArithmetic ==
    /\ chain.op = "add" => chain.left + chain.right = chain.result + carry * chain.weight
    /\ chain.op = "sub" => chain.left - chain.right = chain.result - (1 - carry) * chain.weight
    /\ chain.op = "shl" => 2 * chain.left = chain.result + carry * chain.weight
    /\ chain.op = "shr" => chain.left = 2 * chain.result + carry

Signed(n) == IF Sign(n) THEN n - Modulus ELSE n

(* The flags order numbers: unsigned by the carry and zero after cmp,       *)
(* signed by negative and overflow after sbc, and after adc overflow says   *)
(* that the signed sum does not fit.                                        *)
FlagsOrder ==
    [][\A v \in Byte :
          /\ Cmp(v) => (carry' = 1 <=> a >= v) /\ (zero' <=> a = v)
          /\ Sbc(v) => (negative' # overflow' <=> Signed(a) - Signed(v) + carry - 1 < 0)
          /\ Adc(v) => (overflow' <=> Signed(a) + Signed(v) + carry \notin -Half .. Half - 1)
      ]_aluVars
=============================================================================
