------------------------------ MODULE BaseUint ------------------------------
(***************************************************************************)
(* The limb arithmetic of base_uint_<BITS> in                             *)
(* deps/CoinCore/src/arith_uint256.h: WIDTH little-endian limbs of        *)
(* LIMB_BITS bits (8 limbs of 32 bits for arith_uint256).  The variable   *)
(* pn is one object; every action applies one of the header's operators   *)
(* to it with an operand drawn from Operands, and alongside computes the  *)
(* reference result in plain modular arithmetic, so that the invariant    *)
(* compares each limb-by-limb algorithm with the number it stands for.    *)
(***************************************************************************)
EXTENDS Integers, Bitwise

CONSTANTS
    WIDTH,      \* BITS / 32
    LIMB_BITS,  \* 32: pn[] holds uint32_t
    Operands    \* values of the right-hand operands tried

ASSUME WIDTH >= 2 /\ LIMB_BITS >= 1

LIMB_MOD == 2 ^ LIMB_BITS
MOD      == LIMB_MOD ^ WIDTH          \* 2^BITS
U64_MOD  == LIMB_MOD ^ 2              \* uint64_t spans two limbs
Limb     == 0..(LIMB_MOD - 1)
Idx      == 0..(WIDTH - 1)

ASSUME Operands \subseteq 0..(MOD - 1)

VARIABLES
    pn,      \* the limbs of the object
    ref,     \* the number the object should hold
    ret,     \* what the last operator returned, as a number
    refRet   \* what it should have returned

vars == <<pn, ref, ret, refRet>>

\* The number a limb array stands for.
RECURSIVE ValueFrom(_, _)
ValueFrom(a, i) == IF i = WIDTH THEN 0 ELSE a[i] + LIMB_MOD * ValueFrom(a, i + 1)
Value(a) == ValueFrom(a, 0)

\* The operand object holding number v (the right-hand side of b).
LimbsOf(v) == [i \in Idx |-> (v \div (LIMB_MOD ^ i)) % LIMB_MOD]

Zero == [i \in Idx |-> 0]

\* base_uint_(uint64_t b) and operator=(uint64_t b): the low two limbs from
\* b, truncated to unsigned int, the others cleared.
FromU64(b) == [i \in Idx |-> CASE i = 0 -> b % LIMB_MOD
                              [] i = 1 -> (b \div LIMB_MOD) % LIMB_MOD
                              [] OTHER -> 0]

\* operator~
Complement(a) == [i \in Idx |-> LIMB_MOD - 1 - a[i]]

\* Mutant: the carry is computed into a 32-bit variable and so always lost.
RECURSIVE AddFromNoCarry(_, _, _, _)
AddFromNoCarry(a, b, i, carry) ==
    IF i = WIDTH THEN a
    ELSE LET n == carry + a[i] + b[i]
         IN AddFromNoCarry([a EXCEPT ![i] = n % LIMB_MOD], b, i + 1, 0)

\* operator+=(const base_uint_&): limb-wise with a 64-bit carry.
RECURSIVE AddFrom(_, _, _, _)
AddFrom(a, b, i, carry) ==
    IF i = WIDTH THEN a
    ELSE LET n == carry + a[i] + b[i]
         IN AddFrom([a EXCEPT ![i] = n % LIMB_MOD], b, i + 1, n \div LIMB_MOD)
Add(a, b) == AddFrom(a, b, 0, 0)

\* Prefix operator++: while (i < WIDTH && ++pn[i] == 0) i++;
RECURSIVE IncrementFrom(_, _)
IncrementFrom(a, i) ==
    IF i = WIDTH THEN a
    ELSE LET v == (a[i] + 1) % LIMB_MOD
         IN IF v = 0 THEN IncrementFrom([a EXCEPT ![i] = 0], i + 1)
            ELSE [a EXCEPT ![i] = v]
Increment(a) == IncrementFrom(a, 0)

\* Prefix operator--: while (i < WIDTH && --pn[i] == (uint32_t)-1) i++;
RECURSIVE DecrementFrom(_, _)
DecrementFrom(a, i) ==
    IF i = WIDTH THEN a
    ELSE LET v == (a[i] - 1) % LIMB_MOD
         IN IF v = LIMB_MOD - 1 THEN DecrementFrom([a EXCEPT ![i] = v], i + 1)
            ELSE [a EXCEPT ![i] = v]
Decrement(a) == DecrementFrom(a, 0)

\* Unary operator-: complement, then increment.
Negate(a) == Increment(Complement(a))

\* operator-=(const base_uint_& b): *this += -b.
Subtract(a, b) == Add(a, Negate(b))

\* operator!: every limb zero.
IsZero(a) == \A i \in Idx : a[i] = 0

\* GetLow64: pn[0] | (uint64_t)pn[1] << 32.
GetLow64(a) == a[0] + LIMB_MOD * a[1]

\* operator^=, &=, |= (const base_uint_&): limb by limb.
XorLimbs(a, b) == [i \in Idx |-> a[i] ^^ b[i]]
AndLimbs(a, b) == [i \in Idx |-> a[i] & b[i]]
OrLimbs(a, b)  == [i \in Idx |-> a[i] | b[i]]

\* operator^=, |= (uint64_t): only the low two limbs.
XorU64(a, b) == XorLimbs(a, FromU64(b))
OrU64(a, b)  == OrLimbs(a, FromU64(b))

Init ==
    /\ pn = Zero
    /\ ref = 0
    /\ ret = 0
    /\ refRet = 0

\* An operator that replaces the object and returns *this.
Update(new, expected) ==
    /\ pn' = new
    /\ ref' = expected
    /\ ret' = Value(new)
    /\ refRet' = expected

AssignU64(b)   == Update(FromU64(b), b % U64_MOD)
AddAssign(b)   == Update(Add(pn, LimbsOf(b)), (ref + b) % MOD)
SubAssign(b)   == Update(Subtract(pn, LimbsOf(b)), (ref - b) % MOD)
AddAssignU64(b) == Update(Add(pn, FromU64(b)), (ref + (b % U64_MOD)) % MOD)
SubAssignU64(b) == Update(Add(pn, Negate(FromU64(b))), (ref - (b % U64_MOD)) % MOD)
XorAssign(b)   == Update(XorLimbs(pn, LimbsOf(b)), ref ^^ b)
AndAssign(b)   == Update(AndLimbs(pn, LimbsOf(b)), ref & b)
OrAssign(b)    == Update(OrLimbs(pn, LimbsOf(b)), ref | b)
XorAssignU64(b) == Update(XorU64(pn, b), ref ^^ (b % U64_MOD))
OrAssignU64(b)  == Update(OrU64(pn, b), ref | (b % U64_MOD))
PreIncrement   == Update(Increment(pn), (ref + 1) % MOD)
PreDecrement   == Update(Decrement(pn), (ref - 1) % MOD)

\* x = -x and x = ~x, through the value-returning operators.
AssignNegation   == Update(Negate(pn), (MOD - ref) % MOD)
AssignComplement == Update(Complement(pn), MOD - 1 - ref)

\* Postfix operators return the value before the step.
PostIncrement ==
    /\ pn' = Increment(pn) /\ ref' = (ref + 1) % MOD
    /\ ret' = Value(pn) /\ refRet' = ref
PostDecrement ==
    /\ pn' = Decrement(pn) /\ ref' = (ref - 1) % MOD
    /\ ret' = Value(pn) /\ refRet' = ref

\* Queries leave the object alone.
Query(r, expected) == /\ UNCHANGED <<pn, ref>> /\ ret' = r /\ refRet' = expected
Low64      == Query(GetLow64(pn), ref % U64_MOD)
LogicalNot == Query(IF IsZero(pn) THEN 1 ELSE 0, IF ref = 0 THEN 1 ELSE 0)
Equals(b)  == Query(IF pn = LimbsOf(b) THEN 1 ELSE 0, IF ref = b THEN 1 ELSE 0)

Next ==
    \/ \E b \in Operands :
         \/ AssignU64(b % U64_MOD) \/ AddAssign(b) \/ SubAssign(b)
         \/ AddAssignU64(b % U64_MOD) \/ SubAssignU64(b % U64_MOD)
         \/ XorAssign(b) \/ AndAssign(b) \/ OrAssign(b)
         \/ XorAssignU64(b % U64_MOD) \/ OrAssignU64(b % U64_MOD)
         \/ Equals(b)
    \/ PreIncrement \/ PreDecrement \/ PostIncrement \/ PostDecrement
    \/ AssignNegation \/ AssignComplement
    \/ Low64 \/ LogicalNot

Spec == Init /\ [][Next]_vars

-----------------------------------------------------------------------------
(* Properties *)

\* Type: every limb is a uint32_t (here a LIMB_BITS-bit) value.
TypeOK ==
    /\ pn \in [Idx -> Limb]
    /\ ref \in 0..(MOD - 1)

\* Every operator of the header computes, limb by limb with its carries and
\* borrows propagated across limb boundaries, exactly the number that
\* arithmetic modulo 2^BITS gives, and returns the value the reference
\* returns: carries out of the top limb are dropped, never kept.
MatchesReference == Value(pn) = ref /\ ret = refRet

=============================================================================
