------------------------------ MODULE WideInts ------------------------------
(***************************************************************************)
(* Unsigned and signed integers of two words (jr_ulong.c, jr_long.c, and   *)
(* the macros of long.h, for compilers without a type for them), and bit   *)
(* fields (net_type.c). A word has WIWord bits, 32 in the program; every   *)
(* operation on unsigned words wraps around. Bit operations are written as *)
(* quotients and remainders by powers of two, or on sets of bits.          *)
(***************************************************************************)
EXTENDS Integers, Sequences, FiniteSetsExt

CONSTANTS
  WIWord,       \* bits of a word, an even number
  WIDigit,      \* bits of a digit, 5 in the program
  WIMaxHigh,    \* bound of the high word of a signed long
  WIFields      \* fields of bits: where they begin, and their length

ASSUME WideIntsAssumption ==
  WIWord \in {2 * n : n \in 1 .. 16} /\ WIDigit \in 1 .. WIWord

Base == 2 ^ WIWord
MaxWord == Base - 1
Words == 0 .. MaxWord
Word(n) == n % Base
Long(msw, lsw) == [msw |-> msw, lsw |-> lsw]
OfUInt(u) == Long(0, u)
Number(long) == long.msw * Base + long.lsw
IsUInt(long) == long.msw = 0

(* Subtraction of words, which wraps below zero.                           *)
Less(a, b) == Word(a + Base - b)

ULongAddUInt(long, u) ==
  IF u > MaxWord - long.lsw
  THEN Long(Word(long.msw + 1), Less(Less(u, Less(MaxWord, long.lsw)), 1))
  ELSE Long(long.msw, Word(long.lsw + u))

ULongSubtractUInt(long, u) ==
  IF u > long.lsw
  THEN Long(Less(long.msw, 1), Word(Word(Less(MaxWord, u) + 1) + long.lsw))
  ELSE Long(long.msw, Less(long.lsw, u))

(* jr_ULongAdd, jr_ULongSubtract: with or without the carry of the low     *)
(* words.                                                                  *)
ULongAdd(long1, long2) ==
  LET sum == ULongAddUInt(long1, long2.lsw) IN
  [sum EXCEPT !.msw = Word(@ + long2.msw)]
ULongSubtract(long1, long2) ==
  LET rest == ULongSubtractUInt(long1, long2.lsw) IN
  [rest EXCEPT !.msw = Less(@, long2.msw)]

(* jr_ULongShiftInt to the right and to the left, by at least 1. The bits  *)
(* that cross from a word to the other are masked out and shifted apart.   *)
ShiftRight(long, s) ==
  IF s >= 2 * WIWord THEN OfUInt(0)
  ELSE IF s >= WIWord THEN OfUInt(long.msw \div 2 ^ (s - WIWord))
  ELSE LET crossing == long.msw % 2 ^ s IN
       Long(long.msw \div 2 ^ s, long.lsw \div 2 ^ s + Word(crossing * 2 ^ (WIWord - s)))

ShiftLeft(long, s) ==
  IF s >= 2 * WIWord THEN OfUInt(0)
  ELSE IF s >= WIWord THEN Long(Word(long.lsw * 2 ^ (s - WIWord)), 0)
  ELSE LET crossing == long.lsw \div 2 ^ (WIWord - s) IN
       Long(Word(long.msw * 2 ^ s) + crossing, Word(long.lsw * 2 ^ s))

(* Products by halves of words. Mutant: the middle products are added      *)
(* before they are widened.                                                *)
Half == 2 ^ (WIWord \div 2)
AsgnUIntMultNarrow(u, v) ==
  LET q1 == u \div Half  r1 == u % Half
      q2 == v \div Half  r2 == v % Half IN
  ULongAddUInt(ULongAdd(Long(q1 * q2, 0),
    ShiftLeft(OfUInt(Word(q1 * r2 + r1 * q2)), WIWord \div 2)), r2 * r1)
AsgnUIntMult(u, v) ==
  LET q1 == u \div Half  r1 == u % Half
      q2 == v \div Half  r2 == v % Half
      Widened(n) == ShiftLeft(OfUInt(n), WIWord \div 2)
  IN ULongAddUInt(
       ULongAdd(ULongAdd(Long(q1 * q2, 0), Widened(q1 * r2)), Widened(r1 * q2)),
       r2 * r1)

ULongMultUInt(long, u) ==
  ULongAdd(ShiftLeft(AsgnUIntMult(long.msw, u), WIWord), AsgnUIntMult(long.lsw, u))

(* jr_ULongModUInt: the product of two remainders is kept in a word. The   *)
(* assertion after it fails when the sum does not fit either.              *)
ModTerms(long, d) ==
  ULongAddUInt(ULongAddUInt(OfUInt(Word((MaxWord % d) * (long.msw % d))),
    long.msw % d), long.lsw % d)
ULongModUInt(long, d) == ModTerms(long, d).lsw % d
ModWraps(long, d) ==
  (MaxWord % d) * (long.msw % d) > MaxWord \/ ~IsUInt(ModTerms(long, d))

(* jr_ULongDivideUInt: the quotients of the words, and the quotient of the *)
(* rest, which is divided in the same way when it does not fit in a word.  *)
RECURSIVE ULongDivideUInt(_, _)
ULongDivideUInt(long, d) ==
  LET q1 == long.msw \div d  r1 == long.msw % d
      q2 == long.lsw \div d  r2 == long.lsw % d
      q3 == MaxWord \div d   r3 == MaxWord % d
      quotient == ULongAddUInt(Long(q1, q2), Word(q3 * r1))
  IN IF r1 # 0 /\ r3 # 0 /\ r3 + 1 > (MaxWord - r2) \div r1
     THEN ULongAdd(quotient,
            ULongDivideUInt(ULongAddUInt(AsgnUIntMult(r1, r3 + 1), r2), d))
     ELSE ULongAddUInt(quotient, Word(r1 * (r3 + 1) + r2) \div d)

(* A divisor that divides the greatest word escapes the test: the rest may *)
(* wrap around when the divisor is that word itself.                       *)
DivideWraps(long, d) ==
  MaxWord % d = 0 /\ (long.msw % d) + (long.lsw % d) > MaxWord

(* jr_ULongToBase32String: digits from the low end until nothing is left.  *)
RECURSIVE ToBase32(_)
ToBase32(long) ==
  LET rest == ShiftRight(long, WIDigit)  digit == long.lsw % 2 ^ WIDigit IN
  IF Number(rest) = 0 THEN <<digit>> ELSE Append(ToBase32(rest), digit)

(* jr_ULongInitFromBase32String: any letter is a digit, those behind the   *)
(* base too. Two tests refuse what does not fit, before the shift and      *)
(* before the addition.                                                    *)
BadString == [msw |-> Base, lsw |-> 0]
MaxLong == Long(MaxWord, MaxWord)

DigitTaken(long, n) ==
  LET shifted == ShiftLeft(long, WIDigit) IN
  IF \/ long = BadString
     \/ Number(long) > Number(ShiftRight(MaxLong, WIDigit))
     \/ Number(shifted) > Number(ULongSubtractUInt(MaxLong, n))
  THEN BadString
  ELSE ULongAddUInt(shifted, n)

VARIABLES
  wi_long,      \* an unsigned long
  wi_number     \* the number it should be (history)

long_vars == <<wi_long, wi_number>>

Gets(long, number) ==
  /\ wi_long' = long
  /\ wi_number' = number % (Base * Base)

WI_Add == \E u \in Words, long \in {OfUInt(1), Long(1, 1), MaxLong} :
  \/ Gets(ULongAddUInt(wi_long, u), wi_number + u)
  \/ Gets(ULongAdd(wi_long, long), wi_number + Number(long))
WI_Subtract == \E u \in Words, long \in {OfUInt(1), Long(1, 1), MaxLong} :
  \/ Gets(ULongSubtractUInt(wi_long, u), wi_number + Base * Base - u)
  \/ Gets(ULongSubtract(wi_long, long), wi_number + Base * Base - Number(long))
WI_Shift == \E s \in 1 .. 2 * WIWord + 1 :
  \/ Gets(ShiftRight(wi_long, s), wi_number \div 2 ^ s)
  \/ Gets(ShiftLeft(wi_long, s), wi_number * 2 ^ s)
WI_Mult == \E u \in Words : Gets(ULongMultUInt(wi_long, u), wi_number * u)
WI_Divide == \E d \in Words \ {0} :
  Gets(ULongDivideUInt(wi_long, d),
       IF DivideWraps(wi_long, d) THEN Number(ULongDivideUInt(wi_long, d))
       ELSE wi_number \div d)
WI_Mod == \E d \in Words \ {0} :
  /\ ~ModWraps(wi_long, d)
  /\ Gets(OfUInt(ULongModUInt(wi_long, d)), wi_number % d)

(* One more digit of a string, when it is taken.                           *)
WI_ReadDigit == \E n \in 0 .. 2 ^ WIDigit :
  /\ DigitTaken(wi_long, n) # BadString
  /\ Gets(DigitTaken(wi_long, n), wi_number * 2 ^ WIDigit + n)
-----------------------------------------------------------------------------
(* Signed integers of two words (jr_long.c): a word has a sign, the low    *)
(* word only when the high word is 0, and otherwise it is the distance     *)
(* from the high word away from zero.                                      *)
SignBase == 2 ^ (WIWord - 1)
MaxInt == SignBase - 1
Signed(msw, lsw) == [msw |-> msw, lsw |-> lsw]
SignedOfInt(i) == Signed(0, i)
SignedIsInt(long) == long.msw = 0
IsNegative(long) == long.msw < 0 \/ long.lsw < 0
SignedNumber(long) ==
  long.msw * SignBase + IF long.msw < 0 THEN -long.lsw ELSE long.lsw
Canonical(long) ==
  IF SignedIsInt(long) THEN long.lsw \in -MaxInt .. MaxInt ELSE long.lsw \in 0 .. MaxInt

(* jr_LongAddInt with a number that is not negative, and with one that is. *)
LongIncrease(long, n) ==
  LET sum == long.lsw + n
      rest == SignBase - n + long.lsw IN
  CASE ~IsNegative(long) /\ sum > MaxInt -> Signed(long.msw + 1, sum - SignBase)
    [] ~IsNegative(long) /\ sum <= MaxInt -> Signed(long.msw, sum)
    [] long.lsw < 0 -> Signed(0, sum)
    [] long.msw < 0 /\ n <= long.lsw -> Signed(long.msw, long.lsw - n)
    [] OTHER -> Signed(long.msw + 1, IF long.msw = -1 THEN -rest ELSE rest)

LongDecrease(long, n) ==
  CASE long.lsw < 0 /\ n - long.lsw < MaxInt -> Signed(0, long.lsw - n)
    [] long.lsw < 0 /\ n - long.lsw >= MaxInt -> Signed(-1, n - long.lsw - SignBase)
    [] long.lsw >= 0 /\ long.msw < 0 /\ n + long.lsw < MaxInt -> Signed(long.msw, long.lsw + n)
    [] long.lsw >= 0 /\ long.msw < 0 /\ n + long.lsw >= MaxInt ->
         Signed(long.msw - 1, SignBase - n - long.lsw)
    [] long.lsw >= 0 /\ long.msw > 0 /\ n > long.lsw ->
         Signed(long.msw - 1, SignBase - n + long.lsw)
    [] OTHER -> Signed(long.msw, long.lsw - n)

LongAddInt(long, i) == IF i >= 0 THEN LongIncrease(long, i) ELSE LongDecrease(long, -i)

LongAdd(long1, long2) ==
  LET low == LongAddInt(long1, IF long2.msw < 0 THEN -long2.lsw ELSE long2.lsw)
      msw == low.msw + long2.msw
      upTo == SignBase + low.lsw IN
  IF ~IsNegative(long2)
  THEN IF low.lsw < 0 /\ long2.msw > 0 THEN Signed(long2.msw - 1, upTo)
       ELSE Signed(msw, IF IsNegative(low) /\ long2.msw > 0 /\ msw = 0 THEN -low.lsw ELSE low.lsw)
  ELSE IF SignedIsInt(long2) THEN low
  ELSE IF low.lsw < 0 THEN Signed(long2.msw - 1, upTo)
  ELSE IF low.msw >= 0 /\ msw < 0 /\ low.lsw > 0 THEN Signed(msw + 1, low.lsw - SignBase)
  ELSE Signed(msw, low.lsw)

Negated(long) ==
  IF SignedIsInt(long) THEN SignedOfInt(-long.lsw) ELSE Signed(-long.msw, long.lsw)
LongSubtract(long1, long2) == LongAdd(long1, Negated(long2))
AbsValue(long) == IF IsNegative(long) THEN Negated(long) ELSE long

(* jr_LongCmp: the words are compared one after the other.                 *)
LongCmp(long1, long2) ==
  CASE long1.msw < long2.msw -> -1
    [] long1.msw > long2.msw -> 1
    [] long1.msw = long2.msw /\ long1.lsw < long2.lsw -> -1
    [] long1.msw = long2.msw /\ long1.lsw > long2.lsw -> 1
    [] OTHER -> 0

(* jr_LongModInt passes the divisor on negated whatever its sign.          *)
LongModInt(long, i) ==
  ULongModUInt(Long(Word(AbsValue(long).msw + Base), Word(AbsValue(long).lsw + Base)), Word(Base - i))

VARIABLES
  wi_signed,    \* a signed long
  wi_sum        \* the number it should be (history)

signed_vars == <<wi_signed, wi_sum>>

(* Below zero, a step down that ends behind the last number of a word goes *)
(* wrong, unless it ends on the first of the next one.                     *)
StepsWrong(long, i) ==
  LET down == (IF long.lsw < 0 THEN -long.lsw ELSE long.lsw) - i IN
  /\ i < 0
  /\ \/ long.lsw < 0 /\ down = MaxInt
     \/ long.msw < 0 /\ down >= MaxInt /\ down # SignBase

WI_SignedAdd == \E i \in -MaxInt .. MaxInt :
  /\ ~StepsWrong(wi_signed, i)
  /\ wi_signed' = LongAddInt(wi_signed, i)
  /\ wi_signed'.msw \in -WIMaxHigh .. WIMaxHigh
  /\ wi_sum' = wi_sum + i
-----------------------------------------------------------------------------
(* Bit fields in an array of bytes (net_type.c), as the set of the bits    *)
(* that are 1. A field of 8 bits or more is in a word of 16 or 32 that     *)
(* begins at the byte its position is in, but is shifted by the position   *)
(* in such a word: the two agree just when that byte is the word's first.  *)
FieldWord(field) == IF field.bits >= 16 THEN 32 ELSE IF field.bits >= 8 THEN 16 ELSE 8
FirstBit(field) == 8 * (field.at \div 8)
ShiftAmount(field) == field.at % FieldWord(field)
InWord(field) == FirstBit(field) .. FirstBit(field) + FieldWord(field) - 1
FieldBit(field, i) == FirstBit(field) + ShiftAmount(field) + i
BitsOf(n, most) == {i \in 0 .. most - 1 : (n \div 2 ^ i) % 2 = 1}

(* The mask of jr_NetBitAsgn and of jr_NetBitToHost. Mutant: one bit of    *)
(* the old value stays.                                                    *)
MaskShort(field) == {FieldBit(field, i) : i \in 1 .. field.bits - 1} \cap InWord(field)
Mask(field) == {FieldBit(field, i) : i \in 0 .. field.bits - 1} \cap InWord(field)

NetBitAsgn(ones, value, field) ==
  (ones \ Mask(field)) \cup ({FieldBit(field, i) : i \in BitsOf(value, 16)} \cap InWord(field))
NetBitToHost(ones, field) ==
  LET set == {i \in 0 .. field.bits - 1 : FieldBit(field, i) \in ones \cap Mask(field)} IN
  FoldSet(LAMBDA i, sum : sum + 2 ^ i, 0, set)

VARIABLES
  wi_ones,      \* the bits of the array that are 1
  wi_fields     \* what was assigned to each field (history)

field_vars == <<wi_ones, wi_fields>>

WI_Assign == \E field \in WIFields, value \in {0, 1, 5} :
  /\ wi_ones' = NetBitAsgn(wi_ones, value, field)
  /\ wi_fields' = [wi_fields EXCEPT ![field] = value]

-----------------------------------------------------------------------------
wi_vars == <<long_vars, signed_vars, field_vars>>

WI_Init ==
  /\ wi_long = OfUInt(0) /\ wi_number = 0
  /\ wi_signed = SignedOfInt(0) /\ wi_sum = 0
  /\ wi_ones = {} /\ wi_fields = [field \in WIFields |-> 0]

WI_UnsignedStep ==
  /\ WI_Add \/ WI_Subtract \/ WI_Shift \/ WI_Mult \/ WI_Divide \/ WI_Mod \/ WI_ReadDigit
  /\ UNCHANGED <<signed_vars, field_vars>>
WI_SignedStep == WI_SignedAdd /\ UNCHANGED <<long_vars, field_vars>>
WI_FieldStep == WI_Assign /\ UNCHANGED <<long_vars, signed_vars>>

WI_Next == WI_UnsignedStep \/ WI_SignedStep \/ WI_FieldStep

WI_Spec == WI_Init /\ [][WI_Next]_wi_vars
-----------------------------------------------------------------------------
ReadBack(digits) ==
  LET read[i \in 0 .. Len(digits)] ==
        IF i = 0 THEN OfUInt(0) ELSE DigitTaken(read[i - 1], digits[i])
  IN read[Len(digits)]

(* After any calls the words are the number the calls have made of it,     *)
(* modulo the numbers that fit, carries and crossing bits included; the    *)
(* digits of a long read back are the same long; one more digit is refused *)
(* just when the number does not fit, and otherwise makes that number. (But*)
(* for a remainder whose product of remainders wraps, and the quotient by  *)
(* the greatest word.)                                                     *)
WI_Exact ==
  /\ Number(wi_long) = wi_number
  /\ ReadBack(ToBase32(wi_long)) = wi_long
  /\ \A n \in 0 .. 2 ^ WIDigit :
       (DigitTaken(wi_long, n) = BadString) <=>
         (wi_number * 2 ^ WIDigit + n >= Base * Base)

(* A signed long is the sum of what was added to it. Two that are not      *)
(* negative add up to their sum; a long is greater than another when its   *)
(* number is, unless they are negative and agree in the high word; the     *)
(* remainder by a negative number is that of the absolute value, for what  *)
(* fits in a word. (A step down over the end of a word below zero is left  *)
(* out, and sums with a negative long of two words.)                       *)
WI_SignedExact ==
  /\ Canonical(wi_signed) /\ SignedNumber(wi_signed) = wi_sum
  /\ SignedNumber(AbsValue(wi_signed)) = (IF wi_sum < 0 THEN -wi_sum ELSE wi_sum)
  /\ \A msw \in -2 .. 2, lsw \in -MaxInt .. MaxInt :
       LET other == Signed(msw, lsw) sum == LongAdd(wi_signed, other) IN
       Canonical(other) =>
         /\ ~IsNegative(wi_signed) /\ ~IsNegative(other) =>
              Canonical(sum) /\ SignedNumber(sum) = wi_sum + SignedNumber(other)
         /\ ~IsNegative(wi_signed) /\ SignedIsInt(other) =>
              SignedNumber(LongSubtract(wi_signed, other)) = wi_sum - SignedNumber(other)
         /\ (msw < 0 => wi_signed.msw # msw) =>
              (LongCmp(wi_signed, other) > 0 <=> wi_sum > SignedNumber(other))
  /\ SignedIsInt(wi_signed) =>
       \A i \in 1 .. MaxInt :
         ~ModWraps(AbsValue(wi_signed), i) =>
           LongModInt(wi_signed, -i) = SignedNumber(AbsValue(wi_signed)) % i

(* A field reads as what was last assigned to it, whatever the other       *)
(* fields were assigned. (The fields begin in the first byte of the word   *)
(* they are in; others share bits with the fields behind them.)            *)
WI_FieldsApart ==
  \A field \in WIFields : NetBitToHost(wi_ones, field) = wi_fields[field]
=============================================================================
