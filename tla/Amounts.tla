------------------------------ MODULE Amounts ------------------------------
(***************************************************************************)
(* amounts.py: FLOP amounts as decimal text, and as whole micro units.  A  *)
(* text the parser accepts is a whole number and a fraction of up to six   *)
(* digits, none where there is no point; any other text is refused.        *)
(***************************************************************************)
EXTENDS Integers, TLAPS

MICRO_PER_FLOP == 1000000

Digits == 0..9
Places == 1..6

\* DECIMAL_FLOP_RE, and INTEGER_RE where the fraction is empty.
Text == [whole : Nat, fraction : UNION {[1..n -> Digits] : n \in 0..6}]

\* frac.ljust(6, "0")
LJust(fraction) == [i \in Places |-> IF i \in DOMAIN fraction THEN fraction[i] ELSE 0]

\* int(), of six digits.
Value(a, b, c, d, e, f) == 100000 * a + 10000 * b + 1000 * c + 100 * d + 10 * e + f
IntOf(d) == Value(d[1], d[2], d[3], d[4], d[5], d[6])

ParseFlopToMicro(text) == text.whole * MICRO_PER_FLOP + IntOf(LJust(text.fraction))

\* f"{frac:06d}"
SixDigits(n) ==
  <<(n \div 100000) % 10, (n \div 10000) % 10, (n \div 1000) % 10,
    (n \div 100) % 10, (n \div 10) % 10, n % 10>>

\* rstrip("0"): a digit stays when it or one behind it is not zero.  Of six
\* zeros nothing stays, which is the text without a point.
RStrip(d) == [i \in {i \in Places : \E k \in i..6 : d[k] # 0} |-> d[i]]

MicroToFlopString(n) ==
  [whole |-> n \div MICRO_PER_FLOP,
   fraction |-> RStrip(SixDigits(n % MICRO_PER_FLOP))]

-----------------------------------------------------------------------------
(* A whole number below a million is its six digits, and six digits are the  *)
(* digits of their number.                                                   *)

\* Printing a remainder and reading it gives the remainder.
LEMMA SixDigitsOfInt ==
  ASSUME NEW n \in Nat, n < MICRO_PER_FLOP
  PROVE  SixDigits(n) \in [Places -> Digits] /\ IntOf(SixDigits(n)) = n
<1>1. SixDigits(n) \in [Places -> Digits]
  BY SMT DEF SixDigits, Places, Digits
<1>2. n = 10 * (n \div 10) + (n % 10)
  BY SMT
<1>3. n \div 10 = 10 * (n \div 100) + ((n \div 10) % 10)
  BY SMT
<1>4. n \div 100 = 10 * (n \div 1000) + ((n \div 100) % 10)
  BY SMT
<1>5. n \div 1000 = 10 * (n \div 10000) + ((n \div 1000) % 10)
  BY SMT
<1>6. n \div 10000 = 10 * (n \div 100000) + ((n \div 10000) % 10)
  BY SMT
<1>7. n \div 100000 = (n \div 100000) % 10
  BY SMT DEF MICRO_PER_FLOP
<1>8. IntOf(SixDigits(n)) = n
  BY <1>2, <1>3, <1>4, <1>5, <1>6, <1>7, SMT DEF IntOf, Value, SixDigits
<1>9. QED  BY <1>1, <1>8, SMT

\* Reading six digits and printing them gives the digits.
LEMMA IntOfSixDigits ==
  ASSUME NEW digits \in [Places -> Digits]
  PROVE  /\ IntOf(digits) \in Nat /\ IntOf(digits) < MICRO_PER_FLOP
         /\ SixDigits(IntOf(digits)) = digits
<1>1. PICK a \in Digits, b \in Digits, c \in Digits,
           d \in Digits, e \in Digits, f \in Digits :
             digits = <<a, b, c, d, e, f>>
  <2>1. digits = <<digits[1], digits[2], digits[3], digits[4], digits[5], digits[6]>>
    BY SMT DEF Places
  <2>2. \A i \in 1..6 : digits[i] \in Digits
    BY DEF Places
  <2>3. QED  BY <2>1, <2>2, SMT
<1> DEFINE n == Value(a, b, c, d, e, f)
<1>2. IntOf(digits) = n
  BY <1>1, SMT DEF IntOf
<1>3. n \in Nat /\ n < MICRO_PER_FLOP
  BY SMT DEF Value, Digits, MICRO_PER_FLOP
<1>4. n \div 100000 = a /\ a % 10 = a
  BY SMT DEF Value, Digits
<1>5. n \div 10000 = 10 * a + b /\ (10 * a + b) % 10 = b
  BY SMT DEF Value, Digits
<1>6. n \div 1000 = 100 * a + 10 * b + c /\ (100 * a + 10 * b + c) % 10 = c
  BY SMT DEF Value, Digits
<1>7. /\ n \div 100 = 1000 * a + 100 * b + 10 * c + d
      /\ (1000 * a + 100 * b + 10 * c + d) % 10 = d
  BY SMT DEF Value, Digits
<1>8. /\ n \div 10 = 10000 * a + 1000 * b + 100 * c + 10 * d + e
      /\ (10000 * a + 1000 * b + 100 * c + 10 * d + e) % 10 = e
  BY SMT DEF Value, Digits
<1>9. n % 10 = f
  BY SMT DEF Value, Digits
<1>10. SixDigits(n) = digits
  BY <1>1, <1>4, <1>5, <1>6, <1>7, <1>8, <1>9, SMT DEF SixDigits
<1>11. QED  BY <1>2, <1>3, <1>10

\* What rstrip takes away, ljust puts back.
LEMMA LJustOfRStrip ==
  ASSUME NEW d \in [Places -> Digits]
  PROVE  LJust(RStrip(d)) = d
<1>1. ASSUME NEW i \in Places PROVE LJust(RStrip(d))[i] = d[i]
  <2>1. d[i] # 0 => i \in DOMAIN RStrip(d)
    BY DEF RStrip, Places
  <2>2. i \in DOMAIN RStrip(d) => RStrip(d)[i] = d[i]
    BY DEF RStrip
  <2>3. QED  BY <2>1, <2>2 DEF LJust
<1>2. QED  BY <1>1 DEF LJust

\* A text's fraction, filled up, is six digits.
LEMMA LJustIsDigits ==
  ASSUME NEW text \in Text
  PROVE  LJust(text.fraction) \in [Places -> Digits]
<1>1. PICK n \in 0..6 : text.fraction \in [1..n -> Digits]
  BY DEF Text
<1>2. QED  BY <1>1, SMT DEF LJust, Places, Digits

\* What is left of six digits is a fraction of at most six.
LEMMA RStripIsFraction ==
  ASSUME NEW d \in [Places -> Digits]
  PROVE  \E n \in 0..6 : RStrip(d) \in [1..n -> Digits]
<1> DEFINE Kept == {i \in Places : \E k \in i..6 : d[k] # 0}
<1>1. PICK n \in 0..6 : Kept = 1..n
  <2>1. CASE d[6] # 0
    <3>1. Kept = 1..6  BY <2>1, SMT DEF Places
    <3>2. QED  BY <3>1, SMT
  <2>2. CASE d[6] = 0 /\ d[5] # 0
    <3>1. Kept = 1..5  BY <2>2, SMT DEF Places
    <3>2. QED  BY <3>1, SMT
  <2>3. CASE d[6] = 0 /\ d[5] = 0 /\ d[4] # 0
    <3>1. Kept = 1..4  BY <2>3, SMT DEF Places
    <3>2. QED  BY <3>1, SMT
  <2>4. CASE d[6] = 0 /\ d[5] = 0 /\ d[4] = 0 /\ d[3] # 0
    <3>1. Kept = 1..3  BY <2>4, SMT DEF Places
    <3>2. QED  BY <3>1, SMT
  <2>5. CASE d[6] = 0 /\ d[5] = 0 /\ d[4] = 0 /\ d[3] = 0 /\ d[2] # 0
    <3>1. Kept = 1..2  BY <2>5, SMT DEF Places
    <3>2. QED  BY <3>1, SMT
  <2>6. CASE d[6] = 0 /\ d[5] = 0 /\ d[4] = 0 /\ d[3] = 0 /\ d[2] = 0 /\ d[1] # 0
    <3>1. Kept = 1..1  BY <2>6, SMT DEF Places
    <3>2. QED  BY <3>1, SMT
  <2>7. CASE d[6] = 0 /\ d[5] = 0 /\ d[4] = 0 /\ d[3] = 0 /\ d[2] = 0 /\ d[1] = 0
    <3>1. Kept = 1..0  BY <2>7, SMT DEF Places
    <3>2. QED  BY <3>1, SMT
  <2>8. QED  BY <2>1, <2>2, <2>3, <2>4, <2>5, <2>6, <2>7
<1>2. RStrip(d) \in [1..n -> Digits]
  BY <1>1, SMT DEF RStrip, Places
<1>3. QED  BY <1>2

-----------------------------------------------------------------------------
\* An amount is printed as a text the parser takes, and read back as the same
\* amount: no micro unit is lost or made up (receipts give prices both ways).
THEOREM AmountsAreReadBack ==
  \A n \in Nat : /\ MicroToFlopString(n) \in Text
                 /\ ParseFlopToMicro(MicroToFlopString(n)) = n
<1> SUFFICES ASSUME NEW n \in Nat
             PROVE  /\ MicroToFlopString(n) \in Text
                    /\ ParseFlopToMicro(MicroToFlopString(n)) = n
  OBVIOUS
<1> DEFINE whole == n \div MICRO_PER_FLOP
           rest == n % MICRO_PER_FLOP
           d == SixDigits(rest)
<1>1. /\ whole \in Nat /\ rest \in Nat /\ rest < MICRO_PER_FLOP
      /\ n = whole * MICRO_PER_FLOP + rest
  BY SMT DEF MICRO_PER_FLOP
<1> HIDE DEF whole, rest
<1>2. d \in [Places -> Digits] /\ IntOf(d) = rest
  BY <1>1, SixDigitsOfInt
<1> HIDE DEF d
<1>3. LJust(RStrip(d)) = d
  BY <1>2, LJustOfRStrip
<1>4. MicroToFlopString(n) = [whole |-> whole, fraction |-> RStrip(d)]
  BY DEF MicroToFlopString, whole, rest, d
<1>5. MicroToFlopString(n) \in Text
  BY <1>1, <1>2, <1>4, RStripIsFraction DEF Text
<1>6. ParseFlopToMicro(MicroToFlopString(n)) = n
  BY <1>1, <1>2, <1>3, <1>4 DEF ParseFlopToMicro
<1>7. QED  BY <1>5, <1>6

\* A text that is read and printed again is the same text without the zeros at
\* the end of its fraction: reading rounds nothing.
THEOREM TextsAreKept ==
  \A text \in Text :
    MicroToFlopString(ParseFlopToMicro(text)) =
      [whole |-> text.whole, fraction |-> RStrip(LJust(text.fraction))]
<1> SUFFICES ASSUME NEW text \in Text
             PROVE  MicroToFlopString(ParseFlopToMicro(text)) =
                      [whole |-> text.whole, fraction |-> RStrip(LJust(text.fraction))]
  OBVIOUS
<1> DEFINE d == LJust(text.fraction)
           rest == IntOf(d)
           n == ParseFlopToMicro(text)
<1>1. text.whole \in Nat
  BY DEF Text
<1>2. d \in [Places -> Digits]
  BY LJustIsDigits
<1>3. n = text.whole * MICRO_PER_FLOP + rest
  BY DEF ParseFlopToMicro
<1> HIDE DEF d, n
<1>4. rest \in Nat /\ rest < MICRO_PER_FLOP /\ SixDigits(rest) = d
  BY <1>2, IntOfSixDigits
<1> HIDE DEF rest
<1>5. n \div MICRO_PER_FLOP = text.whole /\ n % MICRO_PER_FLOP = rest
  BY <1>1, <1>3, <1>4, SMT DEF MICRO_PER_FLOP
<1>6. QED  BY <1>4, <1>5 DEF MicroToFlopString, n, d

=============================================================================
