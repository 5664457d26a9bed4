--------------------------- MODULE DecodingProofs ---------------------------
(***************************************************************************)
(* Proofs about the readers of values, string tables, files and names.     *)
(*                                                                         *)
(* Quantized floats, of any number of bits and any range: what is read lies *)
(* in the range, and what the flags promise can be read exactly.           *)
(*                                                                         *)
(* The encodings of a message, for values of any size and messages of any  *)
(* length: each is read back, or the reader ends outside of the data.      *)
(*                                                                         *)
(* What a demo holds: the ring of string tables is the server's list, for  *)
(* every size of it; the reader of a demo file is where its caller takes it *)
(* to be, for every demo, wherever it is broken off, and for every size of *)
(* the buffer; and the parser of the names of types decides their grammar, *)
(* for every name.                                                         *)
(***************************************************************************)
EXTENDS FloatDecoding, BitReader, StringHistory, DemoFile, VarTypes, Induction

-----------------------------------------------------------------------------
(* Arithmetic.                                                              *)

\* A number is what its quotient and remainder say.
LEMMA DivMod ==
  ASSUME NEW S \in Nat \ {0}, NEW a \in Int
  PROVE  a = S * (a \div S) + (a % S) /\ a \div S \in Int /\ a % S \in 0 .. S - 1
  OBVIOUS

\* There is one quotient and one remainder.
LEMMA UniqueDiv ==
  ASSUME NEW S \in Nat \ {0}, NEW q \in Int, NEW p \in Int,
         NEW r \in 0 .. S - 1, NEW t \in 0 .. S - 1, S * q + r = S * p + t
  PROVE  q = p /\ r = t
  OBVIOUS

\* So what is a quotient and a remainder is the quotient and the remainder.
LEMMA DivIs ==
  ASSUME NEW S \in Nat \ {0}, NEW q \in Int, NEW r \in 0 .. S - 1, NEW a \in Int, a = S * q + r
  PROVE  a \div S = q /\ a % S = r
<1> DEFINE p == a \div S
           t == a % S
<1>1. p \in Int /\ t \in 0 .. S - 1 /\ a = S * p + t
  BY DivMod
<1> HIDE DEF p, t
<1>2. q = p /\ r = t
  BY <1>1, UniqueDiv
<1> QED
  BY <1>2 DEF p, t

\* Multiplication keeps the order.
LEMMA MulMono ==
  ASSUME NEW a \in Int, NEW b \in Int, NEW c \in Nat, a <= b
  PROVE  c * a <= c * b /\ c * a \in Int /\ c * b \in Int
<1> DEFINE d == b - a
<1>1. d \in Nat /\ b = a + d
  OBVIOUS
<1> HIDE DEF d
<1>2. c * d >= 0
  BY <1>1
<1>3. c * (a + d) = c * a + c * d
  BY <1>1
<1> QED
  BY <1>1, <1>2, <1>3

\* Division keeps it, too.
LEMMA DivMono ==
  ASSUME NEW S \in Nat \ {0}, NEW a \in Int, NEW b \in Int, a <= b
  PROVE  a \div S <= b \div S
<1> DEFINE p == a \div S
           q == b \div S
<1>1. p \in Int /\ q \in Int /\ a = S * p + (a % S) /\ b = S * q + (b % S)
      /\ a % S \in 0 .. S - 1 /\ b % S \in 0 .. S - 1
  BY DivMod
<1> HIDE DEF p, q
<1>2. SUFFICES ASSUME q + 1 <= p PROVE FALSE
  BY <1>1 DEF p, q
<1>3. S * (q + 1) <= S * p /\ S * (q + 1) = S * q + S
  BY <1>1, <1>2, MulMono
<1> QED
  BY <1>1, <1>3

\* Powers of two are numbers, and not zero.
LEMMA PowerPositive ==
  ASSUME NEW n \in Nat
  PROVE  2 ^ n \in Nat \ {0}
<1> DEFINE G == {k \in Nat : 2 ^ k # 0}
<1>1. 0 \in G
  BY SmallPowers
<1>2. ASSUME NEW k \in Nat, k \in G PROVE k + 1 \in G
  <2> DEFINE p == 2 ^ k
  <2>1. p \in Nat /\ p # 0
    BY <1>2, PowerCounts
  <2>2. 2 ^ (k + 1) = p + p
    BY PowerDoubles
  <2> HIDE DEF p
  <2> QED
    BY <2>1, <2>2
<1>3. \A k \in Nat : k \in G
  <2> HIDE DEF G
  <2> QED
    BY <1>1, <1>2, NaturalInduction
<1> QED
  BY <1>3, PowerCounts

\* v parts of t of r: none of it, all of it, or something between.
LEMMA PartOf ==
  ASSUME NEW t \in Nat \ {0}, NEW r \in Nat, NEW v \in 0 .. t
  PROVE  (r * v) \div t \in 0 .. r
<1>1. r * 0 <= r * v /\ r * v <= r * t /\ r * v \in Int /\ r * t \in Int
  BY MulMono
<1>2. 0 \div t = 0 /\ (r * t) \div t = r
  <2>1. 0 = t * 0 + 0 /\ r * t = t * r + 0
    OBVIOUS
  <2> QED
    BY <1>1, <2>1, DivIs
<1>3. 0 <= r * v
  BY <1>1
<1>4. 0 \div t <= (r * v) \div t /\ (r * v) \div t <= (r * t) \div t
  BY <1>1, <1>3, DivMono
<1>5. (r * v) \div t \in Int
  BY <1>1, DivMod
<1> QED
  BY <1>2, <1>4, <1>5

\* No part of a range, and all of it.
LEMMA AllParts ==
  ASSUME NEW t \in Nat \ {0}, NEW r \in Nat
  PROVE  (r * 0) \div t = 0 /\ (r * t) \div t = r
<1>1. r * 0 = t * 0 + 0 /\ r * t = t * r + 0 /\ r * t \in Int
  OBVIOUS
<1> QED
  BY <1>1, DivIs

-----------------------------------------------------------------------------
(* Steps and ranges.                                                        *)

\* There are two steps or more, and an even number of them.
LEMMA StepsTyped ==
  ASSUME NEW bits \in Nat \ {0}
  PROVE  \E h \in Nat \ {0} : Steps(bits) = h + h
<1>1. bits - 1 \in Nat /\ bits = (bits - 1) + 1
  OBVIOUS
<1>2. 2 ^ bits = 2 ^ (bits - 1) + 2 ^ (bits - 1)
  BY <1>1, PowerDoubles
<1> QED
  BY <1>1, <1>2, PowerPositive DEF Steps

\* The unit of exact arithmetic, and the number of steps, are not zero.
LEMMA ScaleTyped ==
  ASSUME NEW bits \in Nat \ {0}
  PROVE  /\ Steps(bits) \in Nat \ {0} /\ Steps(bits) - 1 \in Nat \ {0}
         /\ Scale(bits) \in Nat \ {0}
<1>1. PICK h \in Nat \ {0} : Steps(bits) = h + h
  BY StepsTyped
<1> DEFINE S == Steps(bits)
<1>2. S \in Nat \ {0} /\ S - 1 \in Nat \ {0}
  BY <1>1
<1> HIDE DEF S
<1>3. S * (S - 1) \in Nat \ {0}
  BY <1>2
<1> QED
  BY <1>2, <1>3 DEF S, Scale

\* The flag for integers replaces a range by one of two whole steps: the difference
\* of its ends is computed with the wrong sign, so it is never more than 1.
LEMMA OneBit == NumBitsForCount(1) = 1
<1> DEFINE P(k) == 2 ^ k > 1 /\ \A j \in 0 .. k - 1 : 2 ^ j <= 1
<1>1. 1 \in 0 .. 2 /\ P(1)
  BY SmallPowers
<1>2. \A k \in 0 .. 2 : P(k) => k = 1
  <2>1. ~ P(0)
    BY SmallPowers
  <2>2. ~ P(2)
    BY SmallPowers
  <2> HIDE DEF P
  <2>3. \A k \in 0 .. 2 : k = 0 \/ k = 1 \/ k = 2
    OBVIOUS
  <2> QED
    BY <2>1, <2>2, <2>3
<1>3. NumBitsForCount(1) = CHOOSE k \in 0 .. 2 : P(k)
  BY DEF NumBitsForCount
<1> HIDE DEF P
<1>4. (CHOOSE k \in 0 .. 2 : P(k)) \in 0 .. 2 /\ P(CHOOSE k \in 0 .. 2 : P(k))
  BY <1>1
<1> QED
  BY <1>2, <1>3, <1>4

\* Cutting off the fraction keeps the order.
LEMMA TruncatedMono ==
  ASSUME NEW one \in Nat \ {0}, NEW a \in Int, NEW b \in Int, a <= b
  PROVE  /\ Truncated(a, one) \in Int /\ Truncated(b, one) \in Int
         /\ Truncated(a, one) <= Truncated(b, one)
<1> DEFINE T(x) == IF x >= 0 THEN x \div one ELSE -((-x) \div one)
<1>1. \A x \in Int : x \div one \in Int /\ (x >= 0 => x \div one >= 0)
  <2> TAKE x \in Int
  <2>1. 0 \div one = 0
    BY AllParts
  <2> QED
    BY <2>1, DivMod, DivMono
<1>2. T(a) \in Int /\ T(b) \in Int
  BY <1>1
<1>3. CASE a >= 0
  <2>1. b >= 0 /\ a \div one <= b \div one
    BY <1>3, DivMono
  <2> QED
    BY <1>2, <1>3, <2>1 DEF Truncated
<1>4. CASE a < 0 /\ b >= 0
  <2>1. (-a) \div one >= 0 /\ b \div one >= 0 /\ (-a) \div one \in Int /\ b \div one \in Int
    BY <1>1, <1>4
  <2> QED
    BY <1>2, <1>4, <2>1 DEF Truncated
<1>5. CASE a < 0 /\ b < 0
  <2>1. (-b) \div one <= (-a) \div one /\ (-a) \div one \in Int /\ (-b) \div one \in Int
    BY <1>1, <1>5, DivMono
  <2> QED
    BY <1>2, <1>5, <2>1 DEF Truncated
<1> QED
  BY <1>3, <1>4, <1>5

\* The number of the last step, and the range that the flag for integers makes, with
\* names that the provers do not look into.
TopStep(bits) == Steps(bits) - 1
WholeRange(bits) == 4 * (TopStep(bits) * TopStep(bits))

\* The range between whose ends the steps lie is part of the range asked for,
\* unless it replaces it, and reaches the end that is to be exact.
LEMMA EndsTyped ==
  ASSUME NEW efs, NEW bits \in Nat \ {0}, NEW low \in Int, NEW high \in Int, low <= high,
         ~ ({"down", "up"} \subseteq efs)
  PROVE  LET ends == Ends(efs, bits, low, high) IN
         /\ ends.low \in Int /\ ends.high \in Int
         /\ low <= ends.low /\ ends.low <= ends.high
         /\ "integers" \in efs => ends.low = low /\ ends.high - ends.low = WholeRange(bits)
         /\ "integers" \notin efs => ends.high <= high
         /\ ("integers" \notin efs /\ "down" \in efs) => ends.low = low
         /\ ("integers" \notin efs /\ "up" \in efs) => ends.high = high
<1> DEFINE S == Steps(bits)
           one == 2 * Scale(bits)
           rounded_by == (high - low) \div S
           delta == Truncated(low, one) - Truncated(high, one)
           range == 2 ^ NumBitsForCount(IF delta > 1 THEN delta ELSE 1)
           ends == Ends(efs, bits, low, high)
<1>1. S \in Nat \ {0} /\ S - 1 \in Nat \ {0} /\ Scale(bits) = S * (S - 1)
  BY ScaleTyped DEF Scale
<1>2. CASE "integers" \in efs
  <2>1. one \in Nat \ {0}
    BY ScaleTyped
  <2>2. ~ (delta > 1)
    <3> HIDE DEF one
    <3>1. /\ Truncated(low, one) \in Int /\ Truncated(high, one) \in Int
          /\ Truncated(low, one) <= Truncated(high, one)
      BY <2>1, TruncatedMono
    <3> QED
      BY <3>1
  <2>3. range = 2
    BY <2>2, OneBit, SmallPowers
  <2>4. ends = [low |-> low, high |-> low + 2 * one - (2 * one) \div S]
    <3>1. ends = [low |-> low, high |-> low + range * one - (range * one) \div S]
      BY <1>2 DEF Ends
    <3> QED
      BY <2>3, <3>1
  <2> HIDE DEF S
  <2>5. 2 * one = S * (4 * (S - 1)) + 0 /\ 4 * (S - 1) \in Int /\ 2 * one \in Int
    BY <1>1
  <2>6. (2 * one) \div S = 4 * (S - 1)
    BY <1>1, <2>5, DivIs
  <2>7. 2 * one - 4 * (S - 1) = 4 * ((S - 1) * (S - 1)) /\ 4 * ((S - 1) * (S - 1)) \in Nat
    BY <1>1, <2>5
  <2>8. ends.low = low /\ ends.high = low + 2 * one - 4 * (S - 1)
    BY <2>4, <2>6
  <2>9. ends.high = low + 4 * ((S - 1) * (S - 1)) /\ ends.high - low = 4 * ((S - 1) * (S - 1))
    <3> DEFINE x == 2 * one
               y == 4 * (S - 1)
               z == 4 * ((S - 1) * (S - 1))
    <3>1. x \in Int /\ y \in Int /\ z \in Nat /\ x - y = z /\ ends.high = low + x - y
      BY <2>5, <2>7, <2>8
    <3> HIDE DEF x, y, z, ends
    <3>2. ends.high = low + z /\ ends.high - low = z
      BY <3>1
    <3> QED
      BY <3>2 DEF z
  <2> HIDE DEF ends
  <2>10. ends.low \in Int /\ ends.high \in Int /\ low <= ends.low /\ ends.low <= ends.high
    BY <2>7, <2>8, <2>9
  <2> QED
    <3>1. S - 1 = TopStep(bits)
      BY DEF S, TopStep
    <3>2. ends.high - ends.low = 4 * (TopStep(bits) * TopStep(bits))
      BY <2>8, <2>9, <3>1
    <3> QED
      BY <1>2, <2>8, <2>10, <3>2 DEF ends, WholeRange
<1>3. CASE "integers" \notin efs
  <2>1. rounded_by \in 0 .. high - low
    <3>1. ((high - low) * 1) \div S \in 0 .. high - low
      <4> HIDE DEF S
      <4>1. high - low \in Nat /\ 1 \in 0 .. S
        BY <1>1
      <4> QED
        BY <1>1, <4>1, PartOf
    <3> QED
      BY <3>1
  <2>2. ends = [low  |-> IF "down" \notin efs /\ "up" \in efs THEN low + rounded_by ELSE low,
                high |-> IF "down" \in efs THEN high - rounded_by ELSE high]
    BY <1>3 DEF Ends
  <2> HIDE DEF rounded_by
  <2>3. CASE "down" \in efs
    <3>1. ends.low = low /\ ends.high = high - rounded_by /\ "up" \notin efs
      BY <2>2, <2>3
    <3> HIDE DEF ends
    <3> QED
      BY <1>3, <2>1, <3>1 DEF ends
  <2>4. CASE "down" \notin efs /\ "up" \in efs
    <3>1. ends.low = low + rounded_by /\ ends.high = high
      BY <2>2, <2>4
    <3> HIDE DEF ends
    <3> QED
      BY <1>3, <2>1, <2>4, <3>1 DEF ends
  <2>5. CASE "down" \notin efs /\ "up" \notin efs
    <3>1. ends.low = low /\ ends.high = high
      BY <2>2, <2>5
    <3> HIDE DEF ends
    <3> QED
      BY <1>3, <2>5, <3>1 DEF ends
  <2> QED
    BY <2>3, <2>4, <2>5
<1> QED
  BY <1>2, <1>3

-----------------------------------------------------------------------------
(* Flags and decoders.                                                      *)

\* What becomes of the flags: rounding stays, and exact integers exclude all else.
LEMMA FlagsKept ==
  ASSUME NEW flags \in SUBSET EncodeFlags, NEW low \in Int, NEW high \in Int
  PROVE  LET efs == ComputeEncodeFlags(flags, low, high) IN
         /\ efs \subseteq EncodeFlags
         /\ "integers" \in flags => efs = {"integers"}
         /\ "integers" \notin flags =>
              /\ "integers" \notin efs
              /\ "down" \in flags => "down" \in efs
              /\ "up" \in flags => "up" \in efs
              /\ "zero" \in efs => low < 0 /\ high > 0
<1> DEFINE discarded == DiscardZero(flags, low, high)
           atLow     == ZeroAtEnd(discarded, low, "down")
           switched  == ZeroAtEnd(atLow, high, "up")
           spanning  == IF low < 0 /\ high > 0 THEN switched ELSE switched \ {"zero"}
<1>1. /\ discarded \subseteq EncodeFlags
      /\ \A f \in {"down", "up", "integers"} : f \in discarded <=> f \in flags
  BY DEF DiscardZero, EncodeFlags
<1>2. /\ atLow \subseteq EncodeFlags
      /\ "integers" \in atLow <=> "integers" \in flags
      /\ \A f \in {"down", "up"} : f \in flags => f \in atLow
  <2> HIDE DEF discarded
  <2> QED
    BY <1>1 DEF ZeroAtEnd, EncodeFlags
<1>3. /\ switched \subseteq EncodeFlags
      /\ "integers" \in switched <=> "integers" \in flags
      /\ \A f \in {"down", "up"} : f \in flags => f \in switched
  <2> HIDE DEF atLow
  <2> QED
    BY <1>2 DEF ZeroAtEnd, EncodeFlags
<1>4. ComputeEncodeFlags(flags, low, high) = IF "integers" \in spanning THEN {"integers"} ELSE spanning
  BY DEF ComputeEncodeFlags
<1> HIDE DEF switched
<1> QED
  BY <1>3, <1>4 DEF EncodeFlags

\* A flag for zero that is dropped was not needed: one end of the range is zero,
\* and is read exactly.
LEMMA ZeroKept ==
  ASSUME NEW flags \in SUBSET EncodeFlags, NEW low \in Int, NEW high \in Int,
         "zero" \in flags, "integers" \notin flags, low <= 0, high >= 0
  PROVE  LET efs == ComputeEncodeFlags(flags, low, high) IN
         \/ "zero" \in efs
         \/ low = 0 /\ "down" \in efs
         \/ high = 0 /\ "up" \in efs
<1>1. CASE low < 0 /\ high > 0
  <2>1. DiscardZero(flags, low, high) = flags
    BY <1>1 DEF DiscardZero
  <2>2. \A f : ZeroAtEnd(flags, low, f) = flags /\ ZeroAtEnd(flags, high, f) = flags
    BY <1>1 DEF ZeroAtEnd
  <2>3. ComputeEncodeFlags(flags, low, high) = flags
    BY <1>1, <2>1, <2>2 DEF ComputeEncodeFlags
  <2> QED
    BY <2>3
<1>2. CASE ~ (low < 0 /\ high > 0)
  <2> DEFINE efs == ComputeEncodeFlags(flags, low, high)
             discarded == DiscardZero(flags, low, high)
             atLow == ZeroAtEnd(discarded, low, "down")
             switched == ZeroAtEnd(atLow, high, "up")
  <2>1. \A f \in {"down", "up"} : f \in flags => f \in efs
    BY FlagsKept
  <2>2. CASE (low = 0 /\ "down" \in flags) \/ (high = 0 /\ "up" \in flags)
    <3> HIDE DEF efs
    <3> QED
      BY <2>1, <2>2 DEF efs
  <2>3. CASE ~ ((low = 0 /\ "down" \in flags) \/ (high = 0 /\ "up" \in flags))
    <3>1. discarded = flags
      BY <2>3 DEF DiscardZero
    <3>2. efs = switched \ {"zero"}
      <4>1. "integers" \notin switched
        <5>1. "integers" \notin atLow
          BY <3>1 DEF ZeroAtEnd
        <5> QED
          BY <5>1 DEF ZeroAtEnd
      <4> QED
        BY <1>2, <4>1 DEF ComputeEncodeFlags
    <3>3. CASE low = 0
      <4>1. atLow = (flags \union {"down"}) \ {"zero"}
        BY <3>1, <3>3 DEF ZeroAtEnd
      <4>2. "down" \in switched
        BY <4>1 DEF ZeroAtEnd
      <4> QED
        BY <3>2, <3>3, <4>2
    <3>4. CASE low # 0 /\ high = 0
      <4>1. atLow = flags
        BY <3>1, <3>4 DEF ZeroAtEnd
      <4>2. "up" \in switched
        BY <3>4, <4>1 DEF ZeroAtEnd
      <4> QED
        BY <3>2, <3>4, <4>2
    <3> QED
      BY <1>2, <3>3, <3>4
  <2> QED
    BY <2>2, <2>3
<1> QED
  BY <1>1, <1>2

\* The step of number v of a range.
StepAt(low, high, bits, v) == low + ((high - low) * v) \div (Steps(bits) - 1)

\* Steps lie in their range, and the first and the last are its ends.
LEMMA StepsInRange ==
  ASSUME NEW bits \in Nat \ {0}, NEW low \in Int, NEW high \in Int, low <= high
  PROVE  \A v \in 0 .. Steps(bits) - 1 : StepAt(low, high, bits, v) \in low .. high
<1> DEFINE t == Steps(bits) - 1
           r == high - low
<1>1. t \in Nat \ {0} /\ r \in Nat
  BY ScaleTyped
<1>2. r + low = high /\ low + r = high
  OBVIOUS
<1> HIDE DEF t, r
<1>3. ASSUME NEW v \in 0 .. t PROVE low + (r * v) \div t \in low .. high
  <2>1. (r * v) \div t \in 0 .. r
    BY <1>1, PartOf
  <2> QED
    BY <1>1, <1>2, <2>1
<1> QED
  BY <1>3 DEF t, r, StepAt

\* The first step is the low end and the last is the high one.
LEMMA EndSteps ==
  ASSUME NEW bits \in Nat \ {0}, NEW low \in Int, NEW high \in Int, low <= high
  PROVE  StepAt(low, high, bits, 0) = low /\ StepAt(low, high, bits, TopStep(bits)) = high
<1> DEFINE r == high - low
           t == TopStep(bits)
<1>1. t \in Nat \ {0} /\ r \in Nat /\ t = Steps(bits) - 1
  BY ScaleTyped DEF TopStep
<1>2. low + r = high
  OBVIOUS
<1> HIDE DEF r, t
<1>3. (r * 0) \div t = 0 /\ (r * t) \div t = r
  BY <1>1, AllParts
<1>4. low + (r * 0) \div t = low /\ low + (r * t) \div t = high
  BY <1>2, <1>3
<1>5. StepAt(low, high, bits, 0) = low + (r * 0) \div t /\ StepAt(low, high, bits, t) = low + (r * t) \div t
  BY <1>1 DEF StepAt, r
<1> QED
  BY <1>4, <1>5 DEF t

\* What a value of the range is quantized to is a step.
LEMMA QuantizeIsStep ==
  ASSUME NEW bits \in Nat \ {0}, NEW ends, ends.low \in Int, ends.high \in Int,
         ends.low <= ends.high, NEW x \in Int, NEW y \in Quantize(x, bits, ends)
  PROVE  \E v \in 0 .. Steps(bits) - 1 : y = StepAt(ends.low, ends.high, bits, v)
<1> DEFINE low == ends.low
           high == ends.high
           t == Steps(bits) - 1
           r == high - low
           product == (x - low) * t
           exact == product \div r
<1>1. t \in Nat \ {0} /\ 0 \in 0 .. t /\ t \in 0 .. t
  BY ScaleTyped
<1>2. StepAt(low, high, bits, 0) = low /\ StepAt(low, high, bits, t) = high
  <2>1. low \in Int /\ high \in Int /\ low <= high /\ t = TopStep(bits)
    BY DEF TopStep
  <2>2. bits \in Nat \ {0}
    OBVIOUS
  <2> HIDE DEF low, high, t
  <2> QED
    BY <2>1, <2>2, EndSteps
<1>3. CASE x < low \/ r = 0
  <2>1. y = low
    BY <1>3 DEF Quantize
  <2> QED
    BY <1>1, <1>2, <2>1
<1>4. CASE ~ (x < low \/ r = 0) /\ x > high
  <2>1. y = high
    BY <1>4 DEF Quantize
  <2> QED
    BY <1>1, <1>2, <2>1
<1>5. CASE ~ (x < low \/ r = 0) /\ ~ (x > high)
  <2>1. \/ y = StepAt(low, high, bits, exact)
        \/ exact > 0 /\ y = StepAt(low, high, bits, exact - 1)
    BY <1>5 DEF Quantize, StepAt
  <2>2. r \in Nat \ {0} /\ x - low \in 0 .. r
    BY <1>5
  <2>3. exact \in 0 .. t
    <3> HIDE DEF t, r
    <3> DEFINE d == x - low
    <3>1. t * d = d * t
      BY <1>1, <2>2
    <3>2. (t * d) \div r \in 0 .. t
      BY <1>1, <2>2, PartOf
    <3> QED
      BY <3>1, <3>2
  <2> HIDE DEF exact, t
  <2>4. exact \in 0 .. t /\ (exact > 0 => exact - 1 \in 0 .. t)
    BY <1>1, <2>3
  <2> QED
    BY <2>1, <2>4 DEF t
<1> QED
  BY <1>3, <1>4, <1>5

-----------------------------------------------------------------------------
(* A field that was announced, and its decoder.                             *)

AskedFor(a) ==
  /\ a.is = "asked" /\ a.bits \in BitCounts /\ a.flags \in SUBSET EncodeFlags
  /\ \E h \in Int : a.low = h * Scale(a.bits)
  /\ a.low \in Int /\ a.high \in Int /\ a.low <= a.high

BuiltFor(a, q) ==
  /\ q.is = "built" /\ ~ContradictoryFlags(a.flags, a.low, a.high)
  /\ q.qf \in NewQuantized(a.flags, a.bits, a.low, a.high)

FloatInv ==
  /\ asked = Nothing \/ AskedFor(asked)
  /\ asked = Nothing => quantized = Nothing
  /\ quantized.is \in {"nothing", "error", "built"}
  /\ quantized.is = "built" => BuiltFor(asked, quantized)
  /\ value.is = "read" => quantized.is = "built" /\ value.x \in Decodable(quantized.qf)

\* What a decoder that was built knows of the field.
LEMMA DecoderKnows ==
  ASSUME NEW a, NEW q, AskedFor(a), BuiltFor(a, q)
  PROVE  LET efs == ComputeEncodeFlags(a.flags, a.low, a.high)
             ends == Ends(efs, a.bits, a.low, a.high)
         IN /\ a.bits \in Nat \ {0} /\ ~ ({"down", "up"} \subseteq efs)
            /\ q.qf.bits = a.bits /\ q.qf.low = ends.low /\ q.qf.high = ends.high
            /\ q.qf.flags \subseteq efs
            /\ "zero" \in efs => "zero" \in q.qf.flags \/ 0 \in Quantize(0, a.bits, ends)
<1> DEFINE efs == ComputeEncodeFlags(a.flags, a.low, a.high)
           ends == Ends(efs, a.bits, a.low, a.high)
           must == IF "down" \in efs THEN {"down"} ELSE {}
           may  == {flag \in {"up", "zero"} :
                      flag \in efs /\ (IF flag = "up" THEN ends.high ELSE 0) \in
                        Quantize(IF flag = "up" THEN ends.high ELSE 0, a.bits, ends)}
<1>1. a.bits \in Nat \ {0}
  BY FloatAssumption DEF AskedFor
<1>2. ~ ({"down", "up"} \subseteq efs)
  BY DEF BuiltFor, ContradictoryFlags
<1>3. q.qf \in {[bits |-> a.bits, flags |-> efs \ (must \union removed),
                low |-> ends.low, high |-> ends.high] : removed \in SUBSET may}
  BY DEF BuiltFor, NewQuantized
<1> HIDE DEF efs, ends, may
<1>4. PICK removed \in SUBSET may :
        q.qf = [bits |-> a.bits, flags |-> efs \ (must \union removed),
                low |-> ends.low, high |-> ends.high]
  BY <1>3
<1>5. q.qf.bits = a.bits /\ q.qf.low = ends.low /\ q.qf.high = ends.high
      /\ q.qf.flags = efs \ (must \union removed)
  BY <1>4
<1>6. "zero" \in may => 0 \in Quantize(0, a.bits, ends)
  BY DEF may
<1>7. "zero" \in efs => "zero" \in q.qf.flags \/ "zero" \in may
  BY <1>4, <1>5
<1> QED
  BY <1>1, <1>2, <1>5, <1>6, <1>7 DEF efs, ends

\* So whatever it reads lies in the field's range,
LEMMA DecodesInRange ==
  ASSUME NEW a, NEW q, AskedFor(a), BuiltFor(a, q), NEW x \in Decodable(q.qf)
  PROVE  a.low <= x /\ ("integers" \notin a.flags => x <= a.high)
<1> DEFINE efs == ComputeEncodeFlags(a.flags, a.low, a.high)
           ends == Ends(efs, a.bits, a.low, a.high)
           low == ends.low
           high == ends.high
<1>1. /\ a.bits \in Nat \ {0} /\ ~ ({"down", "up"} \subseteq efs)
      /\ q.qf.bits = a.bits /\ q.qf.low = low /\ q.qf.high = high
      /\ q.qf.flags \subseteq efs
  BY DecoderKnows
<1>2. a.low \in Int /\ a.high \in Int /\ a.low <= a.high /\ a.flags \in SUBSET EncodeFlags
  BY DEF AskedFor
<1>3. /\ low \in Int /\ high \in Int /\ a.low <= low /\ low <= high
      /\ "integers" \notin efs => high <= a.high
  <2> HIDE DEF efs
  <2> QED
    BY <1>1, <1>2, EndsTyped
<1>4. /\ "integers" \in a.flags => efs = {"integers"}
      /\ efs \subseteq EncodeFlags
      /\ "integers" \notin a.flags =>
           "integers" \notin efs /\ ("zero" \in efs => a.low < 0 /\ a.high > 0)
  BY <1>2, FlagsKept
<1> HIDE DEF efs, ends, low, high
<1>5. x \in low .. high => a.low <= x /\ ("integers" \notin a.flags => x <= a.high)
  BY <1>2, <1>3, <1>4
<1>6. CASE \E flag \in q.qf.flags \ {"integers"} : x = DecodeExact(q.qf, flag)
  <2>1. PICK flag \in q.qf.flags \ {"integers"} : x = DecodeExact(q.qf, flag)
    BY <1>6
  <2>2. flag \in efs /\ "integers" \notin a.flags /\ flag \in {"down", "up", "zero"}
    BY <1>1, <1>4, <2>1 DEF EncodeFlags
  <2>3. CASE flag = "zero"
    <3>1. x = 0 /\ a.low < 0 /\ a.high > 0
      BY <1>4, <2>1, <2>2, <2>3 DEF DecodeExact
    <3> QED
      BY <1>2, <3>1
  <2>4. CASE flag # "zero"
    <3>1. x \in {low, high}
      BY <1>1, <2>1, <2>2, <2>4 DEF DecodeExact
    <3>2. x \in low .. high
      BY <1>3, <3>1
    <3> QED
      BY <1>5, <3>2
  <2> QED
    BY <2>3, <2>4
<1>7. CASE \E v \in 0 .. Steps(q.qf.bits) - 1 : x = DecodeStep(q.qf, v)
  <2>1. PICK v \in 0 .. Steps(a.bits) - 1 : x = StepAt(low, high, a.bits, v)
    BY <1>1, <1>7 DEF DecodeStep, StepAt
  <2> QED
    BY <1>1, <1>3, <1>5, <2>1, StepsInRange
<1> QED
  BY <1>6, <1>7 DEF Decodable

\* and every step of its range can be read,
LEMMA DecodesSteps ==
  ASSUME NEW a, NEW q, AskedFor(a), BuiltFor(a, q)
  PROVE  LET ends == Ends(ComputeEncodeFlags(a.flags, a.low, a.high), a.bits, a.low, a.high)
         IN  \A v \in 0 .. Steps(a.bits) - 1 :
               StepAt(ends.low, ends.high, a.bits, v) \in Decodable(q.qf)
<1> DEFINE ends == Ends(ComputeEncodeFlags(a.flags, a.low, a.high), a.bits, a.low, a.high)
<1>1. q.qf.bits = a.bits /\ q.qf.low = ends.low /\ q.qf.high = ends.high
  BY DecoderKnows
<1> HIDE DEF ends
<1>2. \A v \in 0 .. Steps(a.bits) - 1 : StepAt(ends.low, ends.high, a.bits, v) \in Decodable(q.qf)
  BY <1>1 DEF Decodable, DecodeStep, StepAt
<1> QED
  BY <1>2 DEF ends

\* also the second of the whole steps that the flag for integers makes.
LEMMA SecondInteger ==
  ASSUME NEW bits \in Nat \ {0}, NEW low \in Int, NEW high \in Int,
         high - low = 4 * ((Steps(bits) - 1) * (Steps(bits) - 1))
  PROVE  \E v \in 0 .. Steps(bits) - 1 : StepAt(low, high, bits, v) = low + 2 * Scale(bits)
<1>1. PICK h \in Nat \ {0} : Steps(bits) = h + h
  BY StepsTyped
<1> DEFINE t == Steps(bits) - 1
           x == 2 * Scale(bits)
<1>2. t \in Nat \ {0} /\ h \in 0 .. t
  BY <1>1
<1>3. x = 2 * ((h + h) * t)
  BY <1>1 DEF Scale
<1> HIDE DEF t, x
<1>4. (4 * (t * t)) * h = t * x + 0 /\ x \in Int
  BY <1>2, <1>3
<1>5. ((4 * (t * t)) * h) \div t = x
  <2>1. (4 * (t * t)) * h \in Int
    BY <1>2
  <2> QED
    BY <1>2, <1>4, <2>1, DivIs
<1>6. StepAt(low, high, bits, h) = low + x
  BY <1>5 DEF StepAt, t
<1> QED
  BY <1>2, <1>6 DEF t, x

\* The ends that the flags name, and zero, are read exactly.
LEMMA DecodesExactly ==
  ASSUME NEW a, NEW q, AskedFor(a), BuiltFor(a, q)
  PROVE  IF "integers" \in a.flags
         THEN a.low \in Decodable(q.qf) /\ a.low + 2 * Scale(a.bits) \in Decodable(q.qf)
         ELSE /\ "down" \in a.flags => a.low \in Decodable(q.qf)
              /\ "up" \in a.flags => a.high \in Decodable(q.qf)
              /\ ("zero" \in a.flags /\ a.low <= 0 /\ a.high >= 0) => 0 \in Decodable(q.qf)
<1> DEFINE efs == ComputeEncodeFlags(a.flags, a.low, a.high)
           ends == Ends(efs, a.bits, a.low, a.high)
           low == ends.low
           high == ends.high
           t == Steps(a.bits) - 1
<1>1. /\ a.bits \in Nat \ {0} /\ ~ ({"down", "up"} \subseteq efs)
      /\ q.qf.flags \subseteq efs
      /\ "zero" \in efs => "zero" \in q.qf.flags \/ 0 \in Quantize(0, a.bits, ends)
  BY DecoderKnows
<1>2. a.low \in Int /\ a.high \in Int /\ a.low <= a.high /\ a.flags \in SUBSET EncodeFlags
  BY DEF AskedFor
<1>3. /\ low \in Int /\ high \in Int /\ low <= high
      /\ "integers" \in efs => low = a.low /\ high - low = 4 * (t * t)
      /\ ("integers" \notin efs /\ "down" \in efs) => low = a.low
      /\ ("integers" \notin efs /\ "up" \in efs) => high = a.high
  <2>1. ~ ({"down", "up"} \subseteq efs) /\ a.bits \in Nat \ {0}
    BY <1>1
  <2> HIDE DEF efs
  <2>2. /\ low \in Int /\ high \in Int /\ low <= high
        /\ ("integers" \notin efs /\ "down" \in efs) => low = a.low
        /\ ("integers" \notin efs /\ "up" \in efs) => high = a.high
    BY <1>2, <2>1, EndsTyped
  <2>3. "integers" \in efs => low = a.low /\ high - low = 4 * (t * t)
    <3>1. t = TopStep(a.bits)
      BY DEF TopStep
    <3>2. "integers" \in efs => low = a.low /\ high - low = WholeRange(a.bits)
      BY <1>2, <2>1, EndsTyped
    <3> HIDE DEF t, low, high, ends, efs
    <3> QED
      BY <3>1, <3>2 DEF WholeRange
  <2> QED
    BY <2>2, <2>3
<1>4. /\ "integers" \in a.flags => efs = {"integers"}
      /\ "integers" \notin a.flags =>
           /\ "integers" \notin efs
           /\ "down" \in a.flags => "down" \in efs
           /\ "up" \in a.flags => "up" \in efs
  BY <1>2, FlagsKept
<1>5. \A v \in 0 .. t : StepAt(low, high, a.bits, v) \in Decodable(q.qf)
  BY DecodesSteps
<1>6. ("zero" \in a.flags /\ "integers" \notin a.flags /\ a.low <= 0 /\ a.high >= 0) =>
        "zero" \in efs \/ (a.low = 0 /\ "down" \in efs) \/ (a.high = 0 /\ "up" \in efs)
  BY <1>2, ZeroKept
<1>7. 0 \in Quantize(0, a.bits, ends) => \E v \in 0 .. t : 0 = StepAt(low, high, a.bits, v)
  <2> HIDE DEF ends
  <2> QED
    BY <1>1, <1>3, QuantizeIsStep DEF low, high
<1> HIDE DEF efs, ends, low, high
<1>8. low \in Decodable(q.qf) /\ high \in Decodable(q.qf)
  <2>1. 0 \in 0 .. t /\ t \in 0 .. t
    BY <1>1, ScaleTyped
  <2>2. StepAt(low, high, a.bits, 0) = low /\ StepAt(low, high, a.bits, t) = high
    <3>1. t = TopStep(a.bits)
      BY DEF TopStep
    <3>2. low \in Int /\ high \in Int /\ low <= high /\ a.bits \in Nat \ {0}
      BY <1>1, <1>3
    <3>3. StepAt(low, high, a.bits, 0) = low /\ StepAt(low, high, a.bits, TopStep(a.bits)) = high
      BY <3>2, EndSteps
    <3> QED
      BY <3>1, <3>3
  <2> HIDE DEF t
  <2> QED
    BY <1>5, <2>1, <2>2
<1>9. "zero" \in q.qf.flags => 0 \in Decodable(q.qf)
  BY DEF Decodable, DecodeExact
<1>10. CASE "integers" \in a.flags
  <2>1. "integers" \in efs
    BY <1>4, <1>10
  <2>2. \E v \in 0 .. t : StepAt(low, high, a.bits, v) = low + 2 * Scale(a.bits)
    BY <1>1, <1>3, <2>1, SecondInteger
  <2> HIDE DEF t
  <2>3. low + 2 * Scale(a.bits) \in Decodable(q.qf)
    BY <1>5, <2>2
  <2> QED
    BY <1>3, <1>8, <1>10, <2>1, <2>3
<1>11. CASE "integers" \notin a.flags
  <2> HIDE DEF t
  <2>1. 0 \in Quantize(0, a.bits, ends) => 0 \in Decodable(q.qf)
    BY <1>5, <1>7
  <2>2. ("zero" \in a.flags /\ a.low <= 0 /\ a.high >= 0) => 0 \in Decodable(q.qf)
    BY <1>1, <1>3, <1>4, <1>6, <1>8, <1>9, <1>11, <2>1
  <2> QED
    BY <1>3, <1>4, <1>8, <1>11, <2>2
<1> QED
  BY <1>10, <1>11

-----------------------------------------------------------------------------
\* The first state and every step satisfy the invariant.
LEMMA FloatInvHolds == FloatSpec => []FloatInv
<1>1. FloatInit => FloatInv
  BY DEF FloatInit, FloatInv, Nothing
<1>2. FloatInv /\ [FloatNext]_floatVars => FloatInv'
  <2> SUFFICES ASSUME FloatInv, [FloatNext]_floatVars PROVE FloatInv'
    OBVIOUS
  <2>1. CASE Announce
    <3>1. asked = Nothing /\ quantized = Nothing /\ UNCHANGED <<quantized, value>>
      BY <2>1 DEF Announce, FloatInv
    <3>2. value.is # "read"
      BY <3>1 DEF FloatInv, Nothing
    <3>3. AskedFor(asked')
      <4>1. PICK bits \in BitCounts, flags \in SUBSET EncodeFlags, low \in Halves, high \in Halves :
              /\ low <= high
              /\ asked' = [is |-> "asked", bits |-> bits, flags |-> flags,
                           low |-> low * Scale(bits), high |-> high * Scale(bits)]
        BY <2>1 DEF Announce
      <4>2. bits \in Nat \ {0} /\ low \in Int /\ high \in Int
        BY FloatAssumption
      <4> DEFINE sc == Scale(bits)
      <4>3. sc \in Nat \ {0}
        BY <4>2, ScaleTyped
      <4> HIDE DEF sc
      <4>4. sc * low <= sc * high /\ low * sc = sc * low /\ high * sc = sc * high
            /\ low * sc \in Int /\ high * sc \in Int
        BY <4>1, <4>2, <4>3, MulMono
      <4>5. low * sc <= high * sc
        BY <4>4
      <4>6. asked'.low = low * sc /\ asked'.high = high * sc
            /\ asked'.is = "asked" /\ asked'.bits = bits /\ asked'.flags = flags
        BY <4>1 DEF sc
      <4>7. \E h \in Int : asked'.low = h * Scale(asked'.bits)
        BY <4>2, <4>6 DEF sc
      <4> QED
        BY <4>4, <4>5, <4>6, <4>7 DEF AskedFor
    <3> QED
      BY <3>1, <3>2, <3>3 DEF FloatInv, Nothing
  <2>2. CASE Construct
    <3>1. AskedFor(asked) /\ UNCHANGED <<asked, value>> /\ quantized = Nothing /\ asked # Nothing
      BY <2>2 DEF Construct, FloatInv
    <3>2. value.is # "read"
      BY <3>1 DEF FloatInv, Nothing
    <3>3. quantized'.is = "error" \/ BuiltFor(asked, quantized')
      BY <2>2 DEF Construct, BuiltFor
    <3>4. BuiltFor(asked, quantized') => quantized'.is = "built"
      BY DEF BuiltFor
    <3> QED
      BY <3>1, <3>2, <3>3, <3>4 DEF FloatInv
  <2>3. CASE DecodeValue
    <3>1. PICK x \in Decodable(quantized.qf) : value' = Read(x)
      BY <2>3 DEF DecodeValue
    <3>2. value'.x = x
      BY <3>1 DEF Read
    <3> QED
      BY <2>3, <3>1, <3>2 DEF DecodeValue, FloatInv
  <2>4. CASE UNCHANGED floatVars
    BY <2>4 DEF floatVars, FloatInv
  <2> QED
    BY <2>1, <2>2, <2>3, <2>4 DEF FloatNext
<1> QED
  BY <1>1, <1>2, PTL DEF FloatSpec

\* Whatever the flags, what is read lies in the range that was asked for, or begins
\* where it begins, for every number of bits and every range.
THEOREM FloatsReadInRange == FloatSpec => []ReadsInRange
<1>1. FloatInv => ReadsInRange
  <2> SUFFICES ASSUME FloatInv, value.is = "read"
               PROVE  asked.low <= value.x /\ ("integers" \notin asked.flags => value.x <= asked.high)
    BY DEF ReadsInRange
  <2>1. quantized.is = "built" /\ value.x \in Decodable(quantized.qf)
    BY DEF FloatInv
  <2>2. AskedFor(asked) /\ BuiltFor(asked, quantized)
    BY <2>1 DEF FloatInv, Nothing
  <2> QED
    BY <2>1, <2>2, DecodesInRange
<1> QED
  BY <1>1, FloatInvHolds, PTL

\* What the flags promise to be exact is, however they are combined and whichever of
\* them were found unnecessary.
THEOREM FloatsKeepExactValues == FloatSpec => []ExactValuesKept
<1>1. FloatInv => ExactValuesKept
  <2> SUFFICES ASSUME FloatInv, quantized.is = "built" PROVE ExactValuesKept
    BY DEF ExactValuesKept
  <2>2. AskedFor(asked) /\ BuiltFor(asked, quantized)
    BY DEF FloatInv, Nothing
  <2> QED
    BY <2>2, DecodesExactly DEF ExactValuesKept, CanRead, One
<1> QED
  BY <1>1, FloatInvHolds, PTL

-----------------------------------------------------------------------------
(* Numbers and their bits.                                                  *)

\* The function by which NumberOf is defined.
Sums(h, x, n) ==
  h = [k \in 0 .. n |->
         IF k = 0 THEN 0 ELSE h[k - 1] + (IF k - 1 \in x THEN 2 ^ (k - 1) ELSE 0)]

\* There is one for every number of bits.
LEMMA SumsExists ==
  ASSUME NEW x
  PROVE  \A n \in Nat : \E h : Sums(h, x, n)
<1> DEFINE G == {n \in Nat : \E h : Sums(h, x, n)}
           w(k) == IF k - 1 \in x THEN 2 ^ (k - 1) ELSE 0
<1>1. 0 \in G
  <2> DEFINE h == [k \in 0 .. 0 |-> 0]
  <2>1. h = [k \in 0 .. 0 |-> IF k = 0 THEN 0 ELSE h[k - 1] + w(k)]
    OBVIOUS
  <2> QED
    BY <2>1 DEF Sums
<1>2. ASSUME NEW n \in Nat, n \in G PROVE n + 1 \in G
  <2>1. PICK h : Sums(h, x, n)
    BY <1>2
  <2> HIDE DEF w
  <2>2. h = [k \in 0 .. n |-> IF k = 0 THEN 0 ELSE h[k - 1] + w(k)]
    BY <2>1 DEF Sums, w
  <2> DEFINE g == [k \in 0 .. n + 1 |-> IF k = n + 1 THEN h[n] + w(n + 1) ELSE h[k]]
             f == [k \in 0 .. n + 1 |-> IF k = 0 THEN 0 ELSE g[k - 1] + w(k)]
  <2>3. ASSUME NEW k \in 0 .. n + 1 PROVE g[k] = IF k = 0 THEN 0 ELSE g[k - 1] + w(k)
    <3>1. CASE k = n + 1
      <4>1. k # 0 /\ k - 1 = n /\ n \in 0 .. n + 1 /\ n # n + 1
        BY <3>1
      <4>2. g[n] = h[n] /\ g[k] = h[n] + w(n + 1)
        BY <3>1, <4>1
      <4> QED
        BY <3>1, <4>1, <4>2
    <3>2. CASE k # n + 1
      <4>1. k \in 0 .. n /\ (k # 0 => k - 1 \in 0 .. n + 1 /\ k - 1 # n + 1)
        BY <3>2
      <4>2. g[k] = h[k] /\ (k # 0 => g[k - 1] = h[k - 1])
        BY <3>2, <4>1
      <4>3. h[k] = IF k = 0 THEN 0 ELSE h[k - 1] + w(k)
        BY <2>2, <4>1
      <4> QED
        BY <4>2, <4>3
    <3> QED
      BY <3>1, <3>2
  <2>4. g = f
    <3>1. \A k \in 0 .. n + 1 : g[k] = f[k]
      BY <2>3
    <3> QED
      BY <3>1
  <2>5. Sums(g, x, n + 1)
    BY <2>4 DEF Sums, w
  <2> QED
    BY <2>5
<1>3. \A n \in Nat : n \in G
  <2> HIDE DEF G
  <2> QED
    BY <1>1, <1>2, NaturalInduction
<1> QED
  BY <1>3

\* NumberOf is its last value.
LEMMA NumberDefined ==
  ASSUME NEW x, NEW n \in Nat
  PROVE  \E h : Sums(h, x, n) /\ NumberOf(x, n) = h[n]
<1> DEFINE h == CHOOSE f : f = [k \in 0 .. n |->
                  IF k = 0 THEN 0 ELSE f[k - 1] + (IF k - 1 \in x THEN 2 ^ (k - 1) ELSE 0)]
<1>1. Sums(h, x, n)
  BY SumsExists DEF Sums
<1>2. NumberOf(x, n) = h[n]
  BY DEF NumberOf
<1> QED
  BY <1>1, <1>2

\* A number is twice its half, and its lowest bit.
LEMMA Halved ==
  ASSUME NEW p \in Nat \ {0}, NEW v \in Nat
  PROVE  /\ v \div p \in Nat /\ (v \div p) % 2 \in {0, 1}
         /\ v \div (p + p) \in Nat
         /\ v \div p = 2 * (v \div (p + p)) + ((v \div p) % 2)
<1> DEFINE a == v \div p
           r == v % p
           q == a \div 2
           b == a % 2
<1>1. a \in Int /\ r \in 0 .. p - 1 /\ v = p * a + r
  BY DivMod
<1>2. a \in Nat
  <2>1. 0 \div p = 0
    <3>1. 0 = p * 0 + 0
      OBVIOUS
    <3> QED
      BY <3>1, DivIs
  <2> QED
    BY <1>1, <2>1, DivMono
<1>3. q \in Int /\ b \in 0 .. 1 /\ a = 2 * q + b
  <2> HIDE DEF a
  <2> QED
    BY <1>2, DivMod
<1> HIDE DEF a, r, q, b
<1>4. q \in Nat
  BY <1>2, <1>3
<1>5. v = (p + p) * q + (p * b + r) /\ p * b + r \in 0 .. (p + p) - 1
  <2>1. CASE b = 0
    BY <1>1, <1>3, <1>4, <2>1
  <2>2. CASE b = 1
    BY <1>1, <1>3, <1>4, <2>2
  <2> QED
    BY <1>3, <2>1, <2>2
<1>6. v \div (p + p) = q
  <2> DEFINE S == p + p
             t == p * b + r
  <2>1. S \in Nat \ {0} /\ t \in 0 .. S - 1 /\ v = S * q + t
    BY <1>5
  <2> HIDE DEF S, t
  <2>2. v \div S = q
    BY <1>4, <2>1, DivIs
  <2> QED
    BY <2>2 DEF S
<1>7. a \in Nat /\ b \in {0, 1} /\ q \in Nat /\ a = 2 * q + b
  BY <1>2, <1>3, <1>4
<1>8. a = v \div p /\ b = (v \div p) % 2
  BY DEF a, b
<1> QED
  BY <1>6, <1>7, <1>8

\* A number is what its bits say.
LEMMA NumberOfBits ==
  ASSUME NEW n \in Nat, NEW v \in Nat, v < 2 ^ n
  PROVE  NumberOf({i \in 0 .. n - 1 : (v \div 2 ^ i) % 2 = 1}, n) = v
<1> DEFINE x == {i \in 0 .. n - 1 : (v \div 2 ^ i) % 2 = 1}
<1>1. PICK h : Sums(h, x, n) /\ NumberOf(x, n) = h[n]
  BY NumberDefined
<1> DEFINE G == {k \in Nat : k <= n => h[k] \in Nat /\ v = 2 ^ k * (v \div 2 ^ k) + h[k]}
<1>2. 0 \in G
  <2>1. h[0] = 0
    BY <1>1 DEF Sums
  <2>2. v \div 1 = v
    OBVIOUS
  <2> QED
    BY <2>1, <2>2, SmallPowers
<1>3. ASSUME NEW k \in Nat, k \in G PROVE k + 1 \in G
  <2> SUFFICES ASSUME k + 1 <= n
               PROVE  h[k + 1] \in Nat /\ v = 2 ^ (k + 1) * (v \div 2 ^ (k + 1)) + h[k + 1]
    OBVIOUS
  <2> DEFINE p == 2 ^ k
             a == v \div p
             q == v \div (p + p)
             b == a % 2
  <2>1. p \in Nat \ {0} /\ 2 ^ (k + 1) = p + p
    BY PowerPositive, PowerDoubles
  <2>2. a \in Nat /\ b \in {0, 1} /\ q \in Nat /\ a = 2 * q + b
    <3> HIDE DEF p
    <3> QED
      BY <2>1, Halved
  <2>3. h[k] \in Nat /\ v = p * a + h[k]
    BY <1>3
  <2>4. k \in x <=> b = 1
    OBVIOUS
  <2>5. h[k + 1] = h[k] + (IF k \in x THEN p ELSE 0)
    <3>1. k + 1 \in 0 .. n /\ k + 1 # 0 /\ (k + 1) - 1 = k
      OBVIOUS
    <3> HIDE DEF x
    <3>2. h[k + 1] = IF k + 1 = 0 THEN 0
             ELSE h[(k + 1) - 1] + (IF (k + 1) - 1 \in x THEN 2 ^ ((k + 1) - 1) ELSE 0)
      BY <1>1, <3>1 DEF Sums
    <3> QED
      BY <3>1, <3>2
  <2> HIDE DEF p, a, q, b, x
  <2>6. h[k + 1] = h[k] + p * b
    BY <2>1, <2>2, <2>3, <2>4, <2>5
  <2>7. h[k + 1] \in Nat /\ v = (p + p) * q + h[k + 1]
    <3> DEFINE s == h[k]
               t == h[k + 1]
    <3>1. s \in Nat /\ t = s + p * b /\ v = p * a + s
      BY <2>3, <2>6
    <3> HIDE DEF s, t
    <3>2. CASE b = 0
      <4>1. t = s /\ a = 2 * q
        BY <2>1, <2>2, <3>1, <3>2
      <4>2. v = (p + p) * q + t /\ t \in Nat
        BY <2>1, <2>2, <3>1, <4>1
      <4> QED
        BY <4>2 DEF t
    <3>3. CASE b = 1
      <4>1. t = s + p /\ a = 2 * q + 1
        BY <2>1, <2>2, <3>1, <3>3
      <4>2. v = (p + p) * q + t /\ t \in Nat
        BY <2>1, <2>2, <3>1, <4>1
      <4> QED
        BY <4>2 DEF t
    <3> QED
      BY <2>2, <3>2, <3>3
  <2> QED
    BY <2>1, <2>7 DEF q
<1>4. n \in G
  <2> HIDE DEF G
  <2> QED
    BY <1>2, <1>3, NaturalInduction
<1>5. v \div 2 ^ n = 0
  <2> DEFINE p == 2 ^ n
  <2>1. p \in Nat \ {0} /\ v < p
    BY PowerPositive
  <2> HIDE DEF p
  <2>2. v = p * 0 + v /\ v \in 0 .. p - 1
    BY <2>1
  <2>3. v \div p = 0
    BY <2>1, <2>2, DivIs
  <2> QED
    BY <2>3 DEF p
<1>6. 2 ^ n * 0 = 0
  <2> DEFINE p == 2 ^ n
  <2>1. p \in Nat
    BY PowerPositive
  <2> HIDE DEF p
  <2>2. p * 0 = 0
    BY <2>1
  <2> QED
    BY <2>2 DEF p
<1>7. h[n] \in Nat /\ v = 0 + h[n]
  BY <1>4, <1>5, <1>6
<1> QED
  BY <1>1, <1>7

\* The bits c are written from position p on.
Coded(w, p, c) ==
  /\ p \in Nat /\ c \in Seq(BOOLEAN) /\ p + Len(c) <= Len(w)
  /\ \A i \in 1 .. Len(c) : w[p + i] = c[i]

\* What a reader holds: the data, and the memory behind it.
DataTyped == written \in Seq(BOOLEAN) /\ available \in Nat /\ behind \in Nat

\* A read at p, and where it ends: forward, and where the code of v ends with
\* the value v if either of them is within the data.
Forward(r, p) == r.end \in Nat /\ r.end >= p
Within(r, p, c) == r.end <= available \/ p + Len(c) <= available
Reads(r, p, c, v) ==
  /\ Forward(r, p)
  /\ Within(r, p, c) => r.end = p + Len(c) /\ r.fits /\ r.value = v

\* A bit of a code that is in the data is read.
LEMMA BitRead ==
  ASSUME DataTyped, NEW p, NEW c, Coded(written, p, c),
         NEW i \in 0 .. Len(c) - 1, p + i < available
  PROVE  Bit(p + i) <=> c[i + 1]
<1>1. p \in Nat /\ c \in Seq(BOOLEAN) /\ p + Len(c) <= Len(written) /\ available \in Nat
  BY DEF Coded, DataTyped
<1>2. Len(c) \in Nat /\ Len(written) \in Nat
  BY <1>1, LenProperties DEF DataTyped
<1>3. p + i < Len(written) /\ i + 1 \in 1 .. Len(c)
  BY <1>1, <1>2
<1>4. written[p + (i + 1)] = c[i + 1]
  BY <1>3 DEF Coded
<1>5. p + (i + 1) = (p + i) + 1
  BY <1>1
<1> QED
  BY <1>3, <1>4, <1>5 DEF Bit

\* So are several of them.
LEMMA BitsRead ==
  ASSUME DataTyped, NEW p, NEW c, Coded(written, p, c),
         NEW n \in Nat, NEW m \in Nat, m + n <= Len(c), p + (m + n) <= available
  PROVE  Ubit64(p + m, n) = {i \in 0 .. n - 1 : c[m + i + 1]}
<1> SUFFICES ASSUME NEW i \in 0 .. n - 1 PROVE Bit((p + m) + i) <=> c[m + i + 1]
  BY DEF Ubit64
<1>1. p \in Nat /\ Len(c) \in Nat /\ available \in Nat
  BY LenProperties DEF Coded, DataTyped
<1>2. m + i \in 0 .. Len(c) - 1 /\ p + (m + i) < available /\ p + (m + i) = (p + m) + i
  BY <1>1
<1>3. Bit(p + (m + i)) <=> c[(m + i) + 1]
  BY <1>2, BitRead
<1> QED
  BY <1>2, <1>3

\* The codes of two values, one behind the other.
LEMMA CodedParts ==
  ASSUME NEW w, NEW p, NEW c \in Seq(BOOLEAN), NEW d \in Seq(BOOLEAN), Coded(w, p, c \o d),
         w \in Seq(BOOLEAN)
  PROVE  /\ Coded(w, p, c) /\ Coded(w, p + Len(c), d)
         /\ Len(c) \in Nat /\ Len(d) \in Nat /\ Len(c \o d) = Len(c) + Len(d)
<1>1. c \o d \in Seq(BOOLEAN) /\ Len(c \o d) = Len(c) + Len(d) /\ Len(c) \in Nat /\ Len(d) \in Nat
      /\ Len(w) \in Nat
  BY ConcatProperties, LenProperties
<1>2. p \in Nat /\ p + (Len(c) + Len(d)) <= Len(w)
  BY <1>1 DEF Coded
<1>3. ASSUME NEW i \in 1 .. Len(c) PROVE w[p + i] = c[i]
  <2>1. i \in 1 .. Len(c) + Len(d) /\ i <= Len(c)
    BY <1>1
  <2>2. (c \o d)[i] = c[i]
    BY <2>1, ConcatProperties
  <2> QED
    BY <1>1, <2>1, <2>2 DEF Coded
<1>4. ASSUME NEW i \in 1 .. Len(d) PROVE w[(p + Len(c)) + i] = d[i]
  <2> DEFINE k == Len(c) + i
  <2>1. k \in 1 .. Len(c) + Len(d) /\ ~(k <= Len(c)) /\ k - Len(c) = i
    BY <1>1
  <2>2. (c \o d)[k] = d[k - Len(c)]
    BY <2>1, ConcatProperties
  <2>3. w[p + k] = (c \o d)[k]
    BY <1>1, <2>1 DEF Coded
  <2>4. p + k = (p + Len(c)) + i
    BY <1>1, <1>2
  <2> HIDE DEF k
  <2> QED
    BY <2>1, <2>2, <2>3, <2>4
<1> QED
  BY <1>1, <1>2, <1>3, <1>4 DEF Coded

\* More bits behind do not change a code, and are one themselves.
LEMMA CodedMore ==
  ASSUME NEW w \in Seq(BOOLEAN), NEW d \in Seq(BOOLEAN)
  PROVE  /\ \A p, c : Coded(w, p, c) => Coded(w \o d, p, c)
         /\ Coded(w \o d, Len(w), d)
<1>1. Len(w \o d) = Len(w) + Len(d) /\ Len(w) \in Nat /\ Len(d) \in Nat
  BY ConcatProperties, LenProperties
<1>2. ASSUME NEW p, NEW c, Coded(w, p, c) PROVE Coded(w \o d, p, c)
  <2>1. p \in Nat /\ c \in Seq(BOOLEAN) /\ p + Len(c) <= Len(w) /\ Len(c) \in Nat
    BY <1>2, LenProperties DEF Coded
  <2>2. ASSUME NEW i \in 1 .. Len(c) PROVE (w \o d)[p + i] = c[i]
    <3>1. p + i \in 1 .. Len(w) + Len(d) /\ p + i <= Len(w)
      BY <1>1, <2>1
    <3>2. (w \o d)[p + i] = w[p + i]
      BY <3>1, ConcatProperties
    <3> QED
      BY <1>2, <3>2 DEF Coded
  <2> QED
    BY <1>1, <2>1, <2>2 DEF Coded
<1>3. ASSUME NEW i \in 1 .. Len(d) PROVE (w \o d)[Len(w) + i] = d[i]
  <2> DEFINE k == Len(w) + i
  <2>1. k \in 1 .. Len(w) + Len(d) /\ ~(k <= Len(w)) /\ k - Len(w) = i
    BY <1>1
  <2> HIDE DEF k
  <2>2. (w \o d)[k] = d[k - Len(w)]
    BY <2>1, ConcatProperties
  <2> QED
    BY <2>1, <2>2 DEF k
<1> QED
  BY <1>1, <1>2, <1>3 DEF Coded

-----------------------------------------------------------------------------
(* Bits, and numbers of a fixed width.                                      *)

\* The code of a number is its bits.
LEMMA BitsOfTyped ==
  ASSUME NEW x, NEW n \in Nat
  PROVE  /\ BitsOf(x, n) \in Seq(BOOLEAN) /\ Len(BitsOf(x, n)) = n
         /\ \A i \in 1 .. n : BitsOf(x, n)[i] <=> i - 1 \in x
<1> DEFINE f == BitsOf(x, n)
<1>1. f = [i \in 1 .. n |-> i - 1 \in x]
  BY DEF BitsOf
<1>2. f \in [1 .. n -> BOOLEAN] /\ DOMAIN f = 1 .. n
  <2>1. \A i \in 1 .. n : (i - 1 \in x) \in BOOLEAN
    OBVIOUS
  <2>2. DOMAIN f = 1 .. n /\ f = [i \in DOMAIN f |-> f[i]]
    BY <1>1, Zenon
  <2>3. ASSUME NEW i \in 1 .. n PROVE f[i] \in BOOLEAN
    <3>1. f[i] = (i - 1 \in x)
      BY <1>1, Zenon
    <3> QED
      BY <2>1, <3>1, Zenon
  <2> HIDE DEF f
  <2> QED
    BY <2>2, <2>3
<1>3. \A i \in 1 .. n : f[i] <=> i - 1 \in x
  BY <1>1, Zenon
<1> HIDE DEF f
<1>4. f \in Seq(BOOLEAN)
  BY <1>2
<1>5. Len(f) = n
  BY <1>2, <1>4, LenProperties
<1> QED
  BY <1>3, <1>4, <1>5 DEF f

\* What such a code holds is read.
LEMMA UbitRead ==
  ASSUME DataTyped, NEW p, NEW n \in Nat, NEW x, x \subseteq 0 .. n - 1,
         Coded(written, p, BitsOf(x, n)), p + n <= available
  PROVE  Ubit64(p, n) = x
<1>1. p \in Nat /\ available \in Nat
  BY DEF Coded, DataTyped
<1>2. ASSUME NEW i \in 0 .. n - 1 PROVE Bit(p + i) <=> i \in x
  <2>1. i \in 0 .. Len(BitsOf(x, n)) - 1 /\ p + i < available
    BY <1>1, BitsOfTyped
  <2>2. Bit(p + i) <=> BitsOf(x, n)[i + 1]
    BY <2>1, BitRead
  <2>3. i + 1 \in 1 .. n /\ (i + 1) - 1 = i
    OBVIOUS
  <2> QED
    BY <2>2, <2>3, BitsOfTyped
<1> QED
  BY <1>2 DEF Ubit64

\* A fixed number of bits ends at or behind its start.
LEMMA FixedForward ==
  ASSUME NEW p \in Nat, NEW n \in Nat
  PROVE  Forward(Fixed(p, n), p)
  BY DEF Forward, Fixed, Result

\* It reads the number whose bits are there.
LEMMA FixedReads ==
  ASSUME DataTyped, NEW p, NEW n \in Nat, NEW x, x \subseteq 0 .. n - 1,
         Coded(written, p, BitsOf(x, n))
  PROVE  Reads(Fixed(p, n), p, BitsOf(x, n), x)
<1>1. p \in Nat /\ Len(BitsOf(x, n)) = n
  BY BitsOfTyped DEF Coded
<1>2. Fixed(p, n).end = p + n /\ Fixed(p, n).value = Ubit64(p, n) /\ Fixed(p, n).fits
  BY DEF Fixed, Result
<1>3. Forward(Fixed(p, n), p)
  BY <1>1, FixedForward
<1>4. CASE p + n <= available
  BY <1>1, <1>2, <1>3, <1>4, UbitRead DEF Reads
<1>5. CASE ~(p + n <= available)
  BY <1>1, <1>2, <1>3, <1>5 DEF Reads, Within
<1> QED
  BY <1>4, <1>5

\* The least of some numbers is one of them, and none is less.
LEMMA MinIs ==
  ASSUME NEW T \in SUBSET Nat, T # {}
  PROVE  Min(T) \in T /\ \A m \in T : Min(T) <= m
<1>1. \E n \in T : \A m \in T : n =< m
  BY LeastNatural
<1> QED
  BY <1>1 DEF Min

-----------------------------------------------------------------------------
(* ubitvar: four bits, two flags that say how many more there are.          *)

\* Bits 4 and 5 of a number of variable length say how many follow.
LEMMA MoreBitsAre ==
  ASSUME NEW ret
  PROVE  /\ 4 \notin ret /\ 5 \notin ret => MoreBits(ret) = 0
         /\ 4 \in ret /\ 5 \notin ret => MoreBits(ret) = 4
         /\ 4 \notin ret /\ 5 \in ret => MoreBits(ret) = 8
         /\ 4 \in ret /\ 5 \in ret => MoreBits(ret) = 28
<1> DEFINE s == ret \cap {4, 5}
<1>1. {4} # {5} /\ {4} # {4, 5} /\ {5} # {4, 5} /\ {4} # {} /\ {5} # {} /\ {4, 5} # {}
  OBVIOUS
<1>2. /\ 4 \notin ret /\ 5 \notin ret => s = {}
      /\ 4 \in ret /\ 5 \notin ret => s = {4}
      /\ 4 \notin ret /\ 5 \in ret => s = {5}
      /\ 4 \in ret /\ 5 \in ret => s = {4, 5}
  OBVIOUS
<1>3. MoreBits(ret) =
        CASE s = {} -> 0 [] s = {4} -> 4 [] s = {5} -> 8 [] s = {4, 5} -> 28
  BY DEF MoreBits
<1> HIDE DEF s
<1> QED
  BY <1>1, <1>2, <1>3

\* Six bits and perhaps more are read.
LEMMA UbitvarForward ==
  ASSUME NEW p \in Nat
  PROVE  Forward(Ubitvar(p), p) /\ Ubitvar(p).end >= p + 6
<1> DEFINE ret == Ubit64(p, 6)
<1>1. MoreBits(ret) \in {0, 4, 8, 28}
  <2> HIDE DEF ret
  <2> QED
    BY MoreBitsAre
<1>2. Ubitvar(p).end = p + 6 + MoreBits(ret)
  BY DEF Ubitvar, Result
<1> HIDE DEF ret
<1> QED
  BY <1>1, <1>2 DEF Forward

\* Every code of a value is read.
LEMMA UbitvarReads ==
  ASSUME DataTyped, NEW p, NEW x, x \subseteq 0 .. 31, NEW c \in UbitvarCodes(x), Coded(written, p, c)
  PROVE  Reads(Ubitvar(p), p, c, x)
<1>1. PICK n \in {0, 4, 8, 28} : /\ x \subseteq 0 .. n + 3
          /\ c = BitsOf(x \cap 0 .. 3, 4) \o <<n \in {4, 28}, n \in {8, 28}>> \o BitsOf(ShiftRight(x, 4), n)
  BY DEF UbitvarCodes
<1> DEFINE bottom == x \cap 0 .. 3
           low == BitsOf(bottom, 4)
           a == n \in {4, 28}
           b == n \in {8, 28}
           flags == <<a, b>>
           high == BitsOf(ShiftRight(x, 4), n)
           head == low \o flags
           ret == Ubit64(p, 6)
           y == ShiftRight(x, 4)
<1>2. low \in Seq(BOOLEAN) /\ Len(low) = 4 /\ (\A i \in 1 .. 4 : low[i] <=> i - 1 \in bottom)
  <2> HIDE DEF bottom
  <2> QED
    BY BitsOfTyped
<1>3. flags \in Seq(BOOLEAN) /\ Len(flags) = 2 /\ (flags[1] <=> a) /\ (flags[2] <=> b)
  <2>1. a \in BOOLEAN /\ b \in BOOLEAN
    OBVIOUS
  <2> HIDE DEF a, b
  <2> QED
    BY <2>1
<1>4. high \in Seq(BOOLEAN) /\ Len(high) = n
  BY BitsOfTyped
<1>5. c = head \o high
  BY <1>1
<1>6. p \in Nat /\ available \in Nat /\ written \in Seq(BOOLEAN)
  BY DEF Coded, DataTyped
<1>7. y \subseteq 0 .. n - 1 /\ (x \cap 0 .. 3) \union ShiftLeft(y, 4) = x
  <2>1. ASSUME NEW i \in y PROVE i \in 0 .. n - 1 /\ i + 4 \in x
    <3>1. PICK k \in x \ 0 .. 4 - 1 : i = k - 4
      BY DEF ShiftRight
    <3>2. k \in 0 .. n + 3 /\ k > 3
      BY <1>1, <3>1
    <3> QED
      BY <3>1, <3>2
  <2>2. ASSUME NEW k \in x, k \notin 0 .. 3 PROVE k - 4 \in y /\ (k - 4) + 4 = k
    <3>1. k \in 0 .. n + 3 /\ k \notin 0 .. 4 - 1
      BY <1>1, <2>2
    <3> QED
      BY <3>1 DEF ShiftRight
  <2> HIDE DEF y
  <2> QED
    BY <2>1, <2>2 DEF ShiftLeft
<1> HIDE DEF low, flags, high, y
<1>8. /\ head \in Seq(BOOLEAN) /\ Len(head) = 6
      /\ \A i \in 1 .. 6 : head[i] = IF i <= 4 THEN low[i] ELSE flags[i - 4]
  <2>1. head \in Seq(BOOLEAN) /\ Len(head) = Len(low) + Len(flags)
        /\ \A i \in 1 .. Len(low) + Len(flags) :
             head[i] = IF i <= Len(low) THEN low[i] ELSE flags[i - Len(low)]
    <3>1. low \in Seq(BOOLEAN) /\ flags \in Seq(BOOLEAN)
      BY <1>2, <1>3
    <3> QED
      BY <3>1, ConcatProperties, Zenon
  <2> HIDE DEF head
  <2>2. Len(low) + Len(flags) = 6
    BY <1>2, <1>3
  <2> QED
    BY <1>2, <2>1, <2>2
<1> HIDE DEF head
<1>9. Coded(written, p, head) /\ Coded(written, p + 6, high) /\ Len(c) = 6 + n
  <2>1. Coded(written, p, head \o high)
    BY <1>5
  <2>2. Coded(written, p, head) /\ Coded(written, p + Len(head), high)
        /\ Len(head \o high) = Len(head) + Len(high)
    <3>1. head \in Seq(BOOLEAN) /\ high \in Seq(BOOLEAN) /\ written \in Seq(BOOLEAN)
      BY <1>4, <1>6, <1>8
    <3> QED
      BY <2>1, <3>1, CodedParts
  <2> QED
    BY <1>4, <1>5, <1>8, <2>2
<1>10. SUFFICES ASSUME Within(Ubitvar(p), p, c)
                PROVE  /\ Ubitvar(p).end = p + Len(c) /\ Ubitvar(p).fits
                       /\ Ubitvar(p).value = x
  BY <1>6, UbitvarForward DEF Reads
<1>11. p + 6 <= available
  <2>1. Ubitvar(p).end >= p + 6 /\ Ubitvar(p).end \in Nat
    BY <1>6, UbitvarForward DEF Forward
  <2> QED
    BY <1>6, <1>9, <1>10, <2>1 DEF Within
<1>12. ASSUME NEW i \in 0 .. 5 PROVE i \in ret <=> head[i + 1]
  <2>1. Bit(p + i) <=> head[i + 1]
    <3>1. i \in 0 .. Len(head) - 1 /\ p + i < available
      BY <1>6, <1>8, <1>11
    <3> QED
      BY <1>6, <1>9, <3>1, BitRead
  <2> QED
    BY <2>1 DEF Ubit64
<1>13. (4 \in ret <=> a) /\ (5 \in ret <=> b) /\ ret \cap 0 .. 3 = bottom
  <2>1. head[5] = flags[1] /\ head[6] = flags[2]
    BY <1>8
  <2>2. (4 \in ret <=> head[5]) /\ (5 \in ret <=> head[6])
    BY <1>12
  <2>3. ASSUME NEW i \in 0 .. 3 PROVE i \in ret <=> i \in x
    <3>1. i + 1 \in 1 .. 6 /\ i + 1 <= 4 /\ i \in 0 .. 5 /\ i + 1 \in 1 .. 4 /\ (i + 1) - 1 = i
      OBVIOUS
    <3>2. i \in ret <=> head[i + 1]
      BY <1>12, <3>1
    <3>3. head[i + 1] = low[i + 1]
      BY <1>8, <3>1
    <3>4. low[i + 1] <=> i \in bottom
      BY <1>2, <3>1
    <3> QED
      BY <3>2, <3>3, <3>4
  <2> HIDE DEF ret
  <2> QED
    BY <1>3, <2>1, <2>2, <2>3
<1>14. MoreBits(ret) = n
  <2> HIDE DEF ret
  <2> QED
    BY <1>13, MoreBitsAre
<1>15. Ubitvar(p).end = p + 6 + n /\ Ubitvar(p).fits
       /\ Ubitvar(p).value = (ret \cap 0 .. 3) \union ShiftLeft(Ubit64(p + 6, n), 4)
  BY <1>14 DEF Ubitvar, Result
<1>16. Ubitvar(p).end = p + Len(c) /\ (p + 6) + n <= available
  BY <1>6, <1>9, <1>10, <1>15 DEF Within
<1>17. Ubit64(p + 6, n) = y
  BY <1>7, <1>9, <1>16, UbitRead DEF high, y
<1> QED
  BY <1>7, <1>13, <1>15, <1>16, <1>17 DEF bottom

\* A function to truth values on 1 .. n is a sequence of them.
LEMMA TruthSequence ==
  ASSUME NEW n \in Nat, NEW f, f = [i \in 1 .. n |-> f[i]], \A i \in 1 .. n : f[i] \in BOOLEAN
  PROVE  f \in Seq(BOOLEAN) /\ Len(f) = n
<1>1. f \in [1 .. n -> BOOLEAN] /\ DOMAIN f = 1 .. n
  OBVIOUS
<1>2. f \in Seq(BOOLEAN)
  BY <1>1
<1> QED
  BY <1>1, <1>2, LenProperties

-----------------------------------------------------------------------------
(* ubitvarfp: flags say how many bits the number has.                       *)

\* The class of widths that the flags at p say.
FlagsAt(p) == {k \in 1 .. 4 : Bit(p + k - 1)}
ClassAt(p) == Min(FlagsAt(p) \union {5})
FlagCount(class) == IF class <= 4 THEN class ELSE 4
FlagCode(class) == [i \in 1 .. FlagCount(class) |-> i = class]

\* The fifth class has no flag of its own, only four that are not set.
LEMMA FlagsCounted ==
  ASSUME NEW class \in 1 .. 5
  PROVE  Min({class, 4}) = FlagCount(class) /\ FlagCount(class) \in 1 .. 4
<1> DEFINE T == {class, 4}
<1>1. T \in SUBSET Nat /\ T # {}
  OBVIOUS
<1>2. Min(T) \in T /\ \A m \in T : Min(T) <= m
  <2> HIDE DEF T
  <2> QED
    BY <1>1, MinIs
<1>3. (Min(T) = class \/ Min(T) = 4) /\ Min(T) <= class /\ Min(T) <= 4
  BY <1>2
<1> HIDE DEF T
<1>4. Min(T) = FlagCount(class)
  BY <1>3 DEF FlagCount
<1> QED
  BY <1>4 DEF T, FlagCount

\* The class of what is read, and the flag that tells it.
LEMMA ClassTyped ==
  ASSUME NEW p
  PROVE  /\ ClassAt(p) \in 1 .. 5 /\ (ClassAt(p) <= 4 => Bit(p + ClassAt(p) - 1))
         /\ \A k \in 1 .. 4 : Bit(p + k - 1) => ClassAt(p) <= k
<1> DEFINE T == FlagsAt(p) \union {5}
<1>1. T \in SUBSET Nat /\ T # {} /\ 5 \in T
  BY DEF FlagsAt
<1>2. ClassAt(p) \in T /\ \A m \in T : ClassAt(p) <= m
  <2> HIDE DEF T
  <2>1. Min(T) \in T /\ \A m \in T : Min(T) <= m
    BY <1>1, MinIs
  <2> QED
    BY <2>1 DEF T, ClassAt
<1>3. \A k \in 1 .. 4 : k \in FlagsAt(p) <=> Bit(p + k - 1)
  BY DEF FlagsAt
<1>4. FlagsAt(p) \subseteq 1 .. 4
  BY DEF FlagsAt
<1> QED
  BY <1>2, <1>3, <1>4

\* The reading in terms of the class.
LEMMA UbitvarfpIs ==
  ASSUME NEW p
  PROVE  /\ Ubitvarfp(p) = Fixed(p + FlagCount(ClassAt(p)), UbitvarfpBits[ClassAt(p)])
         /\ UbitvarfpBits[ClassAt(p)] \in Nat /\ FlagCount(ClassAt(p)) \in 1 .. 4
<1>1. ClassAt(p) \in 1 .. 5
  BY ClassTyped
<1>2. FlagCount(ClassAt(p)) \in 1 .. 4 /\ Min({ClassAt(p), 4}) = FlagCount(ClassAt(p))
  BY <1>1, FlagsCounted
<1>3. Ubitvarfp(p) = Fixed(p + Min({ClassAt(p), 4}), UbitvarfpBits[ClassAt(p)])
  BY DEF Ubitvarfp, ClassAt, FlagsAt
<1>4. UbitvarfpBits[ClassAt(p)] \in Nat
  BY <1>1 DEF UbitvarfpBits
<1> QED
  BY <1>2, <1>3, <1>4

\* It ends at or behind its flags.
LEMMA UbitvarfpForward ==
  ASSUME NEW p \in Nat
  PROVE  Forward(Ubitvarfp(p), p) /\ Ubitvarfp(p).end >= p + FlagCount(ClassAt(p))
<1> DEFINE n == FlagCount(ClassAt(p))
           b == UbitvarfpBits[ClassAt(p)]
<1>1. n \in Nat /\ b \in Nat /\ Ubitvarfp(p) = Fixed(p + n, b)
  BY UbitvarfpIs
<1>2. Ubitvarfp(p).end = (p + n) + b
  <2> HIDE DEF n, b
  <2> QED
    BY <1>1 DEF Fixed, Result
<1> HIDE DEF n, b
<1>3. Forward(Ubitvarfp(p), p) /\ Ubitvarfp(p).end >= p + n
  BY <1>1, <1>2 DEF Forward
<1> QED
  BY <1>3 DEF n

\* The flags that tell a class, as bits.
LEMMA FlagCodeTyped ==
  ASSUME NEW class \in 1 .. 5
  PROVE  /\ FlagCode(class) \in Seq(BOOLEAN) /\ Len(FlagCode(class)) = FlagCount(class)
         /\ \A i \in 1 .. FlagCount(class) : FlagCode(class)[i] <=> i = class
<1> DEFINE f == FlagCode(class)
           n == FlagCount(class)
<1>1. n \in Nat
  BY FlagsCounted
<1>2. f = [i \in 1 .. n |-> i = class]
  BY DEF FlagCode
<1>3. \A i \in 1 .. n : f[i] = (i = class)
  BY <1>2, Zenon
<1>4. f = [i \in 1 .. n |-> f[i]]
  BY <1>2, Zenon
<1> HIDE DEF f, n
<1>5. \A i \in 1 .. n : f[i] \in BOOLEAN
  BY <1>3
<1>6. f \in Seq(BOOLEAN) /\ Len(f) = n
  BY <1>1, <1>4, <1>5, TruthSequence
<1> QED
  BY <1>3, <1>6 DEF f, n

\* The flags of the code are found, one that is missing or too much is not.
LEMMA UbitvarfpReads ==
  ASSUME DataTyped, NEW p, NEW x, NEW c \in UbitvarfpCodes(x), Coded(written, p, c)
  PROVE  Reads(Ubitvarfp(p), p, c, x)
<1>1. PICK class \in 1 .. 5 : /\ x \subseteq 0 .. UbitvarfpBits[class] - 1
          /\ c = [i \in 1 .. Min({class, 4}) |-> i = class] \o BitsOf(x, UbitvarfpBits[class])
  BY DEF UbitvarfpCodes
<1> DEFINE K == ClassAt(p)
           n == FlagCount(class)
           b == UbitvarfpBits[class]
           flags == FlagCode(class)
           code == BitsOf(x, b)
<1>2. n \in 1 .. 4 /\ b \in Nat
  BY FlagsCounted DEF UbitvarfpBits
<1>3. c = flags \o code
  BY <1>1, FlagsCounted DEF FlagCode
<1>4. flags \in Seq(BOOLEAN) /\ Len(flags) = n /\ \A i \in 1 .. n : flags[i] <=> i = class
  BY FlagCodeTyped
<1>5. code \in Seq(BOOLEAN) /\ Len(code) = b
  <2> HIDE DEF b
  <2> QED
    BY <1>2, BitsOfTyped
<1>6. p \in Nat /\ available \in Nat /\ written \in Seq(BOOLEAN)
  BY DEF Coded, DataTyped
<1> HIDE DEF flags, code
<1>7. Coded(written, p, flags) /\ Coded(written, p + n, code) /\ Len(c) = n + b
  <2>1. Coded(written, p, flags \o code)
    BY <1>3
  <2>2. Coded(written, p, flags) /\ Coded(written, p + Len(flags), code)
        /\ Len(flags \o code) = Len(flags) + Len(code)
    <3>1. flags \in Seq(BOOLEAN) /\ code \in Seq(BOOLEAN) /\ written \in Seq(BOOLEAN)
      BY <1>4, <1>5, <1>6
    <3> QED
      BY <2>1, <3>1, CodedParts
  <2> QED
    BY <1>3, <1>4, <1>5, <2>2
<1>8. K \in 1 .. 5 /\ (K <= 4 => Bit(p + K - 1)) /\ (\A k \in 1 .. 4 : Bit(p + k - 1) => K <= k)
  BY ClassTyped
<1>9. SUFFICES ASSUME Within(Ubitvarfp(p), p, c)
               PROVE  /\ Ubitvarfp(p).end = p + Len(c) /\ Ubitvarfp(p).fits
                      /\ Ubitvarfp(p).value = x
  BY <1>6, UbitvarfpForward DEF Reads
<1>10. Ubitvarfp(p).end \in Nat /\ Ubitvarfp(p).end >= p + FlagCount(K)
  BY <1>6, UbitvarfpForward DEF Forward
<1> HIDE DEF K, n, b
<1>11. ASSUME NEW k \in 1 .. 4, k <= K, k <= class PROVE Bit(p + k - 1) <=> k = class
  <2>1. k <= n /\ k <= FlagCount(K)
    BY <1>8, <1>11 DEF n, FlagCount
  <2>2. k \in 1 .. n /\ k - 1 \in 0 .. Len(flags) - 1 /\ (k - 1) + 1 = k /\ p + (k - 1) = p + k - 1
    BY <1>2, <1>4, <1>6, <2>1
  <2>3. FlagCount(K) \in Nat
    BY <1>8, FlagsCounted
  <2>4. p + (k - 1) < available
    BY <1>2, <1>6, <1>7, <1>9, <1>10, <2>1, <2>3 DEF Within
  <2>5. Bit(p + (k - 1)) <=> flags[(k - 1) + 1]
    BY <1>7, <2>2, <2>4, BitRead
  <2> QED
    BY <1>4, <2>2, <2>5
<1>12. K = class
  <2>1. CASE K < class
    <3>1. K \in 1 .. 4 /\ K <= K /\ K <= class
      BY <1>8, <2>1
    <3>2. Bit(p + K - 1) <=> K = class
      BY <1>11, <3>1
    <3> QED
      BY <1>8, <2>1, <3>1, <3>2
  <2>2. CASE class < K
    <3>1. class \in 1 .. 4 /\ class <= K /\ class <= class
      BY <1>8, <2>2
    <3>2. Bit(p + class - 1)
      BY <1>11, <3>1
    <3> QED
      BY <1>8, <2>2, <3>1, <3>2
  <2> QED
    BY <1>8, <2>1, <2>2
<1>13. Ubitvarfp(p) = Fixed(p + n, b)
  BY <1>12, UbitvarfpIs DEF K, n, b
<1>14. Reads(Fixed(p + n, b), p + n, code, x)
  <2>1. x \subseteq 0 .. b - 1
    BY <1>1 DEF b
  <2> QED
    BY <1>2, <1>7, <2>1, FixedReads DEF code
<1>15. p + Len(c) = (p + n) + Len(code)
  BY <1>2, <1>5, <1>6, <1>7
<1> QED
  BY <1>9, <1>13, <1>14, <1>15 DEF Reads, Within

-----------------------------------------------------------------------------
(* Varints: groups of seven bits, and a bit that says whether another follows. *)

Widths == {32, 64}
\* Five groups for 32 bits, ten for 64.
LEMMA GroupCounts == \A width \in Widths : Groups(width) \in Nat \ {0}
<1>1. 38 = 7 * 5 + 3 /\ 70 = 7 * 10 + 0 /\ 32 + 6 = 38 /\ 64 + 6 = 70
  OBVIOUS
<1>2. 38 \div 7 = 5 /\ 70 \div 7 = 10
  BY <1>1, DivIs
<1> QED
  BY <1>1, <1>2 DEF Groups, Widths

\* The last group that the bits at p say.
LastGroups(p, width) ==
  {k \in 0 .. Groups(width) - 1 : k = Groups(width) - 1 \/ ~Bit(p + 8 * k + 7)}
LastGroup(p, width) == Min(LastGroups(p, width))
GroupAt(p, k) == ShiftLeft(Ubit64(p + 8 * k, 7), 7 * k)
GroupsAt(p, n) == UNION {GroupAt(p, k) : k \in 0 .. n}

\* A reader stops at the first group that has no successor, or where no more fit.
LEMMA LastGroupTyped ==
  ASSUME NEW p, NEW width \in Widths
  PROVE  /\ LastGroup(p, width) \in 0 .. Groups(width) - 1
         /\ LastGroup(p, width) = Groups(width) - 1 \/ ~Bit(p + 8 * LastGroup(p, width) + 7)
         /\ \A k \in 0 .. Groups(width) - 1 :
              k = Groups(width) - 1 \/ ~Bit(p + 8 * k + 7) => LastGroup(p, width) <= k
<1> DEFINE T == LastGroups(p, width)
           n == Groups(width)
<1>1. n \in Nat \ {0}
  BY GroupCounts
<1>2. T = {k \in 0 .. n - 1 : k = n - 1 \/ ~Bit(p + 8 * k + 7)}
  BY DEF LastGroups
<1> HIDE DEF T, n
<1>3. T \in SUBSET Nat /\ n - 1 \in T
  BY <1>1, <1>2
<1>4. Min(T) \in T /\ \A m \in T : Min(T) <= m
  BY <1>3, MinIs
<1> QED
  BY <1>2, <1>4 DEF T, n, LastGroup

\* The reading in terms of the last group.
LEMMA UvarintIs ==
  ASSUME NEW p, NEW width
  PROVE  Uvarint(p, width) =
           Result((0 .. width - 1) \cap GroupsAt(p, LastGroup(p, width)),
                  p + 8 * (LastGroup(p, width) + 1))
  BY DEF Uvarint, LastGroup, LastGroups, GroupsAt, GroupAt

\* At least one group is read.
LEMMA UvarintForward ==
  ASSUME NEW p \in Nat, NEW width \in Widths
  PROVE  /\ Forward(Uvarint(p, width), p)
         /\ Uvarint(p, width).end = p + 8 * (LastGroup(p, width) + 1)
<1> DEFINE l == LastGroup(p, width)
<1>1. Uvarint(p, width).end = p + 8 * (l + 1)
  BY UvarintIs DEF Result
<1>2. l \in Nat
  BY LastGroupTyped, GroupCounts
<1> HIDE DEF l
<1>3. Forward(Uvarint(p, width), p)
  BY <1>1, <1>2 DEF Forward
<1> QED
  BY <1>1, <1>3 DEF l

\* The code of so many groups.
GroupsCode(x, groups) ==
  [i \in 1 .. 8 * groups |->
     IF i % 8 = 0 THEN i < 8 * groups ELSE i - 1 - (i \div 8) \in x]

\* The code of a number in groups, as bits.
LEMMA GroupsCodeTyped ==
  ASSUME NEW x, NEW groups \in Nat
  PROVE  /\ GroupsCode(x, groups) \in Seq(BOOLEAN) /\ Len(GroupsCode(x, groups)) = 8 * groups
         /\ \A k \in 0 .. groups - 1 : GroupsCode(x, groups)[8 * k + 8] <=> k < groups - 1
         /\ \A k \in 0 .. groups - 1, i \in 0 .. 6 :
              GroupsCode(x, groups)[8 * k + i + 1] <=> 7 * k + i \in x
<1> DEFINE f == GroupsCode(x, groups)
           n == 8 * groups
<1>1. n \in Nat
  OBVIOUS
<1>2. f = [i \in 1 .. n |-> IF i % 8 = 0 THEN i < n ELSE i - 1 - (i \div 8) \in x]
  BY DEF GroupsCode
<1>3. \A i \in 1 .. n : f[i] = IF i % 8 = 0 THEN i < n ELSE i - 1 - (i \div 8) \in x
  BY <1>2, Zenon
<1>4. f = [i \in 1 .. n |-> f[i]]
  BY <1>2, Zenon
<1> HIDE DEF f
<1>5. f \in Seq(BOOLEAN) /\ Len(f) = n
  <2> HIDE DEF n
  <2>1. ASSUME NEW i \in 1 .. n PROVE f[i] \in BOOLEAN
    <3>1. CASE i % 8 = 0
      <4>1. f[i] = (i < n)
        BY <1>3, <3>1
      <4> QED
        BY <4>1
    <3>2. CASE i % 8 # 0
      <4>1. f[i] = (i - 1 - (i \div 8) \in x)
        BY <1>3, <3>2
      <4> QED
        BY <4>1
    <3> QED
      BY <3>1, <3>2
  <2> QED
    BY <1>1, <1>4, <2>1, TruthSequence
<1>6. ASSUME NEW k \in 0 .. groups - 1 PROVE f[8 * k + 8] <=> k < groups - 1
  <2> DEFINE i == 8 * k + 8
  <2>1. i \in 1 .. n /\ i = 8 * (k + 1) + 0 /\ (i < n <=> k < groups - 1)
    OBVIOUS
  <2>2. i % 8 = 0
    <3> HIDE DEF i
    <3> QED
      BY <2>1, DivIs
  <2> HIDE DEF i, n
  <2>3. f[i] = (i < n)
    BY <1>3, <2>1, <2>2
  <2> QED
    BY <2>1, <2>3 DEF i
<1>7. ASSUME NEW k \in 0 .. groups - 1, NEW m \in 0 .. 6 PROVE f[8 * k + m + 1] <=> 7 * k + m \in x
  <2> DEFINE i == 8 * k + m + 1
             j == m + 1
  <2>1. i \in 1 .. n /\ i = 8 * k + j /\ j \in 0 .. 8 - 1 /\ j # 0 /\ i - 1 - k = 7 * k + m
    OBVIOUS
  <2>2. i % 8 = j /\ i \div 8 = k
    <3> HIDE DEF i, j
    <3> QED
      BY <2>1, DivIs
  <2> HIDE DEF i, n, j
  <2>3. f[i] = (i - 1 - (i \div 8) \in x)
    BY <1>3, <2>1, <2>2
  <2> QED
    BY <2>1, <2>2, <2>3 DEF i
<1> QED
  BY <1>5, <1>6, <1>7 DEF f

\* However many groups the sender took, the number is read.
LEMMA UvarintReads ==
  ASSUME DataTyped, NEW p, NEW width \in Widths, NEW x, x \subseteq 0 .. width - 1,
         NEW c \in UvarintCodes(x, width), Coded(written, p, c)
  PROVE  Reads(Uvarint(p, width), p, c, x)
<1> DEFINE N == Groups(width)
           l == LastGroup(p, width)
<1>1. PICK groups \in 1 .. N : x \subseteq 0 .. 7 * groups - 1 /\ c = GroupsCode(x, groups)
  BY DEF UvarintCodes, GroupsCode
<1>2. N \in Nat \ {0}
  BY GroupCounts
<1>3. /\ l \in 0 .. N - 1 /\ (l = N - 1 \/ ~Bit(p + 8 * l + 7))
      /\ \A k \in 0 .. N - 1 : k = N - 1 \/ ~Bit(p + 8 * k + 7) => l <= k
  BY LastGroupTyped
<1>4. p \in Nat /\ available \in Nat
  BY DEF Coded, DataTyped
<1>5. Forward(Uvarint(p, width), p) /\ Uvarint(p, width).end = p + 8 * (l + 1)
  BY <1>4, UvarintForward
<1>6. Uvarint(p, width).fits /\ Uvarint(p, width).value = (0 .. width - 1) \cap GroupsAt(p, l)
  BY UvarintIs DEF Result
<1> HIDE DEF N, l
<1>7. /\ c \in Seq(BOOLEAN) /\ Len(c) = 8 * groups /\ groups \in Nat
      /\ \A k \in 0 .. groups - 1 : c[8 * k + 8] <=> k < groups - 1
      /\ \A k \in 0 .. groups - 1, i \in 0 .. 6 : c[8 * k + i + 1] <=> 7 * k + i \in x
  <2>1. groups \in Nat
    BY <1>2
  <2> QED
    BY <1>1, <2>1, GroupsCodeTyped
<1>8. SUFFICES ASSUME Within(Uvarint(p, width), p, c)
               PROVE  /\ Uvarint(p, width).end = p + Len(c)
                      /\ Uvarint(p, width).value = x
  BY <1>5, <1>6 DEF Reads
<1>9. ASSUME NEW k \in 0 .. groups - 1, k <= l, NEW i \in 0 .. 7
      PROVE  Bit(p + (8 * k + i)) <=> c[(8 * k + i) + 1]
  <2>1. l \in Nat /\ groups \in Nat
    BY <1>2, <1>3, <1>7
  <2>2. p + (8 * k + i) < p + 8 * (l + 1)
    BY <1>4, <1>9, <2>1
  <2>3. p + (8 * k + i) < p + 8 * groups
    BY <1>4, <2>1
  <2>4. p + (8 * k + i) < available
    BY <1>4, <1>5, <1>7, <1>8, <2>1, <2>2, <2>3 DEF Within
  <2> DEFINE j == 8 * k + i
  <2>5. j \in 0 .. Len(c) - 1 /\ p + j < available
    BY <1>7, <2>1, <2>4
  <2> HIDE DEF j
  <2>6. Bit(p + j) <=> c[j + 1]
    BY <2>5, BitRead
  <2> QED
    BY <2>6 DEF j
<1>10. ASSUME NEW k \in 0 .. groups - 1, k <= l PROVE Bit(p + 8 * k + 7) <=> k < groups - 1
  <2>1. Bit(p + (8 * k + 7)) <=> c[(8 * k + 7) + 1]
    BY <1>9, <1>10
  <2>2. p + (8 * k + 7) = p + 8 * k + 7 /\ (8 * k + 7) + 1 = 8 * k + 8
    BY <1>4
  <2> QED
    BY <1>7, <2>1, <2>2
<1>11. l = groups - 1
  <2>1. CASE l < groups - 1
    <3>1. l \in 0 .. groups - 1 /\ l <= l /\ l # N - 1
      BY <1>2, <1>3, <1>7, <2>1
    <3> QED
      BY <1>3, <1>10, <2>1, <3>1
  <2>2. CASE groups - 1 < l
    <3> DEFINE k == groups - 1
    <3>1. k \in 0 .. groups - 1 /\ k <= l /\ k \in 0 .. N - 1 /\ ~(k < groups - 1) /\ ~(l <= k)
      BY <1>2, <1>3, <1>7, <2>2
    <3> HIDE DEF k
    <3> QED
      BY <1>3, <1>10, <3>1
  <2> QED
    BY <1>2, <1>3, <1>7, <2>1, <2>2
<1>12. ASSUME NEW k \in 0 .. groups - 1 PROVE GroupAt(p, k) = {y \in x : y \in 7 * k .. 7 * k + 6}
  <2>1. ASSUME NEW i \in 0 .. 6 PROVE Bit((p + 8 * k) + i) <=> 7 * k + i \in x
    <3>1. Bit(p + (8 * k + i)) <=> c[(8 * k + i) + 1]
      BY <1>9, <1>11
    <3>2. p + (8 * k + i) = (p + 8 * k) + i /\ (8 * k + i) + 1 = 8 * k + i + 1
      BY <1>4
    <3> QED
      BY <1>7, <3>1, <3>2
  <2>2. Ubit64(p + 8 * k, 7) = {i \in 0 .. 6 : 7 * k + i \in x}
    <3>1. 0 .. 7 - 1 = 0 .. 6
      OBVIOUS
    <3> QED
      BY <2>1, <3>1 DEF Ubit64
  <2>3. ASSUME NEW y PROVE y \in GroupAt(p, k) <=> y \in x /\ y \in 7 * k .. 7 * k + 6
    <3>1. y \in GroupAt(p, k) <=> \E i \in 0 .. 6 : 7 * k + i \in x /\ y = i + 7 * k
      BY <2>2 DEF GroupAt, ShiftLeft
    <3>2. ASSUME NEW i \in 0 .. 6, 7 * k + i \in x, y = i + 7 * k
          PROVE  y \in x /\ y \in 7 * k .. 7 * k + 6
      <4>1. y = 7 * k + i
        BY <3>2
      <4> QED
        BY <3>2, <4>1
    <3>3. ASSUME y \in x, y \in 7 * k .. 7 * k + 6
          PROVE  \E i \in 0 .. 6 : 7 * k + i \in x /\ y = i + 7 * k
      <4>1. y - 7 * k \in 0 .. 6 /\ 7 * k + (y - 7 * k) = y /\ (y - 7 * k) + 7 * k = y
        BY <3>3
      <4> QED
        BY <3>3, <4>1
    <3> QED
      BY <3>1, <3>2, <3>3
  <2> QED
    BY <2>3
<1>13. GroupsAt(p, l) = x
  <2>1. ASSUME NEW y \in GroupsAt(p, l) PROVE y \in x
    <3>1. PICK k \in 0 .. groups - 1 : y \in GroupAt(p, k)
      BY <1>11, <2>1 DEF GroupsAt
    <3> QED
      BY <1>12, <3>1
  <2>2. ASSUME NEW y \in x PROVE y \in GroupsAt(p, l)
    <3> DEFINE k == y \div 7
               r == y % 7
    <3>1. y \in 0 .. 7 * groups - 1 /\ y \in Int
      BY <1>1
    <3>2. y = 7 * k + r /\ k \in Int /\ r \in 0 .. 7 - 1
      BY <3>1, DivMod
    <3> HIDE DEF k, r
    <3>3. k \in 0 .. groups - 1 /\ y \in 7 * k .. 7 * k + 6
      BY <1>7, <3>1, <3>2
    <3>4. y \in GroupAt(p, k)
      BY <1>12, <3>3
    <3> QED
      BY <1>11, <3>3, <3>4 DEF GroupsAt
  <2> QED
    BY <2>1, <2>2
<1>14. 8 * (l + 1) = 8 * groups
  BY <1>7, <1>11
<1> QED
  BY <1>5, <1>6, <1>7, <1>13, <1>14

-----------------------------------------------------------------------------
(* Signed varints                                                           *)

\* A number with its sign moved into its lowest bit still fits into the width.
LEMMA ZigzagFits ==
  ASSUME NEW width \in Widths, NEW x, x \subseteq 0 .. width - 1
  PROVE  Zigzag(x, width) \subseteq 0 .. width - 1
<1> DEFINE y == (0 .. width - 1) \ x
<1>1. width \in Nat
  BY DEF Widths
<1>2. CASE width - 1 \in x
  <2>1. ASSUME NEW i \in y PROVE i + 1 \in 0 .. width - 1
    <3>1. i # width - 1
      BY <1>2
    <3> QED
      BY <1>1, <3>1
  <2>2. 0 \in 0 .. width - 1
    BY DEF Widths
  <2> QED
    BY <1>2, <2>1, <2>2 DEF Zigzag, ShiftLeft
<1>3. CASE width - 1 \notin x
  <2>1. ASSUME NEW i \in x PROVE i + 1 \in 0 .. width - 1
    <3>1. i # width - 1 /\ i \in 0 .. width - 1
      BY <1>3
    <3> QED
      BY <1>1, <3>1
  <2> QED
    BY <1>3, <2>1 DEF Zigzag, ShiftLeft
<1> QED
  BY <1>2, <1>3

\* What the code of a signed number says is that number.
LEMMA ZigzagBack ==
  ASSUME NEW width \in Widths, NEW x, x \subseteq 0 .. width - 1
  PROVE  /\ 0 \in Zigzag(x, width) <=> width - 1 \in x
         /\ width - 1 \in x => (0 .. width - 1) \ ShiftRight(Zigzag(x, width), 1) = x
         /\ width - 1 \notin x => ShiftRight(Zigzag(x, width), 1) = x
<1>1. ASSUME NEW y, y \subseteq 0 .. width - 1, NEW z,
             z = ShiftLeft(y, 1) \/ z = {0} \union ShiftLeft(y, 1)
      PROVE  ShiftRight(z, 1) = y /\ 0 \notin ShiftLeft(y, 1)
  <2>1. 0 .. 1 - 1 = {0} /\ \A i \in y : i + 1 # 0 /\ (i + 1) - 1 = i
    BY <1>1
  <2>2. 0 \notin ShiftLeft(y, 1) /\ z \ (0 .. 1 - 1) = ShiftLeft(y, 1)
    BY <1>1, <2>1 DEF ShiftLeft
  <2>3. ShiftRight(z, 1) = {i - 1 : i \in ShiftLeft(y, 1)}
    BY <2>2 DEF ShiftRight
  <2> QED
    BY <2>1, <2>2, <2>3 DEF ShiftLeft
<1> DEFINE z == Zigzag(x, width)
           o == (0 .. width - 1) \ x
<1>2. CASE width - 1 \in x
  <2>1. z = {0} \union ShiftLeft(o, 1)
    BY <1>2 DEF Zigzag
  <2>2. o \subseteq 0 .. width - 1 /\ (0 .. width - 1) \ o = x
    OBVIOUS
  <2> HIDE DEF z, o
  <2>3. ShiftRight(z, 1) = o /\ 0 \in z
    BY <1>1, <2>1, <2>2
  <2> QED
    BY <1>2, <2>2, <2>3 DEF z
<1>3. CASE width - 1 \notin x
  <2>1. z = ShiftLeft(x, 1)
    BY <1>3 DEF Zigzag
  <2> HIDE DEF z
  <2>2. ShiftRight(z, 1) = x /\ 0 \notin z
    BY <1>1, <2>1
  <2> QED
    BY <1>3, <2>2 DEF z
<1> QED
  BY <1>2, <1>3

\* A signed number ends where its groups do.
LEMMA VarintForward ==
  ASSUME NEW p \in Nat, NEW width \in Widths
  PROVE  Forward(Varint(p, width), p)
<1>1. Varint(p, width).end = Uvarint(p, width).end
  BY DEF Varint, Result
<1> QED
  BY <1>1, UvarintForward DEF Forward

\* The sign and the magnitude come back as they were.
LEMMA VarintReads ==
  ASSUME DataTyped, NEW p, NEW width \in Widths, NEW x, x \subseteq 0 .. width - 1,
         NEW c \in UvarintCodes(Zigzag(x, width), width), Coded(written, p, c)
  PROVE  Reads(Varint(p, width), p, c, x)
<1> DEFINE z == Zigzag(x, width)
           u == Uvarint(p, width)
           r == Varint(p, width)
<1>1. z \subseteq 0 .. width - 1 /\ c \in UvarintCodes(z, width)
  BY ZigzagFits
<1>2. Reads(u, p, c, z)
  <2> HIDE DEF z
  <2> QED
    BY <1>1, UvarintReads
<1>3. r.end = u.end /\ r.fits
      /\ r.value = IF 0 \in u.value THEN (0 .. width - 1) \ ShiftRight(u.value, 1)
                   ELSE ShiftRight(u.value, 1)
  BY DEF Varint, Result
<1>4. ASSUME u.value = z PROVE r.value = x
  <2>1. /\ 0 \in z <=> width - 1 \in x
        /\ width - 1 \in x => (0 .. width - 1) \ ShiftRight(z, 1) = x
        /\ width - 1 \notin x => ShiftRight(z, 1) = x
    BY ZigzagBack
  <2>2. r.value = IF 0 \in z THEN (0 .. width - 1) \ ShiftRight(z, 1) ELSE ShiftRight(z, 1)
    BY <1>3, <1>4
  <2> HIDE DEF z, u, r
  <2> QED
    BY <2>1, <2>2
<1> HIDE DEF z, u, r
<1>5. Reads(r, p, c, x)
  BY <1>2, <1>3, <1>4 DEF Reads, Forward, Within
<1> QED
  BY <1>5 DEF r

-----------------------------------------------------------------------------
(* Coordinates                                                              *)

\* The powers of two that the widths of coordinates and normals stand for.
LEMMA PowersUsed == 2 ^ 5 = 32 /\ 2 ^ 11 = 2048 /\ 2 ^ 14 = 16384
<1>1. \A n \in Nat : 2 ^ (n + 1) = 2 ^ n + 2 ^ n
  BY PowerDoubles
<1>2. 2 ^ 1 = 2
  BY SmallPowers
<1>3. 2 ^ (1 + 1) = 2 ^ 1 + 2 ^ 1 /\ 2 ^ (2 + 1) = 2 ^ 2 + 2 ^ 2 /\ 2 ^ (3 + 1) = 2 ^ 3 + 2 ^ 3
      /\ 2 ^ (4 + 1) = 2 ^ 4 + 2 ^ 4 /\ 2 ^ (5 + 1) = 2 ^ 5 + 2 ^ 5 /\ 2 ^ (6 + 1) = 2 ^ 6 + 2 ^ 6
  BY <1>1
<1>4. 2 ^ (7 + 1) = 2 ^ 7 + 2 ^ 7 /\ 2 ^ (8 + 1) = 2 ^ 8 + 2 ^ 8 /\ 2 ^ (9 + 1) = 2 ^ 9 + 2 ^ 9
      /\ 2 ^ (10 + 1) = 2 ^ 10 + 2 ^ 10 /\ 2 ^ (11 + 1) = 2 ^ 11 + 2 ^ 11
      /\ 2 ^ (12 + 1) = 2 ^ 12 + 2 ^ 12 /\ 2 ^ (13 + 1) = 2 ^ 13 + 2 ^ 13
  BY <1>1
<1>5. 2 ^ 2 = 4 /\ 2 ^ 3 = 8 /\ 2 ^ 4 = 16 /\ 2 ^ 5 = 32 /\ 2 ^ 6 = 64 /\ 2 ^ 7 = 128
  BY <1>2, <1>3
<1>6. 2 ^ 8 = 256 /\ 2 ^ 9 = 512 /\ 2 ^ 10 = 1024 /\ 2 ^ 11 = 2048 /\ 2 ^ 12 = 4096
      /\ 2 ^ 13 = 8192 /\ 2 ^ 14 = 16384
  BY <1>4, <1>5
<1> QED
  BY <1>5, <1>6

\* The bits of a number, as many as were asked for.
LEMMA NumberBitsTyped ==
  ASSUME NEW v, NEW n \in Nat
  PROVE  NumberBits(v, n) \in Seq(BOOLEAN) /\ Len(NumberBits(v, n)) = n
<1> DEFINE x == {i \in 0 .. n - 1 : (v \div 2 ^ i) % 2 = 1}
<1>1. NumberBits(v, n) = BitsOf(x, n)
  BY DEF NumberBits
<1> HIDE DEF x
<1> QED
  BY <1>1, BitsOfTyped

\* The bits of a number are read, and give it.
LEMMA NumberRead ==
  ASSUME DataTyped, NEW p, NEW n \in Nat, NEW v \in Nat, v < 2 ^ n,
         Coded(written, p, NumberBits(v, n)), p + n <= available
  PROVE  NumberOf(Ubit64(p, n), n) = v
<1> DEFINE x == {i \in 0 .. n - 1 : (v \div 2 ^ i) % 2 = 1}
<1>1. NumberOf(x, n) = v
  BY NumberOfBits
<1>2. x \subseteq 0 .. n - 1 /\ NumberBits(v, n) = BitsOf(x, n)
  BY DEF NumberBits
<1> HIDE DEF x
<1>3. Ubit64(p, n) = x
  BY <1>2, UbitRead
<1> QED
  BY <1>1, <1>3

\* Flags, and what follows them.
LEMMA OneFlag ==
  ASSUME NEW a \in BOOLEAN
  PROVE  <<a>> \in Seq(BOOLEAN) /\ Len(<<a>>) = 1 /\ <<a>>[1] = a
  OBVIOUS

\* Sequences of flags, spelled out for the provers.
LEMMA TwoFlags ==
  ASSUME NEW a \in BOOLEAN, NEW b \in BOOLEAN
  PROVE  <<a, b>> \in Seq(BOOLEAN) /\ Len(<<a, b>>) = 2 /\ <<a, b>>[1] = a /\ <<a, b>>[2] = b
  OBVIOUS

\* The same for three flags.
LEMMA ThreeFlags ==
  ASSUME NEW a \in BOOLEAN, NEW b \in BOOLEAN, NEW c \in BOOLEAN
  PROVE  /\ <<a, b, c>> \in Seq(BOOLEAN) /\ Len(<<a, b, c>>) = 3
         /\ <<a, b, c>>[1] = a /\ <<a, b, c>>[2] = b /\ <<a, b, c>>[3] = c
  OBVIOUS

\* Four codes, one behind the other.
LEMMA FourParts ==
  ASSUME NEW w \in Seq(BOOLEAN), NEW p, NEW a \in Seq(BOOLEAN), NEW b \in Seq(BOOLEAN),
         NEW c \in Seq(BOOLEAN), NEW d \in Seq(BOOLEAN),
         Coded(w, p, a \o b \o c \o d)
  PROVE  /\ Coded(w, p, a) /\ Coded(w, p + Len(a), b)
         /\ Coded(w, p + Len(a) + Len(b), c) /\ Coded(w, p + Len(a) + Len(b) + Len(c), d)
         /\ Len(a \o b \o c \o d) = Len(a) + Len(b) + Len(c) + Len(d)
         /\ Len(a) \in Nat /\ Len(b) \in Nat /\ Len(c) \in Nat /\ Len(d) \in Nat /\ p \in Nat
<1> DEFINE ab == a \o b
           abc == ab \o c
<1>1. ab \in Seq(BOOLEAN) /\ p \in Nat
  BY ConcatProperties DEF Coded
<1>2. abc \in Seq(BOOLEAN)
  <2> HIDE DEF ab
  <2> QED
    BY <1>1, ConcatProperties
<1>3. Coded(w, p, abc) /\ Coded(w, p + Len(abc), d) /\ Len(abc \o d) = Len(abc) + Len(d) /\ Len(d) \in Nat
  <2>1. Coded(w, p, abc \o d)
    OBVIOUS
  <2> HIDE DEF abc
  <2> QED
    BY <1>2, <2>1, CodedParts
<1>4. Coded(w, p, ab) /\ Coded(w, p + Len(ab), c) /\ Len(abc) = Len(ab) + Len(c) /\ Len(c) \in Nat
  <2>1. Coded(w, p, ab \o c)
    BY <1>3
  <2> HIDE DEF ab
  <2> QED
    BY <1>1, <2>1, CodedParts
<1>5. /\ Coded(w, p, a) /\ Coded(w, p + Len(a), b)
      /\ Len(ab) = Len(a) + Len(b) /\ Len(a) \in Nat /\ Len(b) \in Nat
  BY <1>4, CodedParts
<1> HIDE DEF ab, abc
<1>6. p + Len(abc) = p + Len(a) + Len(b) + Len(c) /\ p + Len(ab) = p + Len(a) + Len(b)
  BY <1>1, <1>3, <1>4, <1>5
<1>7. Len(abc \o d) = Len(a) + Len(b) + Len(c) + Len(d)
  BY <1>3, <1>4, <1>5
<1> QED
  BY <1>1, <1>3, <1>4, <1>5, <1>6, <1>7 DEF ab, abc

\* Where a coordinate ends: after its flags, its sign and the parts that they announce.
CoordEnd(p) ==
  IF Bit(p) \/ Bit(p + 1)
  THEN (p + 3 + IF Bit(p) THEN 14 ELSE 0) + IF Bit(p + 1) THEN 5 ELSE 0
  ELSE p + 2

\* The reading of a coordinate in terms of its flags and parts.
LEMMA BitcoordIs ==
  ASSUME NEW p
  PROVE  Bitcoord(p).end = CoordEnd(p) /\ Bitcoord(p).fits
  BY DEF Bitcoord, Result, CoordEnd

\* At least the two flags are read.
LEMMA BitcoordForward ==
  ASSUME NEW p \in Nat
  PROVE  Forward(Bitcoord(p), p) /\ Bitcoord(p).end >= p + 2
  BY BitcoordIs DEF Forward, CoordEnd

\* The parts of a coordinate.
LEMMA CoordParts ==
  ASSUME NEW v \in Coords
  PROVE  /\ v \in Int /\ Abs(v) \div 32 \in Nat /\ Abs(v) \div 32 <= 16384
         /\ Abs(v) % 32 \in Nat /\ Abs(v) % 32 < 32
         /\ Signed(v < 0, 32 * (Abs(v) \div 32) + (Abs(v) % 32)) = v
         /\ v = 0 <=> Abs(v) \div 32 = 0 /\ Abs(v) % 32 = 0
<1> DEFINE a == Abs(v)
           q == a \div 32
           r == a % 32
<1>1. v \in Int /\ q <= 16384
  BY DEF Coords
<1>2. a \in Nat /\ (v < 0 => v = -a) /\ (~(v < 0) => v = a)
  BY <1>1 DEF Abs
<1>3. a = 32 * q + r /\ q \in Int /\ r \in Nat /\ r < 32
  <2> HIDE DEF a
  <2>1. a \in Int /\ 31 = 32 - 1
    BY <1>2
  <2>2. a = 32 * q + r /\ q \in Int /\ r \in 0 .. 32 - 1
    BY <2>1, DivMod
  <2> HIDE DEF q, r
  <2> QED
    BY <2>2
<1> HIDE DEF a, q, r
<1>4. q \in Nat
  BY <1>2, <1>3
<1>5. Signed(v < 0, 32 * q + r) = v
  BY <1>1, <1>2, <1>3, <1>4 DEF Signed
<1>6. v = 0 <=> q = 0 /\ r = 0
  BY <1>1, <1>2, <1>3, <1>4
<1> QED
  BY <1>1, <1>3, <1>4, <1>5, <1>6 DEF a, q, r

\* A coordinate is read as it was written, whichever of its parts it has.
LEMMA BitcoordReads ==
  ASSUME DataTyped, NEW p, NEW v \in Coords, Coded(written, p, CoordCode(v))
  PROVE  Reads(Bitcoord(p), p, CoordCode(v), v)
<1> DEFINE q == Abs(v) \div 32
           r == Abs(v) % 32
           flags == <<q > 0, r > 0>>
           sign == IF v = 0 THEN <<>> ELSE <<v < 0>>
           whole == IF q > 0 THEN NumberBits(q - 1, 14) ELSE <<>>
           fract == IF r > 0 THEN NumberBits(r, 5) ELSE <<>>
           c == CoordCode(v)
           res == Bitcoord(p)
<1>1. q \in Nat /\ q <= 16384 /\ r \in Nat /\ r < 32 /\ Signed(v < 0, 32 * q + r) = v
      /\ (v = 0 <=> q = 0 /\ r = 0) /\ v \in Int
  BY CoordParts
<1>2. c = flags \o sign \o whole \o fract
  BY DEF CoordCode
<1> HIDE DEF q, r
<1>3. flags \in Seq(BOOLEAN) /\ Len(flags) = 2 /\ flags[1] = (q > 0) /\ flags[2] = (r > 0)
  <2>1. (q > 0) \in BOOLEAN /\ (r > 0) \in BOOLEAN
    BY <1>1
  <2> QED
    BY <2>1, TwoFlags
<1>4. <<>> \in Seq(BOOLEAN) /\ Len(<<>>) = 0
  BY EmptySeq
<1>5. sign \in Seq(BOOLEAN) /\ Len(sign) = (IF v = 0 THEN 0 ELSE 1) /\ (v # 0 => sign[1] = (v < 0))
  <2>1. (v < 0) \in BOOLEAN
    BY <1>1
  <2>2. <<v < 0>> \in Seq(BOOLEAN) /\ Len(<<v < 0>>) = 1 /\ <<v < 0>>[1] = (v < 0)
    BY <2>1, OneFlag
  <2>3. CASE v = 0
    <3>1. sign = <<>>
      BY <2>3
    <3> HIDE DEF sign
    <3> QED
      BY <1>4, <2>3, <3>1
  <2>4. CASE v # 0
    <3>1. sign = <<v < 0>>
      BY <2>4
    <3> HIDE DEF sign
    <3> QED
      BY <2>2, <2>4, <3>1
  <2> QED
    BY <2>3, <2>4
<1>6. whole \in Seq(BOOLEAN) /\ Len(whole) = IF q > 0 THEN 14 ELSE 0
  BY <1>4, NumberBitsTyped
<1>7. fract \in Seq(BOOLEAN) /\ Len(fract) = IF r > 0 THEN 5 ELSE 0
  BY <1>4, NumberBitsTyped
<1> HIDE DEF flags, sign, whole, fract
<1>8. p \in Nat /\ available \in Nat /\ written \in Seq(BOOLEAN)
  BY DEF Coded, DataTyped
<1>9. /\ Coded(written, p, flags) /\ Coded(written, p + Len(flags), sign)
      /\ Coded(written, p + Len(flags) + Len(sign), whole)
      /\ Coded(written, p + Len(flags) + Len(sign) + Len(whole), fract)
      /\ Len(c) = Len(flags) + Len(sign) + Len(whole) + Len(fract)
  <2>1. Coded(written, p, flags \o sign \o whole \o fract)
    BY <1>2
  <2>2. flags \in Seq(BOOLEAN) /\ sign \in Seq(BOOLEAN) /\ whole \in Seq(BOOLEAN)
        /\ fract \in Seq(BOOLEAN) /\ written \in Seq(BOOLEAN)
    BY <1>3, <1>5, <1>6, <1>7, <1>8
  <2> HIDE DEF c
  <2> QED
    BY <1>2, <2>1, <2>2, FourParts
<1> HIDE DEF c
<1>10. Len(c) = 2 + (IF v = 0 THEN 0 ELSE 1) + (IF q > 0 THEN 14 ELSE 0) + (IF r > 0 THEN 5 ELSE 0)
  BY <1>3, <1>5, <1>6, <1>7, <1>9
<1>11. Forward(res, p) /\ res.end >= p + 2 /\ res.fits /\ res.end = CoordEnd(p)
  BY <1>8, BitcoordForward, BitcoordIs
<1>12. SUFFICES ASSUME Within(res, p, c) PROVE res.end = p + Len(c) /\ res.value = v
  BY <1>11 DEF Reads, c
<1>13. p + 2 <= available
  BY <1>8, <1>10, <1>11, <1>12 DEF Within, Forward
<1>14. (Bit(p) <=> q > 0) /\ (Bit(p + 1) <=> r > 0)
  <2>1. 0 \in 0 .. Len(flags) - 1 /\ 1 \in 0 .. Len(flags) - 1 /\ p + 0 < available /\ p + 1 < available
        /\ p + 0 = p
    BY <1>3, <1>8, <1>13
  <2>2. (Bit(p + 0) <=> flags[0 + 1]) /\ (Bit(p + 1) <=> flags[1 + 1])
    BY <1>9, <2>1, BitRead
  <2> QED
    BY <1>3, <2>1, <2>2
<1>15. CASE v = 0
  <2>1. ~Bit(p) /\ ~Bit(p + 1)
    BY <1>1, <1>14, <1>15
  <2>2. res.value = 0
    BY <2>1 DEF Bitcoord, Result
  <2>3. res.end = p + 2
    BY <1>11, <2>1 DEF CoordEnd
  <2> QED
    BY <1>1, <1>10, <1>15, <2>2, <2>3
<1>16. CASE v # 0
  <2> DEFINE rest == p + 3 + IF q > 0 THEN 14 ELSE 0
  <2>1. q > 0 \/ r > 0
    BY <1>1, <1>16
  <2>2. rest \in Nat /\ res.end = rest + (IF r > 0 THEN 5 ELSE 0)
    BY <1>8, <1>11, <1>14, <2>1 DEF CoordEnd
  <2>3. res.end = p + Len(c)
    BY <1>8, <1>10, <1>16, <2>2
  <2>4. res.end <= available
    BY <1>12, <2>3 DEF Within
  <2>5. p + Len(flags) = p + 2 /\ p + Len(flags) + Len(sign) = p + 3
        /\ p + Len(flags) + Len(sign) + Len(whole) = rest
    BY <1>3, <1>5, <1>6, <1>8, <1>16
  <2>6. Coded(written, p + 2, sign) /\ Coded(written, p + 3, whole) /\ Coded(written, rest, fract)
    BY <1>9, <2>5
  <2> HIDE DEF rest
  <2>7. Bit(p + 2) <=> v < 0
    <3>1. 0 \in 0 .. Len(sign) - 1 /\ (p + 2) + 0 < available /\ (p + 2) + 0 = p + 2
      BY <1>5, <1>8, <1>16, <2>2, <2>4 DEF rest
    <3>2. Bit((p + 2) + 0) <=> sign[0 + 1]
      BY <2>6, <3>1, BitRead
    <3> QED
      BY <1>5, <1>16, <3>1, <3>2
  <2> DEFINE intval == IF Bit(p) THEN NumberOf(Ubit64(p + 3, 14), 14) + 1 ELSE 0
             fractval == IF Bit(p + 1) THEN NumberOf(Ubit64(rest, 5), 5) ELSE 0
  <2>8. intval = q
    <3>1. CASE q > 0
      <4> DEFINE n == q - 1
      <4>1. n \in Nat /\ n < 16384 /\ n + 1 = q
        BY <1>1, <3>1
      <4>2. Coded(written, p + 3, NumberBits(n, 14))
        BY <2>6, <3>1 DEF whole
      <4> HIDE DEF n
      <4>3. p + 3 + 14 <= available
        BY <1>8, <2>2, <2>4, <3>1 DEF rest
      <4>4. NumberOf(Ubit64(p + 3, 14), 14) = n
        <5> DEFINE e == 14
                   t == p + 3
        <5>1. n < 2 ^ e /\ e \in Nat /\ n \in Nat
          BY <4>1, PowersUsed
        <5>2. Coded(written, t, NumberBits(n, e)) /\ t + e <= available
          BY <4>2, <4>3
        <5> HIDE DEF e, t
        <5>3. NumberOf(Ubit64(t, e), e) = n
          BY <5>1, <5>2, NumberRead
        <5> QED
          BY <5>3 DEF e, t
      <4> QED
        BY <1>14, <3>1, <4>1, <4>4
    <3>2. CASE ~(q > 0)
      BY <1>1, <1>14, <3>2
    <3> QED
      BY <3>1, <3>2
  <2>9. fractval = r
    <3>1. CASE r > 0
      <4>1. r \in Nat /\ r < 32
        BY <1>1
      <4>2. Coded(written, rest, NumberBits(r, 5))
        BY <2>6, <3>1 DEF fract
      <4>3. rest + 5 <= available
        BY <2>2, <2>4, <3>1
      <4>4. NumberOf(Ubit64(rest, 5), 5) = r
        <5>1. r < 2 ^ 5
          BY <4>1, PowersUsed
        <5> QED
          BY <4>1, <4>2, <4>3, <5>1, NumberRead
      <4> QED
        BY <1>14, <3>1, <4>4
    <3>2. CASE ~(r > 0)
      BY <1>1, <1>14, <3>2
    <3> QED
      BY <3>1, <3>2
  <2>10. rest = p + 3 + IF Bit(p) THEN 14 ELSE 0
    BY <1>14 DEF rest
  <2>11. res.value = Signed(Bit(p + 2), 32 * intval + fractval)
    <3>1. Bit(p) \/ Bit(p + 1)
      BY <1>14, <2>1
    <3> HIDE DEF rest
    <3> QED
      BY <2>10, <3>1 DEF Bitcoord, Result
  <2> HIDE DEF intval, fractval
  <2>12. Signed(Bit(p + 2), 32 * q + r) = v
    BY <1>1, <2>7 DEF Signed
  <2> QED
    BY <2>3, <2>8, <2>9, <2>11, <2>12
<1> QED
  BY <1>15, <1>16

\* Four pieces of code in a row.
LEMMA FourTyped ==
  ASSUME NEW a \in Seq(BOOLEAN), NEW b \in Seq(BOOLEAN), NEW c \in Seq(BOOLEAN), NEW d \in Seq(BOOLEAN)
  PROVE  a \o b \o c \o d \in Seq(BOOLEAN)
<1> DEFINE ab == a \o b
           abc == ab \o c
<1>1. ab \in Seq(BOOLEAN)
  BY ConcatProperties
<1> HIDE DEF ab
<1>2. abc \in Seq(BOOLEAN)
  BY <1>1, ConcatProperties
<1> HIDE DEF abc
<1>3. abc \o d \in Seq(BOOLEAN)
  BY <1>2, ConcatProperties
<1> QED
  BY <1>3 DEF abc, ab

\* The code of a coordinate, as bits.
LEMMA CoordCodeTyped ==
  ASSUME NEW v \in Coords
  PROVE  CoordCode(v) \in Seq(BOOLEAN) /\ OptionalCoord(v) \in Seq(BOOLEAN)
<1> DEFINE q == Abs(v) \div 32
           r == Abs(v) % 32
           flags == <<q > 0, r > 0>>
           sign == IF v = 0 THEN <<>> ELSE <<v < 0>>
           whole == IF q > 0 THEN NumberBits(q - 1, 14) ELSE <<>>
           fract == IF r > 0 THEN NumberBits(r, 5) ELSE <<>>
<1>1. CoordCode(v) = flags \o sign \o whole \o fract
  BY DEF CoordCode
<1> HIDE DEF q, r
<1>2. (q > 0) \in BOOLEAN /\ (r > 0) \in BOOLEAN /\ (v < 0) \in BOOLEAN
  OBVIOUS
<1>3. flags \in Seq(BOOLEAN)
  BY <1>2, TwoFlags
<1>4. <<>> \in Seq(BOOLEAN) /\ <<v < 0>> \in Seq(BOOLEAN)
  BY <1>2, EmptySeq, OneFlag
<1>5. sign \in Seq(BOOLEAN)
  BY <1>4
<1>6. whole \in Seq(BOOLEAN) /\ fract \in Seq(BOOLEAN)
  BY <1>4, NumberBitsTyped
<1> HIDE DEF flags, sign, whole, fract
<1>7. CoordCode(v) \in Seq(BOOLEAN)
  BY <1>1, <1>3, <1>5, <1>6, FourTyped
<1> QED
  BY <1>4, <1>7 DEF OptionalCoord

\* A coordinate that a flag announces.
CoordAt(b, p) == IF b THEN Bitcoord(p) ELSE Result(0, p)

\* A component that is there or not ends at or behind its start.
LEMMA CoordAtForward ==
  ASSUME NEW b, NEW p \in Nat
  PROVE  Forward(CoordAt(b, p), p)
<1>1. Forward(Result(0, p), p)
  BY DEF Forward, Result
<1> QED
  BY <1>1, BitcoordForward DEF CoordAt

\* It is read as it was written, zero if it is not there.
LEMMA CoordAtReads ==
  ASSUME DataTyped, NEW p, NEW v \in Coords, Coded(written, p, OptionalCoord(v)), NEW b, b <=> v # 0
  PROVE  Reads(CoordAt(b, p), p, OptionalCoord(v), v)
<1>1. CASE v = 0
  <2>1. CoordAt(b, p) = Result(0, p) /\ OptionalCoord(v) = <<>> /\ Len(<<>>) = 0 /\ p \in Nat
    BY <1>1, EmptySeq DEF CoordAt, OptionalCoord, Coded
  <2> QED
    BY <1>1, <2>1 DEF Reads, Forward, Result
<1>2. CASE v # 0
  <2>1. CoordAt(b, p) = Bitcoord(p) /\ OptionalCoord(v) = CoordCode(v)
    BY <1>2 DEF CoordAt, OptionalCoord
  <2> QED
    BY <2>1, BitcoordReads
<1> QED
  BY <1>1, <1>2

\* The three components of a vector, one behind the other.
LEMMA Vec3coordIs ==
  ASSUME NEW p
  PROVE  \E x, y, z :
           /\ x = CoordAt(Bit(p), p + 3) /\ y = CoordAt(Bit(p + 1), x.end)
           /\ z = CoordAt(Bit(p + 2), y.end)
           /\ Vec3coord(p) = Result(<<x.value, y.value, z.value>>, z.end)
  BY DEF Vec3coord, CoordAt

\* At least the three flags are read.
LEMMA Vec3coordForward ==
  ASSUME NEW p \in Nat
  PROVE  Forward(Vec3coord(p), p) /\ Vec3coord(p).end >= p + 3
<1>1. PICK x, y, z :
           /\ x = CoordAt(Bit(p), p + 3) /\ y = CoordAt(Bit(p + 1), x.end)
           /\ z = CoordAt(Bit(p + 2), y.end)
           /\ Vec3coord(p) = Result(<<x.value, y.value, z.value>>, z.end)
  BY Vec3coordIs
<1>2. Forward(x, p + 3)
  BY <1>1, CoordAtForward
<1>3. x.end \in Nat
  BY <1>2 DEF Forward
<1>4. Forward(y, x.end)
  BY <1>1, <1>3, CoordAtForward
<1>5. y.end \in Nat
  BY <1>4 DEF Forward
<1>6. Forward(z, y.end)
  BY <1>1, <1>5, CoordAtForward
<1>7. Vec3coord(p).end = z.end
  BY <1>1 DEF Result
<1> QED
  BY <1>2, <1>4, <1>6, <1>7 DEF Forward

\* A vector is read as it was written.
LEMMA Vec3coordReads ==
  ASSUME DataTyped, NEW p, NEW v \in [1 .. 3 -> Coords], NEW c \in CodesOf("vec3coord", v),
         Coded(written, p, c)
  PROVE  Reads(Vec3coord(p), p, c, v)
<1> DEFINE flags == <<v[1] # 0, v[2] # 0, v[3] # 0>>
           a == OptionalCoord(v[1])
           b == OptionalCoord(v[2])
           d == OptionalCoord(v[3])
           res == Vec3coord(p)
<1>1. c = flags \o a \o b \o d
  BY DEF CodesOf
<1>2. v[1] \in Coords /\ v[2] \in Coords /\ v[3] \in Coords
  OBVIOUS
<1>3. /\ flags \in Seq(BOOLEAN) /\ Len(flags) = 3
      /\ flags[1] = (v[1] # 0) /\ flags[2] = (v[2] # 0) /\ flags[3] = (v[3] # 0)
  <2>1. (v[1] # 0) \in BOOLEAN /\ (v[2] # 0) \in BOOLEAN /\ (v[3] # 0) \in BOOLEAN
    OBVIOUS
  <2> QED
    BY <2>1, ThreeFlags
<1>4. a \in Seq(BOOLEAN) /\ b \in Seq(BOOLEAN) /\ d \in Seq(BOOLEAN)
  BY <1>2, CoordCodeTyped
<1>5. p \in Nat /\ available \in Nat /\ written \in Seq(BOOLEAN)
  BY DEF Coded, DataTyped
<1> HIDE DEF flags, a, b, d
<1>6. /\ Coded(written, p, flags) /\ Coded(written, p + Len(flags), a)
      /\ Coded(written, p + Len(flags) + Len(a), b)
      /\ Coded(written, p + Len(flags) + Len(a) + Len(b), d)
      /\ Len(c) = Len(flags) + Len(a) + Len(b) + Len(d)
      /\ Len(a) \in Nat /\ Len(b) \in Nat /\ Len(d) \in Nat
  <2>1. Coded(written, p, flags \o a \o b \o d)
    BY <1>1
  <2>2. flags \in Seq(BOOLEAN) /\ written \in Seq(BOOLEAN)
    BY <1>3, <1>5
  <2> QED
    BY <1>1, <1>4, <2>1, <2>2, FourParts
<1>7. PICK x, y, z :
           /\ x = CoordAt(Bit(p), p + 3) /\ y = CoordAt(Bit(p + 1), x.end)
           /\ z = CoordAt(Bit(p + 2), y.end)
           /\ res = Result(<<x.value, y.value, z.value>>, z.end)
  BY Vec3coordIs
<1>8. res.end = z.end /\ res.fits /\ res.value = <<x.value, y.value, z.value>>
  BY <1>7 DEF Result
<1>9. Forward(res, p) /\ res.end >= p + 3
  BY <1>5, Vec3coordForward
<1>10. Forward(x, p + 3) /\ x.end \in Nat
  BY <1>5, <1>7, CoordAtForward DEF Forward
<1>11. Forward(y, x.end) /\ y.end \in Nat
  BY <1>7, <1>10, CoordAtForward DEF Forward
<1>12. Forward(z, y.end)
  BY <1>7, <1>11, CoordAtForward
<1> HIDE DEF res
<1>13. SUFFICES ASSUME Within(res, p, c) PROVE res.end = p + Len(c) /\ res.value = v
  BY <1>8, <1>9 DEF Reads, res
<1>14. p + 3 <= available
  BY <1>3, <1>5, <1>6, <1>9, <1>13 DEF Within, Forward
<1>15. (Bit(p) <=> v[1] # 0) /\ (Bit(p + 1) <=> v[2] # 0) /\ (Bit(p + 2) <=> v[3] # 0)
  <2>1. 0 \in 0 .. Len(flags) - 1 /\ 1 \in 0 .. Len(flags) - 1 /\ 2 \in 0 .. Len(flags) - 1
        /\ p + 0 < available /\ p + 1 < available /\ p + 2 < available /\ p + 0 = p
    BY <1>3, <1>5, <1>14
  <2>2. (Bit(p + 0) <=> flags[0 + 1]) /\ (Bit(p + 1) <=> flags[1 + 1]) /\ (Bit(p + 2) <=> flags[2 + 1])
    BY <1>6, <2>1, BitRead
  <2> QED
    BY <1>3, <2>1, <2>2
<1>16. Coded(written, p + 3, a)
  BY <1>3, <1>6
<1>17. Reads(x, p + 3, a, v[1])
  BY <1>2, <1>7, <1>15, <1>16, CoordAtReads DEF a
<1>18. Within(x, p + 3, a)
  <2>1. CASE res.end <= available
    <3>1. x.end <= y.end /\ y.end <= z.end /\ z.end \in Nat
      BY <1>11, <1>12 DEF Forward
    <3>2. x.end <= available
      BY <1>5, <1>8, <1>10, <1>11, <2>1, <3>1
    <3> QED
      BY <3>2 DEF Within
  <2>2. CASE p + Len(c) <= available
    <3>1. p + 3 + Len(a) <= available
      BY <1>3, <1>5, <1>6, <2>2
    <3> QED
      BY <3>1 DEF Within
  <2> QED
    BY <1>13, <2>1, <2>2 DEF Within
<1>19. x.end = p + 3 + Len(a) /\ x.value = v[1]
  BY <1>17, <1>18 DEF Reads
<1>20. Coded(written, x.end, b)
  BY <1>3, <1>6, <1>19
<1>21. Reads(y, x.end, b, v[2])
  BY <1>2, <1>7, <1>15, <1>20, CoordAtReads DEF b
<1>22. Within(y, x.end, b)
  BY <1>3, <1>5, <1>6, <1>8, <1>10, <1>11, <1>12, <1>13, <1>19 DEF Within, Forward
<1>23. y.end = x.end + Len(b) /\ y.value = v[2]
  BY <1>21, <1>22 DEF Reads
<1>24. Coded(written, y.end, d)
  BY <1>3, <1>6, <1>19, <1>23
<1>25. Reads(z, y.end, d, v[3])
  BY <1>2, <1>7, <1>15, <1>24, CoordAtReads DEF d
<1>26. Within(z, y.end, d)
  BY <1>3, <1>5, <1>6, <1>8, <1>11, <1>12, <1>13, <1>19, <1>23 DEF Within, Forward
<1>27. z.end = y.end + Len(d) /\ z.value = v[3]
  BY <1>25, <1>26 DEF Reads
<1>28. res.end = p + Len(c)
  BY <1>3, <1>5, <1>6, <1>8, <1>19, <1>23, <1>27
<1>29. <<v[1], v[2], v[3]>> = v
  OBVIOUS
<1> QED
  BY <1>8, <1>19, <1>23, <1>27, <1>28, <1>29

-----------------------------------------------------------------------------
(* Normals                                                                  *)

NormalCode(v) == <<v < 0>> \o NumberBits(Abs(v), 11)

\* The code of a component of a normal, as bits.
LEMMA NormalCodeTyped ==
  ASSUME NEW v \in Normals
  PROVE  /\ <<v < 0>> \in Seq(BOOLEAN) /\ Len(<<v < 0>>) = 1 /\ <<v < 0>>[1] = (v < 0)
         /\ NumberBits(Abs(v), 11) \in Seq(BOOLEAN) /\ Len(NumberBits(Abs(v), 11)) = 11
         /\ NormalCode(v) \in Seq(BOOLEAN) /\ OptionalNormal(v) \in Seq(BOOLEAN)
<1> DEFINE a == <<v < 0>>
           b == NumberBits(Abs(v), 11)
<1>1. a \in Seq(BOOLEAN) /\ Len(a) = 1 /\ a[1] = (v < 0)
  <2>1. (v < 0) \in BOOLEAN
    OBVIOUS
  <2> QED
    BY <2>1, OneFlag
<1>2. b \in Seq(BOOLEAN) /\ Len(b) = 11
  BY NumberBitsTyped
<1>3. <<>> \in Seq(BOOLEAN)
  BY EmptySeq
<1>4. NormalCode(v) = a \o b /\ (OptionalNormal(v) = <<>> \/ OptionalNormal(v) = a \o b)
  BY DEF NormalCode, OptionalNormal
<1> HIDE DEF a, b
<1>5. a \o b \in Seq(BOOLEAN)
  BY <1>1, <1>2, ConcatProperties
<1> QED
  BY <1>1, <1>2, <1>3, <1>4, <1>5 DEF a, b

\* A component of a normal takes twelve bits.
LEMMA BitnormalForward ==
  ASSUME NEW p \in Nat
  PROVE  Forward(Bitnormal(p), p) /\ Bitnormal(p).end = p + 12
  BY DEF Bitnormal, Result, Forward

\* It is read as it was written.
LEMMA BitnormalReads ==
  ASSUME DataTyped, NEW p, NEW v \in Normals, Coded(written, p, NormalCode(v))
  PROVE  Reads(Bitnormal(p), p, NormalCode(v), v)
<1> DEFINE a == <<v < 0>>
           n == Abs(v)
           b == NumberBits(n, 11)
           c == NormalCode(v)
           res == Bitnormal(p)
<1>1. a \in Seq(BOOLEAN) /\ Len(a) = 1 /\ a[1] = (v < 0) /\ b \in Seq(BOOLEAN) /\ Len(b) = 11
  BY NormalCodeTyped
<1>2. c = a \o b
  BY DEF NormalCode
<1>3. v \in Int /\ n \in Nat /\ n <= 2047 /\ Signed(v < 0, n) = v
  BY DEF Normals, Abs, Signed
<1>4. p \in Nat /\ available \in Nat /\ written \in Seq(BOOLEAN)
  BY DEF Coded, DataTyped
<1> HIDE DEF a, b, n
<1>5. Coded(written, p, a) /\ Coded(written, p + 1, b) /\ Len(c) = 12
  <2>1. Coded(written, p, a \o b) /\ a \in Seq(BOOLEAN) /\ b \in Seq(BOOLEAN) /\ written \in Seq(BOOLEAN)
    BY <1>1, <1>2, <1>4
  <2>2. Coded(written, p, a) /\ Coded(written, p + Len(a), b) /\ Len(a \o b) = Len(a) + Len(b)
    BY <2>1, CodedParts
  <2> QED
    BY <1>1, <1>2, <2>2
<1>6. Forward(res, p) /\ res.end = p + 12 /\ res.fits
      /\ res.value = Signed(Bit(p), NumberOf(Ubit64(p + 1, 11), 11))
  BY <1>4, BitnormalForward DEF Bitnormal, Result
<1> HIDE DEF c, res
<1>7. SUFFICES ASSUME Within(res, p, c) PROVE res.value = v
  BY <1>5, <1>6 DEF Reads, c, res
<1>8. p + 12 <= available
  BY <1>5, <1>6, <1>7 DEF Within
<1>9. Bit(p) <=> v < 0
  <2>1. 0 \in 0 .. Len(a) - 1 /\ p + 0 < available /\ p + 0 = p
    BY <1>1, <1>4, <1>8
  <2>2. Bit(p + 0) <=> a[0 + 1]
    BY <1>5, <2>1, BitRead
  <2>3. a[0 + 1] = (v < 0)
    BY <1>1
  <2> QED
    BY <2>1, <2>2, <2>3
<1>10. NumberOf(Ubit64(p + 1, 11), 11) = n
  <2> DEFINE e == 11
             t == p + 1
  <2>1. n < 2 ^ e /\ e \in Nat /\ n \in Nat
    BY <1>3, PowersUsed
  <2>2. Coded(written, t, NumberBits(n, e)) /\ t + e <= available
    BY <1>4, <1>5, <1>8 DEF b
  <2> HIDE DEF e, t
  <2>3. NumberOf(Ubit64(t, e), e) = n
    BY <2>1, <2>2, NumberRead
  <2> QED
    BY <2>3 DEF e, t
<1>11. Signed(Bit(p), n) = v
  BY <1>3, <1>9 DEF Signed
<1> QED
  BY <1>6, <1>10, <1>11

NormalAt(b, p) == IF b THEN Bitnormal(p) ELSE Result(0, p)

\* A component that is there or not ends at or behind its start.
LEMMA NormalAtForward ==
  ASSUME NEW b, NEW p \in Nat
  PROVE  Forward(NormalAt(b, p), p)
<1>1. Forward(Result(0, p), p)
  BY DEF Forward, Result
<1> QED
  BY <1>1, BitnormalForward DEF NormalAt

\* It is read as it was written, zero if it is not there.
LEMMA NormalAtReads ==
  ASSUME DataTyped, NEW p, NEW v \in Normals, Coded(written, p, OptionalNormal(v)), NEW b, b <=> v # 0
  PROVE  Reads(NormalAt(b, p), p, OptionalNormal(v), v)
<1>1. CASE v = 0
  <2>1. NormalAt(b, p) = Result(0, p) /\ OptionalNormal(v) = <<>> /\ Len(<<>>) = 0 /\ p \in Nat
    BY <1>1, EmptySeq DEF NormalAt, OptionalNormal, Coded
  <2> QED
    BY <1>1, <2>1 DEF Reads, Forward, Result
<1>2. CASE v # 0
  <2>1. NormalAt(b, p) = Bitnormal(p) /\ OptionalNormal(v) = NormalCode(v)
    BY <1>2 DEF NormalAt, OptionalNormal, NormalCode
  <2> QED
    BY <2>1, BitnormalReads
<1> QED
  BY <1>1, <1>2

\* The two components of a normal that are sent, one behind the other.
LEMMA Vec3normalIs ==
  ASSUME NEW p
  PROVE  \E x, y :
           /\ x = NormalAt(Bit(p), p + 2) /\ y = NormalAt(Bit(p + 1), x.end)
           /\ Vec3normal(p) = Result(<<x.value, y.value, Third(x.value, y.value, Bit(y.end))>>, y.end + 1)
  BY DEF Vec3normal, NormalAt

\* At least two flags and a sign are read.
LEMMA Vec3normalForward ==
  ASSUME NEW p \in Nat
  PROVE  Forward(Vec3normal(p), p) /\ Vec3normal(p).end >= p + 3
<1>1. PICK x, y :
           /\ x = NormalAt(Bit(p), p + 2) /\ y = NormalAt(Bit(p + 1), x.end)
           /\ Vec3normal(p) = Result(<<x.value, y.value, Third(x.value, y.value, Bit(y.end))>>, y.end + 1)
  BY Vec3normalIs
<1>2. Forward(x, p + 2)
  BY <1>1, NormalAtForward
<1>3. x.end \in Nat
  BY <1>2 DEF Forward
<1>4. Forward(y, x.end)
  BY <1>1, <1>3, NormalAtForward
<1>5. Vec3normal(p).end = y.end + 1
  BY <1>1 DEF Result
<1> QED
  BY <1>2, <1>4, <1>5 DEF Forward

\* A normal is read as it was written, its third component made of the others.
LEMMA Vec3normalReads ==
  ASSUME DataTyped, NEW p, NEW v, Encodable("vec3normal", v), NEW c \in CodesOf("vec3normal", v),
         Coded(written, p, c)
  PROVE  Reads(Vec3normal(p), p, c, v)
<1> DEFINE flags == <<v[1] # 0, v[2] # 0>>
           a == OptionalNormal(v[1])
           b == OptionalNormal(v[2])
           last == v[3].negative
           d == <<last>>
           res == Vec3normal(p)
<1>1. c = flags \o a \o b \o d
  BY DEF CodesOf
<1>2. v[1] \in Normals /\ v[2] \in Normals /\ last \in BOOLEAN
      /\ v = <<v[1], v[2], Third(v[1], v[2], last)>>
  BY DEF Encodable
<1>3. flags \in Seq(BOOLEAN) /\ Len(flags) = 2 /\ flags[1] = (v[1] # 0) /\ flags[2] = (v[2] # 0)
  <2>1. (v[1] # 0) \in BOOLEAN /\ (v[2] # 0) \in BOOLEAN
    OBVIOUS
  <2> QED
    BY <2>1, TwoFlags
<1>4. a \in Seq(BOOLEAN) /\ b \in Seq(BOOLEAN)
  BY <1>2, NormalCodeTyped
<1>5. d \in Seq(BOOLEAN) /\ Len(d) = 1 /\ d[1] = last
  <2> HIDE DEF last
  <2> QED
    BY <1>2, OneFlag
<1>6. p \in Nat /\ available \in Nat /\ written \in Seq(BOOLEAN)
  BY DEF Coded, DataTyped
<1> HIDE DEF flags, a, b, d, last
<1>7. /\ Coded(written, p, flags) /\ Coded(written, p + Len(flags), a)
      /\ Coded(written, p + Len(flags) + Len(a), b)
      /\ Coded(written, p + Len(flags) + Len(a) + Len(b), d)
      /\ Len(c) = Len(flags) + Len(a) + Len(b) + Len(d)
      /\ Len(a) \in Nat /\ Len(b) \in Nat
  <2>1. Coded(written, p, flags \o a \o b \o d)
    BY <1>1
  <2>2. flags \in Seq(BOOLEAN) /\ written \in Seq(BOOLEAN) /\ d \in Seq(BOOLEAN)
    BY <1>3, <1>5, <1>6
  <2> QED
    BY <1>1, <1>4, <2>1, <2>2, FourParts
<1>8. PICK x, y :
           /\ x = NormalAt(Bit(p), p + 2) /\ y = NormalAt(Bit(p + 1), x.end)
           /\ res = Result(<<x.value, y.value, Third(x.value, y.value, Bit(y.end))>>, y.end + 1)
  BY Vec3normalIs
<1>9. res.end = y.end + 1 /\ res.fits /\ res.value = <<x.value, y.value, Third(x.value, y.value, Bit(y.end))>>
  BY <1>8 DEF Result
<1>10. Forward(res, p) /\ res.end >= p + 3
  BY <1>6, Vec3normalForward
<1>11. Forward(x, p + 2) /\ x.end \in Nat
  BY <1>6, <1>8, NormalAtForward DEF Forward
<1>12. Forward(y, x.end) /\ y.end \in Nat /\ x.end <= y.end
  BY <1>8, <1>11, NormalAtForward DEF Forward
<1> HIDE DEF res
<1>13. SUFFICES ASSUME Within(res, p, c) PROVE res.end = p + Len(c) /\ res.value = v
  BY <1>9, <1>10 DEF Reads, res
<1>14. p + 2 <= available
  BY <1>3, <1>5, <1>6, <1>7, <1>10, <1>13 DEF Within, Forward
<1>15. (Bit(p) <=> v[1] # 0) /\ (Bit(p + 1) <=> v[2] # 0)
  <2>1. 0 \in 0 .. Len(flags) - 1 /\ 1 \in 0 .. Len(flags) - 1
        /\ p + 0 < available /\ p + 1 < available /\ p + 0 = p
    BY <1>3, <1>6, <1>14
  <2>2. (Bit(p + 0) <=> flags[0 + 1]) /\ (Bit(p + 1) <=> flags[1 + 1])
    BY <1>7, <2>1, BitRead
  <2> QED
    BY <1>3, <2>1, <2>2
<1>16. Coded(written, p + 2, a)
  BY <1>3, <1>7
<1>17. Reads(x, p + 2, a, v[1])
  BY <1>2, <1>8, <1>15, <1>16, NormalAtReads DEF a
<1>18. Within(x, p + 2, a)
  <2>1. CASE res.end <= available
    <3>1. x.end <= available
      BY <1>6, <1>9, <1>11, <1>12, <2>1
    <3> QED
      BY <3>1 DEF Within
  <2>2. CASE p + Len(c) <= available
    <3>1. p + 2 + Len(a) <= available
      BY <1>3, <1>5, <1>6, <1>7, <2>2
    <3> QED
      BY <3>1 DEF Within
  <2> QED
    BY <1>13, <2>1, <2>2 DEF Within
<1>19. x.end = p + 2 + Len(a) /\ x.value = v[1]
  BY <1>17, <1>18 DEF Reads
<1>20. Coded(written, x.end, b)
  BY <1>3, <1>7, <1>19
<1>21. Reads(y, x.end, b, v[2])
  BY <1>2, <1>8, <1>15, <1>20, NormalAtReads DEF b
<1>22. Within(y, x.end, b)
  <2>1. CASE res.end <= available
    <3>1. y.end <= available
      BY <1>6, <1>9, <1>12, <2>1
    <3> QED
      BY <3>1 DEF Within
  <2>2. CASE p + Len(c) <= available
    <3>1. x.end + Len(b) <= available
      BY <1>3, <1>5, <1>6, <1>7, <1>19, <2>2
    <3> QED
      BY <3>1 DEF Within
  <2> QED
    BY <1>13, <2>1, <2>2 DEF Within
<1>23. y.end = x.end + Len(b) /\ y.value = v[2]
  BY <1>21, <1>22 DEF Reads
<1>24. res.end = p + Len(c)
  BY <1>3, <1>5, <1>6, <1>7, <1>9, <1>19, <1>23
<1>25. Bit(y.end) <=> last
  <2>1. Coded(written, y.end, d)
    BY <1>3, <1>7, <1>19, <1>23
  <2>2. res.end <= available
    BY <1>13, <1>24 DEF Within
  <2>3. 0 \in 0 .. Len(d) - 1 /\ y.end + 0 < available /\ y.end + 0 = y.end
    BY <1>5, <1>6, <1>9, <1>12, <2>2
  <2>4. Bit(y.end + 0) <=> d[0 + 1]
    BY <2>1, <2>3, BitRead
  <2> QED
    BY <1>5, <2>3, <2>4
<1>26. Third(v[1], v[2], Bit(y.end)) = Third(v[1], v[2], last)
  <2>1. Bit(y.end) \in BOOLEAN
    BY <1>25, <1>2 DEF Bit
  <2>2. Bit(y.end) = last
    BY <1>2, <1>25, <2>1
  <2> QED
    BY <2>2
<1> QED
  BY <1>2, <1>9, <1>19, <1>23, <1>24, <1>26

-----------------------------------------------------------------------------
(* Strings                                                                  *)

CharAt(p, k) == Ubit64(p + 8 * k, 8)
EndsChar(char, line) == char = {} \/ (line /\ char = NewLine)
LengthAt(p, line) ==
  Min({k \in 0 .. (available + behind) \div 8 + 1 : EndsChar(CharAt(p, k), line)})
TakenAt(p, line) == Min({LengthAt(p, line), StringBufSize - 1})

\* The reading of a string in terms of its length.
LEMMA StringIs ==
  ASSUME NEW p, NEW line
  PROVE  /\ String(p, line).end = p + 8 * (LengthAt(p, line) + 1)
         /\ String(p, line).fits = (LengthAt(p, line) < StringBufSize)
         /\ String(p, line).value = [k \in 1 .. TakenAt(p, line) |-> CharAt(p, k - 1)]
  BY DEF String, LengthAt, EndsChar, CharAt, TakenAt

\* Every string ends, at the latest with the zeros behind the memory.
LEMMA LengthTyped ==
  ASSUME DataTyped, NEW p \in Nat, NEW line
  PROVE  /\ LengthAt(p, line) \in Nat /\ EndsChar(CharAt(p, LengthAt(p, line)), line)
         /\ \A k \in Nat : EndsChar(CharAt(p, k), line) => LengthAt(p, line) <= k
<1> DEFINE s == available + behind
           a == s \div 8
           N == a + 1
           T == {k \in 0 .. N : EndsChar(CharAt(p, k), line)}
<1>1. s \in Nat /\ available \in Nat /\ behind \in Nat
  BY DEF DataTyped
<1>2. a \in Nat /\ 8 * N > s
  <2>1. s = 8 * a + (s % 8) /\ a \in Int /\ s % 8 \in 0 .. 8 - 1
    <3> HIDE DEF s
    <3> QED
      BY <1>1, DivMod
  <2> DEFINE r == s % 8
  <2> HIDE DEF s, a, r
  <2> QED
    BY <1>1, <2>1 DEF r
<1>3. CharAt(p, N) = {}
  <2>1. ASSUME NEW i \in 0 .. 8 - 1 PROVE ~Bit((p + 8 * N) + i)
    <3> DEFINE q == (p + 8 * N) + i
    <3>1. q \in Nat /\ q > s /\ s >= available
      <4> HIDE DEF a
      <4> QED
        BY <1>1, <1>2
    <3> HIDE DEF q
    <3>2. ~(q < available) /\ ~(q < available + behind)
      BY <1>1, <3>1
    <3>3. ~Bit(q)
      BY <3>2 DEF Bit
    <3> QED
      BY <3>3 DEF q
  <2> HIDE DEF N
  <2> QED
    BY <2>1 DEF CharAt, Ubit64
<1>4. T \in SUBSET Nat /\ N \in T /\ N \in Nat
  BY <1>2, <1>3 DEF EndsChar
<1>5. LengthAt(p, line) = Min(T)
  BY DEF LengthAt
<1>6. \A k \in 0 .. N : k \in T <=> EndsChar(CharAt(p, k), line)
  OBVIOUS
<1>7. T \subseteq 0 .. N
  OBVIOUS
<1> HIDE DEF T, N
<1>8. Min(T) \in T /\ \A m \in T : Min(T) <= m
  BY <1>4, MinIs
<1>9. ASSUME NEW k \in Nat, EndsChar(CharAt(p, k), line) PROVE Min(T) <= k
  <2>1. CASE k <= N
    BY <1>4, <1>6, <1>8, <1>9, <2>1
  <2>2. CASE N < k
    <3>1. Min(T) \in 0 .. N
      BY <1>7, <1>8
    <3> QED
      BY <1>4, <2>2, <3>1
  <2> QED
    BY <1>4, <2>1, <2>2
<1>10. Min(T) \in 0 .. N
  BY <1>7, <1>8
<1>11. EndsChar(CharAt(p, Min(T)), line)
  BY <1>6, <1>8, <1>10
<1> QED
  BY <1>4, <1>5, <1>9, <1>10, <1>11

\* At least one character is read.
LEMMA StringForward ==
  ASSUME DataTyped, NEW p \in Nat, NEW line
  PROVE  Forward(String(p, line), p)
<1>1. LengthAt(p, line) \in Nat
  BY LengthTyped
<1>2. String(p, line).end = p + 8 * (LengthAt(p, line) + 1)
  BY StringIs
<1>3. p + 8 * (LengthAt(p, line) + 1) \in Nat /\ p + 8 * (LengthAt(p, line) + 1) >= p
  BY <1>1
<1> QED
  BY <1>2, <1>3 DEF Forward

\* The code of a text, as bits, and its length.
LEMMA CharCodesTyped ==
  ASSUME NEW S, NEW text \in Seq(S), NEW end \in S
  PROVE  /\ CharCodesOf(text, end) \in Seq(BOOLEAN)
         /\ Len(CharCodesOf(text, end)) = 8 * (Len(text) + 1)
         /\ \A k \in 0 .. Len(text), i \in 0 .. 7 :
              CharCodesOf(text, end)[8 * k + i + 1] <=> i \in Append(text, end)[k + 1]
<1> DEFINE f == CharCodesOf(text, end)
           m == Len(text)
           n == 8 * (m + 1)
           t == Append(text, end)
<1>1. m \in Nat /\ n \in Nat
  BY LenProperties
<1>2. f = [i \in 1 .. n |-> (i - 1) % 8 \in t[(i - 1) \div 8 + 1]]
  BY DEF CharCodesOf
<1> HIDE DEF f, m, t
<1>3. \A i \in 1 .. n : f[i] = ((i - 1) % 8 \in t[(i - 1) \div 8 + 1])
  BY <1>2, Zenon
<1>4. f = [i \in 1 .. n |-> f[i]]
  BY <1>2, Zenon
<1>5. f \in Seq(BOOLEAN) /\ Len(f) = n
  <2> HIDE DEF n
  <2>1. ASSUME NEW i \in 1 .. n PROVE f[i] \in BOOLEAN
    <3>1. f[i] = ((i - 1) % 8 \in t[(i - 1) \div 8 + 1])
      BY <1>3
    <3> QED
      BY <3>1
  <2> QED
    BY <1>1, <1>4, <2>1, TruthSequence
<1>6. ASSUME NEW k \in 0 .. m, NEW i \in 0 .. 7 PROVE f[8 * k + i + 1] <=> i \in t[k + 1]
  <2> DEFINE j == 8 * k + i + 1
             h == 8 * k + i
  <2>1. j \in 1 .. n /\ j - 1 = h /\ h = 8 * k + i /\ k \in Int /\ h \in Int /\ i \in 0 .. 8 - 1
    BY <1>1
  <2> HIDE DEF j, h
  <2>2. h % 8 = i /\ h \div 8 = k
    BY <2>1, DivIs
  <2> HIDE DEF n
  <2>3. f[j] = ((j - 1) % 8 \in t[(j - 1) \div 8 + 1])
    BY <1>3, <2>1
  <2> QED
    BY <2>1, <2>2, <2>3 DEF j
<1> QED
  BY <1>5, <1>6 DEF f, m, t, n

\* What a string is read as.
ReadsText(r, p, c, text) ==
  /\ Forward(r, p)
  /\ Within(r, p, c) => /\ r.end = p + Len(c)
                        /\ r.fits <=> Len(text) < StringBufSize
                        /\ r.fits => r.value = text

\* A string ends with the code of its text, and what fits into the buffer is the text.
LEMMA StringReads ==
  ASSUME DataTyped, NEW p, NEW line \in BOOLEAN, NEW text \in Seq(SUBSET (0 .. 7)),
         \A k \in 1 .. Len(text) : ~EndsChar(text[k], line),
         NEW end \in SUBSET (0 .. 7), EndsChar(end, line),
         Coded(written, p, CharCodesOf(text, end))
  PROVE  ReadsText(String(p, line), p, CharCodesOf(text, end), text)
<1> DEFINE c == CharCodesOf(text, end)
           n == Len(text)
           t == Append(text, end)
           l == LengthAt(p, line)
           res == String(p, line)
<1>1. n \in Nat /\ \A k \in 1 .. n : text[k] \in SUBSET (0 .. 7)
  BY LenProperties
<1>2. c \in Seq(BOOLEAN) /\ Len(c) = 8 * (n + 1)
      /\ \A k \in 0 .. n, i \in 0 .. 7 : c[8 * k + i + 1] <=> i \in t[k + 1]
  <2> DEFINE S == SUBSET (0 .. 7)
  <2>1. text \in Seq(S) /\ end \in S
    OBVIOUS
  <2> HIDE DEF S
  <2> QED
    BY <2>1, CharCodesTyped
<1>3. /\ \A k \in 1 .. n : t[k] = text[k]
      /\ t[n + 1] = end
  BY AppendProperties
<1>4. p \in Nat /\ available \in Nat
  BY DEF Coded, DataTyped
<1>5. l \in Nat /\ EndsChar(CharAt(p, l), line)
      /\ \A k \in Nat : EndsChar(CharAt(p, k), line) => l <= k
  BY <1>4, LengthTyped
<1>6. Forward(res, p)
  BY <1>4, StringForward
<1>7. res.end = p + 8 * (l + 1) /\ res.fits = (l < StringBufSize)
      /\ res.value = [k \in 1 .. TakenAt(p, line) |-> CharAt(p, k - 1)]
  BY StringIs
<1>8. TakenAt(p, line) = Min({l, StringBufSize - 1}) /\ StringBufSize \in Nat \ {0}
  BY BitsAssumption DEF TakenAt
<1>9. Coded(written, p, c)
  OBVIOUS
<1> HIDE DEF c, n, t, l, res
<1>10. SUFFICES ASSUME Within(res, p, c)
                PROVE  /\ res.end = p + Len(c) /\ (res.fits <=> n < StringBufSize)
                       /\ res.fits => res.value = text
  BY <1>6 DEF ReadsText, c, n, res
<1>11. ASSUME NEW k \in 0 .. n, k <= l PROVE CharAt(p, k) = t[k + 1]
  <2>1. ASSUME NEW i \in 0 .. 7 PROVE Bit((p + 8 * k) + i) <=> i \in t[k + 1]
    <3>1. p + (8 * k + i) < p + 8 * (l + 1) /\ p + (8 * k + i) < p + 8 * (n + 1)
      BY <1>1, <1>4, <1>5, <1>11
    <3> DEFINE j == 8 * k + i
    <3>2. j \in 0 .. Len(c) - 1 /\ p + j < available /\ p + j = (p + 8 * k) + i
      <4>1. Len(c) \in Nat /\ j \in 0 .. Len(c) - 1 /\ p + j = (p + 8 * k) + i
        BY <1>1, <1>2, <1>4
      <4>2. p + j < res.end /\ res.end \in Nat
        BY <1>4, <1>5, <1>7, <3>1
      <4>3. p + j < p + Len(c)
        BY <1>2, <3>1
      <4> HIDE DEF j
      <4>4. p + j < available
        BY <1>4, <1>10, <4>1, <4>2, <4>3 DEF Within
      <4> QED
        BY <4>1, <4>4
    <3>3. c[j + 1] <=> i \in t[k + 1]
      BY <1>2
    <3> HIDE DEF j
    <3>4. Bit(p + j) <=> c[j + 1]
      BY <1>9, <3>2, BitRead
    <3> QED
      BY <3>2, <3>3, <3>4
  <2>2. t[k + 1] \subseteq 0 .. 7
    <3>1. CASE k = n
      BY <1>3, <3>1
    <3>2. CASE k # n
      <4>1. k + 1 \in 1 .. n
        BY <1>1, <3>2
      <4> QED
        BY <1>1, <1>3, <4>1
    <3> QED
      BY <3>1, <3>2
  <2>3. 0 .. 8 - 1 = 0 .. 7
    OBVIOUS
  <2>4. CharAt(p, k) = {i \in 0 .. 7 : Bit((p + 8 * k) + i)}
    BY <2>3 DEF CharAt, Ubit64
  <2> QED
    BY <2>1, <2>2, <2>4
<1>12. l = n
  <2>1. CASE l < n
    <3>1. l \in 0 .. n /\ l <= l /\ l + 1 \in 1 .. n
      BY <1>1, <1>5, <2>1
    <3>2. CharAt(p, l) = text[l + 1]
      BY <1>3, <1>11, <3>1
    <3>3. ~EndsChar(text[l + 1], line)
      BY <3>1 DEF n
    <3> QED
      BY <1>5, <3>2, <3>3
  <2>2. CASE n < l
    <3>1. n \in 0 .. n /\ n <= l
      BY <1>1, <1>5, <2>2
    <3>2. CharAt(p, n) = end
      BY <1>3, <1>11, <3>1
    <3> QED
      BY <1>1, <1>5, <2>2, <3>2
  <2> QED
    BY <1>1, <1>5, <2>1, <2>2
<1>13. res.end = p + Len(c)
  BY <1>2, <1>7, <1>12
<1>14. ASSUME n < StringBufSize PROVE res.value = text
  <2> DEFINE z == {n, StringBufSize - 1}
  <2>1. z \in SUBSET Nat /\ z # {}
    BY <1>1, <1>8
  <2>2. Min(z) \in z /\ \A m \in z : Min(z) <= m
    <3> HIDE DEF z
    <3> QED
      BY <2>1, MinIs
  <2>3. Min(z) = n
    BY <1>1, <1>8, <1>14, <2>2
  <2>4. res.value = [k \in 1 .. n |-> CharAt(p, k - 1)]
    BY <1>7, <1>8, <1>12, <2>3
  <2>5. ASSUME NEW k \in 1 .. n PROVE CharAt(p, k - 1) = text[k]
    <3>1. k - 1 \in 0 .. n /\ k - 1 <= l /\ (k - 1) + 1 = k
      BY <1>1, <1>12
    <3>2. CharAt(p, k - 1) = t[(k - 1) + 1]
      BY <1>11, <3>1
    <3> QED
      BY <1>3, <3>1, <3>2
  <2>6. text = [k \in 1 .. n |-> text[k]]
    BY LenProperties DEF n
  <2> QED
    BY <2>4, <2>5, <2>6
<1> QED
  BY <1>7, <1>12, <1>13, <1>14

-----------------------------------------------------------------------------
(* Every kind of value                                                      *)

Kinds == {"bool", "bitfloat", "fixed64", "ubitvar", "ubitvarfp", "bitangle", "uvarint32",
          "varint32", "uvarint64", "varint64", "bitcoord", "vec3coord", "vec3normal",
          "string", "line"}

\* The reader of each kind.
LEMMA ReadAtIs ==
  ASSUME NEW p
  PROVE  /\ ReadAt("bool", p) = Fixed(p, 1) /\ ReadAt("bitfloat", p) = Fixed(p, 32)
         /\ ReadAt("fixed64", p) = Fixed(p, 64) /\ ReadAt("bitangle", p) = Fixed(p, 20)
         /\ ReadAt("ubitvar", p) = Ubitvar(p) /\ ReadAt("ubitvarfp", p) = Ubitvarfp(p)
         /\ ReadAt("uvarint32", p) = Uvarint(p, 32) /\ ReadAt("varint32", p) = Varint(p, 32)
         /\ ReadAt("uvarint64", p) = Uvarint(p, 64) /\ ReadAt("varint64", p) = Varint(p, 64)
         /\ ReadAt("bitcoord", p) = Bitcoord(p) /\ ReadAt("vec3coord", p) = Vec3coord(p)
         /\ ReadAt("vec3normal", p) = Vec3normal(p)
         /\ ReadAt("string", p) = String(p, FALSE) /\ ReadAt("line", p) = String(p, TRUE)
  BY DEF ReadAt

\* The ends that a text may have, and the texts that have none of them inside.
TextEnds(line) == IF line THEN {{}, NewLine} ELSE {{}}
Texts(line) == Seq((SUBSET (0 .. 7)) \ TextEnds(line))

\* The encodings of each kind.
LEMMA CodesOfAre ==
  ASSUME NEW v
  PROVE  /\ CodesOf("bool", v) = {BitsOf(v, 1)} /\ CodesOf("bitfloat", v) = {BitsOf(v, 32)}
         /\ CodesOf("fixed64", v) = {BitsOf(v, 64)} /\ CodesOf("bitangle", v) = {BitsOf(v, 20)}
         /\ CodesOf("ubitvar", v) = UbitvarCodes(v) /\ CodesOf("ubitvarfp", v) = UbitvarfpCodes(v)
         /\ CodesOf("uvarint32", v) = UvarintCodes(v, 32)
         /\ CodesOf("varint32", v) = UvarintCodes(Zigzag(v, 32), 32)
         /\ CodesOf("uvarint64", v) = UvarintCodes(v, 64)
         /\ CodesOf("varint64", v) = UvarintCodes(Zigzag(v, 64), 64)
         /\ CodesOf("bitcoord", v) = {CoordCode(v)}
  BY DEF CodesOf

\* Those of texts, with the ends that they may have.
LEMMA TextCodesOf ==
  ASSUME NEW v
  PROVE  /\ \A c \in CodesOf("string", v) : \E end \in TextEnds(FALSE) : c = CharCodesOf(v, end)
         /\ \A c \in CodesOf("line", v) : \E end \in TextEnds(TRUE) : c = CharCodesOf(v, end)
         /\ Encodable("string", v) => v \in Texts(FALSE)
         /\ Encodable("line", v) => v \in Texts(TRUE)
  BY DEF CodesOf, Encodable, TextEnds, Texts

\* What can be encoded of each kind.
LEMMA EncodableIs ==
  ASSUME NEW v
  PROVE  /\ Encodable("bool", v) => v \subseteq 0 .. 0
         /\ Encodable("bitangle", v) => v \subseteq 0 .. 19
         /\ Encodable("ubitvarfp", v) => v \subseteq 0 .. 30
         /\ Encodable("bitfloat", v) => v \subseteq 0 .. 31
         /\ Encodable("ubitvar", v) => v \subseteq 0 .. 31
         /\ Encodable("uvarint32", v) => v \subseteq 0 .. 31
         /\ Encodable("varint32", v) => v \subseteq 0 .. 31
         /\ Encodable("fixed64", v) => v \subseteq 0 .. 63
         /\ Encodable("uvarint64", v) => v \subseteq 0 .. 63
         /\ Encodable("varint64", v) => v \subseteq 0 .. 63
         /\ Encodable("bitcoord", v) => v \in Coords
         /\ Encodable("vec3coord", v) => v \in [1 .. 3 -> Coords]
  BY DEF Encodable

\* Nothing else can.
LEMMA EncodableKind ==
  ASSUME NEW kind, NEW v, Encodable(kind, v)
  PROVE  kind \in Kinds
  BY DEF Encodable, Kinds

\* Wherever it starts, a read ends at or behind its start.
LEMMA ReadAtForward ==
  ASSUME DataTyped, NEW kind \in Kinds, NEW p \in Nat
  PROVE  Forward(ReadAt(kind, p), p)
<1>1. 32 \in Widths /\ 64 \in Widths
  BY DEF Widths
<1>2. CASE kind \in {"bool", "bitfloat", "fixed64", "bitangle"}
  <2>1. /\ Forward(Fixed(p, 1), p) /\ Forward(Fixed(p, 20), p)
        /\ Forward(Fixed(p, 32), p) /\ Forward(Fixed(p, 64), p)
    BY FixedForward
  <2> QED
    BY <1>2, <2>1, ReadAtIs
<1>3. CASE kind \in {"ubitvar", "ubitvarfp"}
  BY <1>3, UbitvarForward, UbitvarfpForward, ReadAtIs
<1>4. CASE kind \in {"uvarint32", "varint32", "uvarint64", "varint64"}
  <2>1. Forward(Uvarint(p, 32), p) /\ Forward(Uvarint(p, 64), p)
    BY <1>1, UvarintForward
  <2>2. Forward(Varint(p, 32), p) /\ Forward(Varint(p, 64), p)
    BY <1>1, VarintForward
  <2> QED
    BY <1>4, <2>1, <2>2, ReadAtIs
<1>5. CASE kind \in {"bitcoord", "vec3coord", "vec3normal"}
  BY <1>5, BitcoordForward, Vec3coordForward, Vec3normalForward, ReadAtIs
<1>6. CASE kind \in {"string", "line"}
  BY <1>6, StringForward, ReadAtIs
<1> QED
  BY <1>2, <1>3, <1>4, <1>5, <1>6 DEF Kinds

\* What a read of a value gives whose code is there.
TooLong(kind, v) == kind \in {"string", "line"} /\ Len(v) >= StringBufSize
ReadsSample(r, p, c, kind, v) ==
  /\ Forward(r, p)
  /\ Within(r, p, c) => /\ r.end = p + Len(c)
                        /\ r.fits => r.value = v
                        /\ ~r.fits => TooLong(kind, v)

\* A reader that is right whatever follows is right for every kind.
LEMMA ReadsSampleOf ==
  ASSUME NEW r, NEW p, NEW c, NEW kind, NEW v, Reads(r, p, c, v)
  PROVE  ReadsSample(r, p, c, kind, v)
  BY DEF Reads, ReadsSample

\* The codes of fixed length are bits.
LEMMA FixedCodes ==
  ASSUME NEW x, NEW n \in Nat
  PROVE  BitsOf(x, n) \in Seq(BOOLEAN)
  BY BitsOfTyped

\* So are those of texts, whose characters are none of their ends.
LEMMA TextCodes ==
  ASSUME NEW line \in BOOLEAN, NEW text \in Texts(line), NEW end \in TextEnds(line)
  PROVE  /\ text \in Seq(SUBSET (0 .. 7)) /\ end \in SUBSET (0 .. 7) /\ EndsChar(end, line)
         /\ \A k \in 1 .. Len(text) : ~EndsChar(text[k], line)
         /\ CharCodesOf(text, end) \in Seq(BOOLEAN)
<1>1. NewLine \in SUBSET (0 .. 7)
  BY DEF NewLine
<1> DEFINE S == SUBSET (0 .. 7)
           T == TextEnds(line)
<1>2. T \subseteq S /\ \A char : EndsChar(char, line) <=> char \in T
  BY <1>1 DEF EndsChar, TextEnds
<1>3. text \in Seq(S \ T)
  BY DEF Texts
<1> HIDE DEF S, T
<1>4. text \in Seq(S)
  <2> DEFINE R == S \ T
  <2>1. text \in Seq(R) /\ R \subseteq S
    BY <1>3
  <2> HIDE DEF R
  <2> QED
    BY <2>1, SeqMonotonic
<1>5. ASSUME NEW k \in 1 .. Len(text) PROVE ~EndsChar(text[k], line)
  <2>1. text[k] \in S \ T
    BY <1>3, ElementOfSeq
  <2> QED
    BY <1>2, <2>1
<1>6. end \in T /\ end \in S /\ EndsChar(end, line)
  BY <1>2 DEF T
<1>7. CharCodesOf(text, end) \in Seq(BOOLEAN)
  BY <1>4, <1>6, CharCodesTyped
<1> QED
  BY <1>4, <1>5, <1>6, <1>7 DEF S

\* The ends of the ranges of bits.
LEMMA LastBits == 0 .. 31 = 0 .. 32 - 1 /\ 0 .. 63 = 0 .. 64 - 1
  OBVIOUS

\* Where a code of a value is, that value is read, up to the end of the code, unless
\* it is a string that is too long.
LEMMA FixedSample ==
  ASSUME DataTyped, NEW p, NEW n \in Nat, NEW v, v \subseteq 0 .. n - 1, NEW kind,
         NEW c \in {BitsOf(v, n)}, Coded(written, p, c)
  PROVE  ReadsSample(Fixed(p, n), p, c, kind, v)
<1>1. c = BitsOf(v, n)
  OBVIOUS
<1>2. Coded(written, p, BitsOf(v, n))
  BY <1>1
<1>3. Reads(Fixed(p, n), p, BitsOf(v, n), v)
  BY <1>2, FixedReads
<1> QED
  BY <1>1, <1>3, ReadsSampleOf

\* A text is read as it was written, or it is too long.
LEMMA TextSample ==
  ASSUME DataTyped, NEW p, NEW line \in BOOLEAN,
         NEW text \in Texts(line), NEW end \in TextEnds(line), NEW kind \in {"string", "line"},
         Coded(written, p, CharCodesOf(text, end))
  PROVE  ReadsSample(String(p, line), p, CharCodesOf(text, end), kind, text)
<1> DEFINE r == String(p, line)
           c == CharCodesOf(text, end)
<1>1. ReadsText(r, p, c, text)
  <2>1. /\ text \in Seq(SUBSET (0 .. 7)) /\ end \in SUBSET (0 .. 7) /\ EndsChar(end, line)
        /\ \A k \in 1 .. Len(text) : ~EndsChar(text[k], line)
    BY TextCodes
  <2> QED
    BY <2>1, StringReads
<1>2. Len(text) \in Nat /\ StringBufSize \in Nat
  BY LenProperties, BitsAssumption DEF Texts
<1> HIDE DEF r, c
<1>3. ReadsSample(r, p, c, kind, text)
  BY <1>1, <1>2 DEF ReadsText, ReadsSample, TooLong
<1> QED
  BY <1>3 DEF r, c

\* Every kind, in every one of its encodings, is read as it was written.
LEMMA ReadAtReads ==
  ASSUME DataTyped, NEW p, NEW kind, NEW v, Encodable(kind, v), NEW c \in CodesOf(kind, v),
         Coded(written, p, c)
  PROVE  ReadsSample(ReadAt(kind, p), p, c, kind, v)
<1>1. kind \in Kinds
  BY EncodableKind
<1>2. 32 \in Widths /\ 64 \in Widths
  BY DEF Widths
<1>3. CASE kind = "bool"
  <2>1. v \subseteq 0 .. 1 - 1
    BY <1>3, EncodableIs
  <2>2. c \in {BitsOf(v, 1)}
    BY <1>3, CodesOfAre
  <2>3. ReadAt(kind, p) = Fixed(p, 1)
    BY <1>3, ReadAtIs
  <2> QED
    BY <2>1, <2>2, <2>3, FixedSample
<1>4. CASE kind = "bitfloat"
  <2>1. v \subseteq 0 .. 32 - 1
    BY <1>4, EncodableIs, LastBits, Zenon
  <2>2. c \in {BitsOf(v, 32)}
    BY <1>4, CodesOfAre
  <2>3. ReadAt(kind, p) = Fixed(p, 32)
    BY <1>4, ReadAtIs
  <2> QED
    BY <2>1, <2>2, <2>3, FixedSample
<1>5. CASE kind = "fixed64"
  <2>1. v \subseteq 0 .. 64 - 1
    BY <1>5, EncodableIs, LastBits, Zenon
  <2>2. c \in {BitsOf(v, 64)}
    BY <1>5, CodesOfAre
  <2>3. ReadAt(kind, p) = Fixed(p, 64)
    BY <1>5, ReadAtIs
  <2> QED
    BY <2>1, <2>2, <2>3, FixedSample
<1>6. CASE kind = "bitangle"
  <2>1. v \subseteq 0 .. 20 - 1
    BY <1>6, EncodableIs
  <2>2. c \in {BitsOf(v, 20)}
    BY <1>6, CodesOfAre
  <2>3. ReadAt(kind, p) = Fixed(p, 20)
    BY <1>6, ReadAtIs
  <2> QED
    BY <2>1, <2>2, <2>3, FixedSample
<1>7. CASE kind = "ubitvar"
  <2>1. v \subseteq 0 .. 31 /\ c \in UbitvarCodes(v) /\ ReadAt(kind, p) = Ubitvar(p)
    BY <1>7, EncodableIs, CodesOfAre, ReadAtIs
  <2> QED
    BY <2>1, UbitvarReads, ReadsSampleOf
<1>8. CASE kind = "ubitvarfp"
  <2>1. c \in UbitvarfpCodes(v) /\ ReadAt(kind, p) = Ubitvarfp(p)
    BY <1>8, CodesOfAre, ReadAtIs
  <2> QED
    BY <2>1, UbitvarfpReads, ReadsSampleOf
<1>9. CASE kind = "uvarint32"
  <2>1. v \subseteq 0 .. 32 - 1
    BY <1>9, EncodableIs, LastBits, Zenon
  <2>2. c \in UvarintCodes(v, 32)
    BY <1>9, CodesOfAre
  <2>3. ReadAt(kind, p) = Uvarint(p, 32)
    BY <1>9, ReadAtIs
  <2> QED
    BY <1>2, <2>1, <2>2, <2>3, UvarintReads, ReadsSampleOf
<1>10. CASE kind = "uvarint64"
  <2>1. v \subseteq 0 .. 64 - 1
    BY <1>10, EncodableIs, LastBits, Zenon
  <2>2. c \in UvarintCodes(v, 64)
    BY <1>10, CodesOfAre
  <2>3. ReadAt(kind, p) = Uvarint(p, 64)
    BY <1>10, ReadAtIs
  <2> QED
    BY <1>2, <2>1, <2>2, <2>3, UvarintReads, ReadsSampleOf
<1>11. CASE kind = "varint32"
  <2>1. v \subseteq 0 .. 32 - 1
    BY <1>11, EncodableIs, LastBits, Zenon
  <2>2. c \in UvarintCodes(Zigzag(v, 32), 32)
    BY <1>11, CodesOfAre
  <2>3. ReadAt(kind, p) = Varint(p, 32)
    BY <1>11, ReadAtIs
  <2> QED
    BY <1>2, <2>1, <2>2, <2>3, VarintReads, ReadsSampleOf
<1>12. CASE kind = "varint64"
  <2>1. v \subseteq 0 .. 64 - 1
    BY <1>12, EncodableIs, LastBits, Zenon
  <2>2. c \in UvarintCodes(Zigzag(v, 64), 64)
    BY <1>12, CodesOfAre
  <2>3. ReadAt(kind, p) = Varint(p, 64)
    BY <1>12, ReadAtIs
  <2> QED
    BY <1>2, <2>1, <2>2, <2>3, VarintReads, ReadsSampleOf
<1>13. CASE kind = "bitcoord"
  <2>1. v \in Coords /\ c = CoordCode(v) /\ ReadAt(kind, p) = Bitcoord(p)
    BY <1>13, EncodableIs, CodesOfAre, ReadAtIs
  <2> QED
    BY <2>1, BitcoordReads, ReadsSampleOf
<1>14. CASE kind = "vec3coord"
  <2>1. v \in [1 .. 3 -> Coords] /\ c \in CodesOf("vec3coord", v) /\ ReadAt(kind, p) = Vec3coord(p)
    BY <1>14, EncodableIs, ReadAtIs
  <2> QED
    BY <2>1, Vec3coordReads, ReadsSampleOf
<1>15. CASE kind = "vec3normal"
  <2>1. Encodable("vec3normal", v) /\ c \in CodesOf("vec3normal", v) /\ ReadAt(kind, p) = Vec3normal(p)
    BY <1>15, ReadAtIs
  <2> QED
    BY <2>1, Vec3normalReads, ReadsSampleOf
<1>16. CASE kind = "string"
  <2>1. v \in Texts(FALSE) /\ ReadAt(kind, p) = String(p, FALSE)
    BY <1>16, TextCodesOf, ReadAtIs
  <2>2. PICK end \in TextEnds(FALSE) : c = CharCodesOf(v, end)
    BY <1>16, TextCodesOf
  <2>3. Coded(written, p, CharCodesOf(v, end)) /\ kind \in {"string", "line"}
    BY <1>16, <2>2
  <2>4. ReadsSample(String(p, FALSE), p, CharCodesOf(v, end), kind, v)
    BY <2>1, <2>3, TextSample
  <2> QED
    BY <2>1, <2>2, <2>4
<1>17. CASE kind = "line"
  <2>1. v \in Texts(TRUE) /\ ReadAt(kind, p) = String(p, TRUE)
    BY <1>17, TextCodesOf, ReadAtIs
  <2>2. PICK end \in TextEnds(TRUE) : c = CharCodesOf(v, end)
    BY <1>17, TextCodesOf
  <2>3. Coded(written, p, CharCodesOf(v, end)) /\ kind \in {"string", "line"}
    BY <1>17, <2>2
  <2>4. ReadsSample(String(p, TRUE), p, CharCodesOf(v, end), kind, v)
    BY <2>1, <2>3, TextSample
  <2> QED
    BY <2>1, <2>2, <2>4
<1> QED
  BY <1>1, <1>3, <1>4, <1>5, <1>6, <1>7, <1>8, <1>9, <1>10, <1>11, <1>12, <1>13, <1>14,
     <1>15, <1>16, <1>17 DEF Kinds

\* The codes of a number of variable length are bits.
LEMMA UbitvarCodesTyped ==
  ASSUME NEW x, NEW c \in UbitvarCodes(x)
  PROVE  c \in Seq(BOOLEAN)
<1>1. PICK n \in {0, 4, 8, 28} :
          c = BitsOf(x \cap 0 .. 3, 4) \o <<n \in {4, 28}, n \in {8, 28}>> \o BitsOf(ShiftRight(x, 4), n)
  BY DEF UbitvarCodes
<1> DEFINE bottom == x \cap 0 .. 3
           y == ShiftRight(x, 4)
           low == BitsOf(bottom, 4)
           flags == <<n \in {4, 28}, n \in {8, 28}>>
           high == BitsOf(y, n)
           head == low \o flags
<1>2. c = head \o high
  BY <1>1
<1>3. flags \in Seq(BOOLEAN)
  <2>1. (n \in {4, 28}) \in BOOLEAN /\ (n \in {8, 28}) \in BOOLEAN
    OBVIOUS
  <2> QED
    BY <2>1, TwoFlags
<1> HIDE DEF bottom, y
<1>4. low \in Seq(BOOLEAN) /\ high \in Seq(BOOLEAN)
  BY FixedCodes
<1> HIDE DEF low, flags, high
<1>5. head \in Seq(BOOLEAN)
  BY <1>3, <1>4, ConcatProperties
<1> HIDE DEF head
<1> QED
  BY <1>2, <1>4, <1>5, ConcatProperties

\* So are those of a number in a field path.
LEMMA UbitvarfpCodesTyped ==
  ASSUME NEW x, NEW c \in UbitvarfpCodes(x)
  PROVE  c \in Seq(BOOLEAN)
<1>1. PICK class \in 1 .. 5 :
        c = [i \in 1 .. Min({class, 4}) |-> i = class] \o BitsOf(x, UbitvarfpBits[class])
  BY DEF UbitvarfpCodes
<1> DEFINE b == UbitvarfpBits[class]
           flags == FlagCode(class)
           code == BitsOf(x, b)
<1>2. b \in Nat
  BY DEF UbitvarfpBits
<1>3. c = flags \o code
  BY <1>1, FlagsCounted DEF FlagCode
<1> HIDE DEF b
<1>4. flags \in Seq(BOOLEAN) /\ code \in Seq(BOOLEAN)
  BY <1>2, FlagCodeTyped, FixedCodes
<1> HIDE DEF flags, code
<1> QED
  BY <1>3, <1>4, ConcatProperties

\* So are those in groups.
LEMMA UvarintCodesTyped ==
  ASSUME NEW x, NEW width \in Widths, NEW c \in UvarintCodes(x, width)
  PROVE  c \in Seq(BOOLEAN)
<1> DEFINE N == Groups(width)
<1>1. PICK groups \in 1 .. N : c = GroupsCode(x, groups)
  BY DEF UvarintCodes, GroupsCode
<1>2. N \in Nat
  BY GroupCounts
<1> HIDE DEF N
<1> QED
  BY <1>1, <1>2, GroupsCodeTyped

\* So are those of vectors and normals.
LEMMA VectorCodesTyped ==
  /\ \A v \in [1 .. 3 -> Coords] : \A c \in CodesOf("vec3coord", v) : c \in Seq(BOOLEAN)
  /\ \A v : Encodable("vec3normal", v) => \A c \in CodesOf("vec3normal", v) : c \in Seq(BOOLEAN)
<1>1. ASSUME NEW v \in [1 .. 3 -> Coords], NEW c \in CodesOf("vec3coord", v) PROVE c \in Seq(BOOLEAN)
  <2> DEFINE flags == <<v[1] # 0, v[2] # 0, v[3] # 0>>
  <2>1. c = flags \o OptionalCoord(v[1]) \o OptionalCoord(v[2]) \o OptionalCoord(v[3])
    BY DEF CodesOf
  <2>2. flags \in Seq(BOOLEAN)
    <3>1. (v[1] # 0) \in BOOLEAN /\ (v[2] # 0) \in BOOLEAN /\ (v[3] # 0) \in BOOLEAN
      OBVIOUS
    <3> QED
      BY <3>1, ThreeFlags
  <2>3. OptionalCoord(v[1]) \in Seq(BOOLEAN) /\ OptionalCoord(v[2]) \in Seq(BOOLEAN)
        /\ OptionalCoord(v[3]) \in Seq(BOOLEAN)
    BY CoordCodeTyped
  <2> HIDE DEF flags
  <2> QED
    BY <2>1, <2>2, <2>3, FourTyped
<1>2. ASSUME NEW v, Encodable("vec3normal", v), NEW c \in CodesOf("vec3normal", v)
      PROVE  c \in Seq(BOOLEAN)
  <2> DEFINE flags == <<v[1] # 0, v[2] # 0>>
             last == v[3].negative
             d == <<last>>
  <2>1. c = flags \o OptionalNormal(v[1]) \o OptionalNormal(v[2]) \o d
    BY DEF CodesOf
  <2>2. v[1] \in Normals /\ v[2] \in Normals /\ last \in BOOLEAN
    BY <1>2 DEF Encodable
  <2>3. flags \in Seq(BOOLEAN)
    <3>1. (v[1] # 0) \in BOOLEAN /\ (v[2] # 0) \in BOOLEAN
      OBVIOUS
    <3> QED
      BY <3>1, TwoFlags
  <2>4. d \in Seq(BOOLEAN)
    <3> HIDE DEF last
    <3> QED
      BY <2>2, OneFlag
  <2>5. OptionalNormal(v[1]) \in Seq(BOOLEAN) /\ OptionalNormal(v[2]) \in Seq(BOOLEAN)
    BY <2>2, NormalCodeTyped
  <2> HIDE DEF flags, last, d
  <2> QED
    BY <2>1, <2>3, <2>4, <2>5, FourTyped
<1> QED
  BY <1>1, <1>2

\* Every code is a sequence of bits.
LEMMA CodesTyped ==
  ASSUME NEW kind, NEW v, Encodable(kind, v), NEW c \in CodesOf(kind, v)
  PROVE  c \in Seq(BOOLEAN)
<1>1. kind \in Kinds
  BY EncodableKind
<1>2. CASE kind \in {"bool", "bitfloat", "fixed64", "bitangle"}
  BY <1>2, CodesOfAre, FixedCodes
<1>3. CASE kind \in {"ubitvar", "ubitvarfp"}
  BY <1>3, CodesOfAre, UbitvarCodesTyped, UbitvarfpCodesTyped
<1>4. CASE kind \in {"uvarint32", "varint32", "uvarint64", "varint64"}
  <2>1. \E width \in Widths : \E x : c \in UvarintCodes(x, width)
    BY <1>4, CodesOfAre DEF Widths
  <2> QED
    BY <2>1, UvarintCodesTyped
<1>5. CASE kind \in {"bitcoord", "vec3coord", "vec3normal"}
  BY <1>5, CodesOfAre, EncodableIs, CoordCodeTyped, VectorCodesTyped
<1>6. CASE kind = "string"
  <2>1. v \in Texts(FALSE)
    BY <1>6, TextCodesOf
  <2>2. PICK end \in TextEnds(FALSE) : c = CharCodesOf(v, end)
    BY <1>6, TextCodesOf
  <2> QED
    BY <2>1, <2>2, TextCodes
<1>7. CASE kind = "line"
  <2>1. v \in Texts(TRUE)
    BY <1>7, TextCodesOf
  <2>2. PICK end \in TextEnds(TRUE) : c = CharCodesOf(v, end)
    BY <1>7, TextCodesOf
  <2> QED
    BY <2>1, <2>2, TextCodes
<1> QED
  BY <1>1, <1>2, <1>3, <1>4, <1>5, <1>6, <1>7 DEF Kinds

-----------------------------------------------------------------------------
(* The message, and how far it was read                                     *)

\* Where each value of the message ends: the code of the next one starts there.
CodeAt(k, p, q) ==
  \E c \in CodesOf(message[k].kind, message[k].value) : Coded(written, p, c) /\ q = p + Len(c)
Starts(ends) ==
  /\ ends \in [0 .. Len(message) -> Nat] /\ ends[0] = 0 /\ ends[Len(message)] = Len(written)
  /\ \A k \in 1 .. Len(message) : CodeAt(k, ends[k - 1], ends[k])

\* Either everything was read right up to here, or the reader has left the data,
\* of which there is too little.
ReadRight(ends) ==
  /\ position = ends[Len(got)]
  /\ \A k \in 1 .. Len(got) : got[k] = message[k].value
ReadBeyond == position > available /\ available < Len(written)

IsSequence(s) == s \in Seq({s[k] : k \in DOMAIN s})
BitsTyped ==
  /\ message \in Seq(Samples) /\ DataTyped /\ position \in Nat
  /\ IsSequence(got) /\ Len(got) <= Len(message)
  /\ outcome \in {"writing", "reading", "ok", "overflowed", "panic"}
  /\ outcome = "writing" => got = <<>> /\ position = 0
BitsInv ==
  /\ BitsTyped
  /\ \E ends : Starts(ends) /\ (outcome = "reading" => ReadRight(ends) \/ ReadBeyond)
  /\ CheckedReadsRight

\* What the invariant needs of a sequence, without the set of its elements.
LEMMA SequenceIs ==
  ASSUME NEW S, NEW s \in Seq(S)
  PROVE  IsSequence(s) /\ Len(s) \in Nat /\ DOMAIN s = 1 .. Len(s)
<1>1. Len(s) \in Nat /\ s \in [1 .. Len(s) -> S] /\ DOMAIN s = 1 .. Len(s)
  BY LenProperties
<1> DEFINE T == {s[k] : k \in DOMAIN s}
           n == Len(s)
<1> HIDE DEF n
<1>2. s \in [1 .. n -> T]
  BY <1>1 DEF n
<1> HIDE DEF T
<1>3. s \in Seq(T)
  BY <1>1, <1>2 DEF n
<1> QED
  BY <1>1, <1>3 DEF IsSequence, T

\* It stays so when an element is appended.
LEMMA SequenceAppended ==
  ASSUME NEW s, IsSequence(s), NEW e
  PROVE  /\ IsSequence(Append(s, e)) /\ Len(s) \in Nat /\ Len(Append(s, e)) = Len(s) + 1
         /\ \A k \in 1 .. Len(s) : Append(s, e)[k] = s[k]
         /\ Append(s, e)[Len(s) + 1] = e
<1> DEFINE T == {s[k] : k \in DOMAIN s}
           S == T \union {e}
<1>1. s \in Seq(T) /\ T \subseteq S /\ e \in S
  BY DEF IsSequence
<1> HIDE DEF T, S
<1>2. s \in Seq(S)
  BY <1>1, SeqMonotonic
<1>3. /\ Append(s, e) \in Seq(S) /\ Len(Append(s, e)) = Len(s) + 1 /\ Len(s) \in Nat
      /\ \A k \in 1 .. Len(s) : Append(s, e)[k] = s[k]
      /\ Append(s, e)[Len(s) + 1] = e
  BY <1>1, <1>2, AppendProperties, LenProperties
<1> QED
  BY <1>3, SequenceIs

\* Nothing is written at the start.
LEMMA BitsStart ==
  ASSUME BitsInit
  PROVE  BitsInv
<1>1. message = <<>> /\ written = <<>> /\ available = 0 /\ behind = 0 /\ position = 0 /\ got = <<>>
      /\ outcome = "writing"
  BY DEF BitsInit
<1>2. <<>> \in Seq(Samples) /\ <<>> \in Seq(BOOLEAN) /\ Len(<<>>) = 0
  BY EmptySeq
<1>3. IsSequence(<<>>)
  BY <1>2, SequenceIs
<1>4. BitsTyped
  BY <1>1, <1>2, <1>3 DEF BitsTyped, DataTyped
<1>5. \E ends : Starts(ends)
  <2> DEFINE f == [k \in 0 .. 0 |-> 0]
  <2>1. f \in [0 .. 0 -> Nat] /\ f[0] = 0
    OBVIOUS
  <2> HIDE DEF f
  <2>2. Starts(f)
    BY <1>1, <1>2, <2>1 DEF Starts
  <2> QED
    BY <2>2
<1>6. CheckedReadsRight
  BY <1>1 DEF CheckedReadsRight
<1> QED
  BY <1>1, <1>4, <1>5, <1>6 DEF BitsInv

\* A value that is written ends where its code does, behind all others.
LEMMA WriteKeeps ==
  ASSUME BitsInv, NEW sample \in Samples, NEW code \in CodesOf(sample.kind, sample.value),
         WriteValue(sample, code)
  PROVE  BitsInv'
<1>1. /\ message \in Seq(Samples) /\ written \in Seq(BOOLEAN) /\ available \in Nat /\ behind \in Nat
      /\ position \in Nat /\ IsSequence(got) /\ outcome = "writing" /\ got = <<>> /\ position = 0
      /\ Len(got) <= Len(message)
  BY DEF BitsInv, BitsTyped, DataTyped, WriteValue
<1>2. /\ message' = Append(message, sample) /\ written' = written \o code
      /\ available' = available /\ behind' = behind /\ position' = position /\ got' = got
      /\ outcome' = outcome
  BY DEF WriteValue
<1>3. code \in Seq(BOOLEAN)
  BY BitsAssumption, CodesTyped
<1>4. PICK n : n = Len(message)
  OBVIOUS
<1>5. /\ n \in Nat /\ message' \in Seq(Samples) /\ Len(message') = n + 1
      /\ (\A k \in 1 .. n : message'[k] = message[k]) /\ message'[n + 1] = sample
  BY <1>1, <1>2, <1>4, AppendProperties, LenProperties
<1>6. written' \in Seq(BOOLEAN) /\ Len(written') = Len(written) + Len(code)
      /\ Len(written) \in Nat /\ Len(code) \in Nat
  BY <1>1, <1>2, <1>3, ConcatProperties, LenProperties
<1>7. BitsTyped'
  <2>1. Len(got') <= Len(message')
    <3>1. Len(got) = 0
      BY <1>1, EmptySeq
    <3> QED
      BY <1>2, <1>5, <3>1
  <2> QED
    BY <1>1, <1>2, <1>5, <1>6, <2>1 DEF BitsTyped, DataTyped
<1>8. PICK ends : Starts(ends)
  BY DEF BitsInv
<1>9. /\ ends \in [0 .. n -> Nat] /\ ends[0] = 0 /\ ends[n] = Len(written)
      /\ \A k \in 1 .. n : CodeAt(k, ends[k - 1], ends[k])
  BY <1>4, <1>8 DEF Starts
<1>10. PICK total : total = Len(written) + Len(code)
  OBVIOUS
<1> DEFINE more == [k \in 0 .. n + 1 |-> IF k = n + 1 THEN total ELSE ends[k]]
<1>11. more \in [0 .. n + 1 -> Nat]
  BY <1>5, <1>6, <1>9, <1>10
<1>12. more[n + 1] = total /\ \A k \in 0 .. n : more[k] = ends[k]
  BY <1>5
<1> HIDE DEF more
<1>13. ASSUME NEW k \in 1 .. n + 1 PROVE CodeAt(k, more[k - 1], more[k])'
  <2>1. CASE k = n + 1
    <3>1. more[k - 1] = Len(written) /\ more[k] = Len(written) + Len(code)
      BY <1>5, <1>9, <1>10, <1>12, <2>1
    <3>2. Coded(written', Len(written), code)
      BY <1>1, <1>2, <1>3, CodedMore
    <3>3. message'[k] = sample
      BY <1>5, <2>1
    <3> QED
      BY <3>1, <3>2, <3>3 DEF CodeAt
  <2>2. CASE k # n + 1
    <3>1. k \in 1 .. n /\ k \in 0 .. n /\ k - 1 \in 0 .. n
      BY <1>5, <2>2
    <3>2. PICK c \in CodesOf(message[k].kind, message[k].value) :
             Coded(written, ends[k - 1], c) /\ ends[k] = ends[k - 1] + Len(c)
      BY <1>9, <3>1 DEF CodeAt
    <3>3. Coded(written', ends[k - 1], c)
      BY <1>1, <1>2, <1>3, <3>2, CodedMore
    <3>4. more[k] = ends[k] /\ more[k - 1] = ends[k - 1] /\ message'[k] = message[k]
      BY <1>5, <1>12, <3>1
    <3> QED
      BY <3>2, <3>3, <3>4 DEF CodeAt
  <2> QED
    BY <2>1, <2>2
<1>14. Starts(more)'
  <2>1. more[0] = 0
    BY <1>5, <1>9, <1>12
  <2>2. Len(message') = n + 1 /\ more[n + 1] = Len(written')
    BY <1>5, <1>6, <1>10, <1>12
  <2> QED
    BY <1>11, <1>13, <2>1, <2>2 DEF Starts
<1>15. CheckedReadsRight'
  BY <1>1, <1>2 DEF CheckedReadsRight
<1>16. outcome' # "reading"
  BY <1>1, <1>2
<1> QED
  BY <1>7, <1>14, <1>15, <1>16 DEF BitsInv

\* Where the message and its bits stay, so do the ends of its values.
LEMMA StartsKept ==
  ASSUME NEW ends, Starts(ends), message' = message, written' = written
  PROVE  Starts(ends)'
  BY DEF Starts, CodeAt

\* A new reader stands at the start, where nothing was read.
LEMMA NewReaderKeeps ==
  ASSUME BitsInv, NEW bytes \in Nat, NEW ones \in Behind, NewReader(bytes, ones)
  PROVE  BitsInv'
<1>1. /\ message \in Seq(Samples) /\ written \in Seq(BOOLEAN)
      /\ position \in Nat /\ IsSequence(got) /\ got = <<>> /\ position = 0
      /\ Len(got) <= Len(message)
  BY DEF BitsInv, BitsTyped, DataTyped, NewReader
<1>2. /\ message' = message /\ written' = written /\ position' = position /\ got' = got
      /\ available' = 8 * bytes /\ behind' = ones /\ outcome' = "reading"
  BY DEF NewReader
<1>3. available' \in Nat /\ behind' \in Nat
  BY <1>2, BitsAssumption
<1>4. BitsTyped'
  BY <1>1, <1>2, <1>3 DEF BitsTyped, DataTyped
<1>5. PICK ends : Starts(ends)
  BY DEF BitsInv
<1>6. Starts(ends)'
  BY <1>2, <1>5, StartsKept
<1>7. ReadRight(ends)'
  <2>1. Len(<<>>) = 0 /\ ends[0] = 0
    BY <1>5, EmptySeq DEF Starts
  <2> QED
    BY <1>1, <1>2, <2>1 DEF ReadRight
<1>8. CheckedReadsRight'
  BY <1>2 DEF CheckedReadsRight
<1> QED
  BY <1>4, <1>6, <1>7, <1>8 DEF BitsInv

\* One value more is read right, or the reader has left the data, or the string that
\* comes is too long.
LEMMA ReadKeeps ==
  ASSUME BitsInv, ReadValue
  PROVE  BitsInv'
<1>1. /\ message \in Seq(Samples) /\ DataTyped /\ position \in Nat /\ IsSequence(got)
      /\ Len(got) <= Len(message) /\ outcome = "reading" /\ Len(got) < Len(message)
      /\ available \in Nat /\ written \in Seq(BOOLEAN)
  BY DEF BitsInv, BitsTyped, DataTyped, ReadValue
<1>2. PICK r : /\ r = ReadAt(message[Len(got) + 1].kind, position)
               /\ position' = r.end
               /\ IF r.fits THEN got' = Append(got, r.value) /\ outcome' = outcome
                  ELSE outcome' = "panic" /\ got' = got
  BY DEF ReadValue
<1>3. message' = message /\ written' = written /\ available' = available /\ behind' = behind
  BY DEF ReadValue
<1>4. PICK n : n = Len(got)
  OBVIOUS
<1>5. PICK k : k = n + 1
  OBVIOUS
<1>6. n \in Nat /\ Len(message) \in Nat /\ k \in 1 .. Len(message) /\ k - 1 = n /\ DOMAIN message = 1 .. Len(message)
  <2>1. n \in Nat
    BY <1>1, <1>4, SequenceAppended
  <2> QED
    BY <1>1, <1>4, <1>5, <2>1, LenProperties
<1>7. Encodable(message[k].kind, message[k].value)
  <2>1. message[k] \in Samples
    BY <1>1, <1>6, ElementOfSeq
  <2> QED
    BY <2>1, BitsAssumption
<1>8. r = ReadAt(message[k].kind, position) /\ Forward(r, position)
  <2>1. message[k].kind \in Kinds
    BY <1>7, EncodableKind
  <2> QED
    BY <1>1, <1>2, <1>4, <1>5, <2>1, ReadAtForward
<1>9. r.end \in Nat /\ r.end >= position
  BY <1>8 DEF Forward
<1>10. PICK ends : Starts(ends) /\ (ReadRight(ends) \/ ReadBeyond)
  BY <1>1 DEF BitsInv
<1>11. Starts(ends)'
  BY <1>3, <1>10, StartsKept
<1>12. PICK c \in CodesOf(message[k].kind, message[k].value) :
          Coded(written, ends[k - 1], c) /\ ends[k] = ends[k - 1] + Len(c)
  BY <1>6, <1>10 DEF Starts, CodeAt
<1>13. c \in Seq(BOOLEAN) /\ Len(c) \in Nat /\ ends[k - 1] \in Nat /\ ends[k - 1] + Len(c) <= Len(written)
       /\ Len(written) \in Nat
  BY <1>1, <1>12, LenProperties DEF Coded
<1>14. CASE ReadRight(ends) /\ Within(r, position, c)
  <2>1. position = ends[k - 1]
    BY <1>4, <1>6, <1>14 DEF ReadRight
  <2>2. ReadsSample(r, position, c, message[k].kind, message[k].value)
    BY <1>1, <1>7, <1>8, <1>12, <2>1, ReadAtReads
  <2>3. r.end = ends[k] /\ (r.fits => r.value = message[k].value)
        /\ (~r.fits => TooLong(message[k].kind, message[k].value))
    BY <1>12, <1>14, <2>1, <2>2 DEF ReadsSample
  <2>4. CASE r.fits
    <3>1. got' = Append(got, message[k].value) /\ outcome' = "reading" /\ position' = ends[k]
      BY <1>1, <1>2, <2>3, <2>4
    <3>2. /\ IsSequence(got') /\ Len(got') = k
          /\ (\A j \in 1 .. n : got'[j] = got[j]) /\ got'[k] = message[k].value
      BY <1>1, <1>4, <1>5, <3>1, SequenceAppended
    <3>3. ReadRight(ends)'
      <4>1. ASSUME NEW j \in 1 .. k PROVE got'[j] = message[j].value
        <5>1. CASE j = k
          BY <3>2, <5>1
        <5>2. CASE j # k
          <6>1. j \in 1 .. n
            BY <1>5, <1>6, <5>2
          <6> QED
            BY <1>4, <1>14, <3>2, <6>1 DEF ReadRight
        <5> QED
          BY <5>1, <5>2
      <4> QED
        BY <1>3, <3>1, <3>2, <4>1 DEF ReadRight
    <3>4. BitsTyped'
      BY <1>1, <1>2, <1>3, <1>6, <1>9, <3>1, <3>2 DEF BitsTyped, DataTyped
    <3>5. CheckedReadsRight'
      BY <3>1 DEF CheckedReadsRight
    <3> QED
      BY <1>11, <3>3, <3>4, <3>5 DEF BitsInv
  <2>5. CASE ~r.fits
    <3>1. got' = got /\ outcome' = "panic" /\ position' = r.end
      BY <1>2, <2>5
    <3>2. BitsTyped'
      BY <1>1, <1>3, <1>9, <3>1 DEF BitsTyped, DataTyped
    <3>3. CheckedReadsRight'
      <4>1. k \in DOMAIN message' /\ message'[k].kind \in {"string", "line"}
            /\ Len(message'[k].value) >= StringBufSize
        BY <1>3, <1>6, <2>3, <2>5 DEF TooLong
      <4> QED
        BY <3>1, <4>1 DEF CheckedReadsRight
    <3> QED
      BY <1>11, <3>1, <3>2, <3>3 DEF BitsInv
  <2> QED
    BY <2>4, <2>5
<1>15. CASE ReadBeyond \/ ~Within(r, position, c)
  <2>1. r.end > available /\ available < Len(written)
    <3>1. CASE ReadBeyond
      BY <1>1, <1>9, <3>1 DEF ReadBeyond
    <3>2. CASE ReadRight(ends) /\ ~Within(r, position, c)
      <4>1. position = ends[k - 1]
        BY <1>4, <1>6, <3>2 DEF ReadRight
      <4> QED
        BY <1>1, <1>9, <1>13, <3>2, <4>1 DEF Within
    <3> QED
      BY <1>10, <1>15, <3>1, <3>2
  <2>2. ReadBeyond'
    BY <1>2, <1>3, <2>1 DEF ReadBeyond
  <2>3. CASE r.fits
    <3>1. got' = Append(got, r.value) /\ outcome' = "reading"
      BY <1>1, <1>2, <2>3
    <3>2. IsSequence(got') /\ Len(got') = k
      BY <1>1, <1>4, <1>5, <3>1, SequenceAppended
    <3>3. BitsTyped'
      BY <1>1, <1>2, <1>3, <1>6, <1>9, <3>1, <3>2 DEF BitsTyped, DataTyped
    <3>4. CheckedReadsRight'
      BY <3>1 DEF CheckedReadsRight
    <3> QED
      BY <1>11, <2>2, <3>3, <3>4 DEF BitsInv
  <2>4. CASE ~r.fits
    <3>1. got' = got /\ outcome' = "panic" /\ position' = r.end
      BY <1>2, <2>4
    <3>2. BitsTyped'
      BY <1>1, <1>3, <1>9, <3>1 DEF BitsTyped, DataTyped
    <3>3. CheckedReadsRight'
      BY <1>3, <2>1, <3>1 DEF CheckedReadsRight
    <3> QED
      BY <1>11, <3>1, <3>2, <3>3 DEF BitsInv
  <2> QED
    BY <2>3, <2>4
<1> QED
  BY <1>10, <1>14, <1>15

\* The check changes nothing but the outcome, and tells what it says.
LEMMA OverflowedKeeps ==
  ASSUME BitsInv, IsOverflowed
  PROVE  BitsInv'
<1>1. /\ message \in Seq(Samples) /\ DataTyped /\ position \in Nat /\ IsSequence(got)
      /\ Len(got) <= Len(message) /\ outcome = "reading"
      /\ available \in Nat /\ written \in Seq(BOOLEAN)
  BY DEF BitsInv, BitsTyped, DataTyped, IsOverflowed
<1>2. /\ message' = message /\ written' = written /\ available' = available /\ behind' = behind
      /\ position' = position /\ got' = got
      /\ outcome' = IF position > available THEN "overflowed" ELSE "ok"
  BY DEF IsOverflowed
<1>3. BitsTyped'
  BY <1>1, <1>2 DEF BitsTyped, DataTyped
<1>4. PICK ends : Starts(ends) /\ (ReadRight(ends) \/ ReadBeyond)
  BY <1>1 DEF BitsInv
<1>5. Starts(ends)'
  BY <1>2, <1>4, StartsKept
<1>6. PICK n : n = Len(got)
  OBVIOUS
<1>7. n \in Nat /\ DOMAIN got = 1 .. n /\ Len(message) \in Nat /\ n <= Len(message) /\ Len(written) \in Nat
  <2>1. got \in Seq({got[k] : k \in DOMAIN got})
    BY <1>1 DEF IsSequence
  <2>2. Len(got) \in Nat /\ DOMAIN got = 1 .. Len(got)
    BY <2>1, LenProperties
  <2> QED
    BY <1>1, <1>6, <2>2, LenProperties
<1>8. ends[n] <= Len(written)
  <2>1. CASE n = Len(message)
    BY <1>4, <1>7, <2>1 DEF Starts
  <2>2. CASE n # Len(message)
    <3>1. n + 1 \in 1 .. Len(message) /\ (n + 1) - 1 = n
      BY <1>7, <2>2
    <3>2. \E c : Coded(written, ends[n], c)
      BY <1>4, <3>1 DEF Starts, CodeAt
    <3>3. PICK c : Coded(written, ends[n], c)
      BY <3>2
    <3>4. Len(c) \in Nat /\ ends[n] \in Nat /\ ends[n] + Len(c) <= Len(written)
      BY <3>3, LenProperties DEF Coded
    <3> QED
      BY <1>7, <3>4
  <2> QED
    BY <2>1, <2>2
<1>9. CASE position > available
  <2>1. available < Len(written)
    <3>1. CASE ReadRight(ends)
      <4>1. position <= Len(written)
        BY <1>6, <1>8, <3>1 DEF ReadRight
      <4> QED
        BY <1>1, <1>7, <1>9, <4>1
    <3>2. CASE ReadBeyond
      BY <3>2 DEF ReadBeyond
    <3> QED
      BY <1>4, <3>1, <3>2
  <2>2. CheckedReadsRight'
    BY <1>2, <1>9, <2>1 DEF CheckedReadsRight
  <2> QED
    BY <1>2, <1>3, <1>5, <1>9, <2>2 DEF BitsInv
<1>10. CASE ~(position > available)
  <2>1. ReadRight(ends)
    BY <1>4, <1>10 DEF ReadBeyond
  <2>2. \A k \in DOMAIN got : got[k] = message[k].value
    BY <1>6, <1>7, <2>1 DEF ReadRight
  <2>3. CheckedReadsRight'
    BY <1>2, <1>10, <2>2 DEF CheckedReadsRight
  <2> QED
    BY <1>2, <1>3, <1>5, <1>10, <2>3 DEF BitsInv
<1> QED
  BY <1>9, <1>10

\* The invariant of the reader.
LEMMA BitsInvHolds == BitsSpec => []BitsInv
<1>1. ASSUME BitsInv, [BitsNext]_bitVars PROVE BitsInv'
  <2>1. CASE \E sample \in Samples : \E code \in CodesOf(sample.kind, sample.value) : WriteValue(sample, code)
    BY <1>1, <2>1, WriteKeeps
  <2>2. CASE \E bytes \in 0 .. (Len(written) + 7) \div 8, ones \in Behind : NewReader(bytes, ones)
    <3>1. PICK bytes \in 0 .. (Len(written) + 7) \div 8, ones \in Behind : NewReader(bytes, ones)
      BY <2>2
    <3>2. bytes \in Nat
      <4>1. Len(written) \in Nat
        BY <1>1, LenProperties DEF BitsInv, BitsTyped, DataTyped
      <4> QED
        BY <4>1
    <3> QED
      BY <1>1, <3>1, <3>2, NewReaderKeeps
  <2>3. CASE ReadValue
    BY <1>1, <2>3, ReadKeeps
  <2>4. CASE IsOverflowed
    BY <1>1, <2>4, OverflowedKeeps
  <2>5. CASE UNCHANGED bitVars
    BY <1>1, <2>5 DEF bitVars, BitsInv, BitsTyped, DataTyped, Starts, CodeAt, ReadRight, ReadBeyond,
                      CheckedReadsRight
  <2> QED
    BY <1>1, <2>1, <2>2, <2>3, <2>4, <2>5 DEF BitsNext
<1> QED
  BY <1>1, BitsStart, PTL DEF BitsSpec

\* What was read is what was sent whenever the check that was put off finds no read out
\* of bounds, and it finds one, or a string overruns its buffer, only where the message
\* was broken off or the string is too long (bitreader.rs:31-43, 89-92, 290).
THEOREM ReadsCheckedRight == BitsSpec => []CheckedReadsRight
<1>1. BitsInv => CheckedReadsRight
  BY DEF BitsInv
<1> QED
  BY <1>1, BitsInvHolds, PTL
-----------------------------------------------------------------------------
(* Remainders                                                               *)

\* There is one quotient and one remainder.
LEMMA UniqueMod ==
  ASSUME NEW S \in Nat \ {0}, NEW q \in Int, NEW p \in Int,
         NEW r \in 0 .. S - 1, NEW t \in 0 .. S - 1, S * q + r = S * p + t
  PROVE  q = p /\ r = t
  OBVIOUS

\* So it is enough to show a quotient.
LEMMA ModIs ==
  ASSUME NEW S \in Nat \ {0}, NEW q \in Int, NEW r \in 0 .. S - 1, NEW a \in Int, a = S * q + r
  PROVE  a % S = r
  <1>1. a = S * (a \div S) + (a % S) /\ a \div S \in Int /\ a % S \in 0 .. S - 1
    BY DivMod
  <1> DEFINE p == a \div S
             t == a % S
  <1>2. p \in Int /\ t \in 0 .. S - 1 /\ S * q + r = S * p + t
    BY <1>1
  <1> HIDE DEF p, t
  <1>3. r = t
    BY <1>2, UniqueMod
  <1> QED BY <1>3 DEF t

\* A remainder may be taken before adding, and S left away.
LEMMA ModOfSum ==
  ASSUME NEW S \in Nat \ {0}, NEW a \in Nat, NEW p \in Nat
  PROVE  ((a % S) + p) % S = (a - S + p) % S
  <1> DEFINE b == (a % S) + p
             q == (a \div S) - 1 + (b \div S)
  <1>1. a = S * (a \div S) + (a % S) /\ a \div S \in Int /\ a % S \in 0 .. S - 1
    BY DivMod
  <1>2. b \in Int
    BY <1>1
  <1>3. b = S * (b \div S) + (b % S) /\ b \div S \in Int /\ b % S \in 0 .. S - 1
    BY <1>2, DivMod
  <1>4. q \in Int /\ a - S + p \in Int
    BY <1>1, <1>3
  <1>5. S * q = S * (a \div S) - S + S * (b \div S)
    BY <1>1, <1>3
  <1>6. a - S + p = S * q + (b % S)
    BY <1>1, <1>3, <1>5
  <1> DEFINE r == b % S
             n == a - S + p
  <1>7. q \in Int /\ r \in 0 .. S - 1 /\ n \in Int /\ n = S * q + r
    BY <1>3, <1>4, <1>6
  <1>8. n % S = r
    <2> HIDE DEF n, q, r
    <2> QED BY <1>7, ModIs
  <1> QED BY <1>8

\* Numbers less than S apart have different remainders.
LEMMA ModDiffers ==
  ASSUME NEW S \in Nat \ {0}, NEW a \in Nat, NEW d \in 1 .. S - 1
  PROVE  (a + d) % S # a % S
  <1> SUFFICES ASSUME (a + d) % S = a % S PROVE FALSE
    OBVIOUS
  <1>1. a = S * (a \div S) + (a % S) /\ a \div S \in Int /\ a % S \in 0 .. S - 1
    BY DivMod
  <1>2. a + d = S * ((a + d) \div S) + ((a + d) % S) /\ (a + d) \div S \in Int
    BY DivMod
  <1>3. d = S * ((a + d) \div S - (a \div S))
    BY <1>1, <1>2
  <1> DEFINE k == (a + d) \div S - (a \div S)
  <1>4. k \in Int /\ S * k = S * 0 + d /\ S * k = S * k + 0
    BY <1>1, <1>2, <1>3
  <1>5. 0 \in 0 .. S - 1 /\ d \in 0 .. S - 1 /\ S * 0 + d = S * k + 0
    BY <1>4
  <1> HIDE DEF k
  <1>6. d = 0
    BY <1>4, <1>5, UniqueMod
  <1> QED BY <1>6

-----------------------------------------------------------------------------
(* The ring, by the numbers of the update's keys: the key of the list's      *)
(* position p is the update's key with number First + p - 1, and is kept at *)
(* that number's remainder.                                                 *)
First0 == history_delta_index - Len(recent)
Slot(p) == (First0 + p - 1) % HistorySize

HInv == HistoryOK /\ RingHoldsRecent /\ ItemsAsSent

\* The code's index of a position is the slot of its number.
LEMMA IndexIsSlot ==
  ASSUME HistoryOK, NEW p \in 1 .. Len(recent)
  PROVE  HistoryIndex(p - 1) = Slot(p)
  <1> USE HistoryAssumption
  <1>1. history_delta_index \in Nat /\ Len(recent) \in Nat
    BY DEF HistoryOK
  <1>2. CASE history_delta_index > HistorySize
    <2>1. First0 + p - 1 = history_delta_index - HistorySize + (p - 1)
      BY <1>1, <1>2 DEF HistoryOK, First0
    <2>2. HistoryIndex(p - 1) = ((history_delta_index % HistorySize) + (p - 1)) % HistorySize
      BY <1>2 DEF HistoryIndex
    <2>3. p - 1 \in Nat
      BY <1>1
    <2> DEFINE i == p - 1
               h == history_delta_index
    <2>4. ((h % HistorySize) + i) % HistorySize = (h - HistorySize + i) % HistorySize
      <3>1. i \in Nat /\ h \in Nat
        BY <1>1, <2>3
      <3> HIDE DEF i, h
      <3> QED BY <3>1, ModOfSum
    <2> QED BY <2>1, <2>2, <2>4 DEF Slot
  <1>3. CASE history_delta_index <= HistorySize
    <2>1. First0 = 0
      BY <1>1, <1>3 DEF HistoryOK, First0
    <2>2. HistoryIndex(p - 1) = (0 + (p - 1)) % HistorySize
      BY <1>1, <1>3 DEF HistoryIndex
    <2>3. 0 + (p - 1) = First0 + p - 1
      BY <1>1, <2>1
    <2> QED BY <2>2, <2>3 DEF Slot
  <1> QED BY <1>1, <1>2, <1>3

\* The same as a formula of the state.
LEMMA IndexesAreSlots == HistoryOK => \A p \in 1 .. Len(recent) : HistoryIndex(p - 1) = Slot(p)
  BY IndexIsSlot

\* A slot is one of the ring's.
LEMMA SlotInRing ==
  ASSUME HistoryOK, NEW p \in 1 .. Len(recent)
  PROVE  Slot(p) \in 0 .. HistorySize - 1
  <1>1. First0 + p - 1 \in Int
    BY HistoryAssumption DEF HistoryOK, First0
  <1> QED BY <1>1, HistoryAssumption, DivMod DEF Slot

\* The slot that is written next is of no key that the list keeps.
LEMMA SlotIsNotNext ==
  ASSUME HistoryOK, NEW p \in 1 .. Len(recent), p > 1 \/ Len(recent) < HistorySize
  PROVE  Slot(p) # history_delta_index % HistorySize
  <1> USE HistoryAssumption
  <1> DEFINE a == First0 + p - 1
             d == Len(recent) - p + 1
  <1>1. history_delta_index \in Nat /\ Len(recent) \in Nat /\ Len(recent) <= HistorySize
        /\ Len(recent) <= history_delta_index
    BY DEF HistoryOK
  <1>2. a \in Nat /\ d \in 1 .. HistorySize - 1 /\ a + d = history_delta_index
    BY <1>1 DEF First0
  <1> HIDE DEF a, d
  <1>3. (a + d) % HistorySize # a % HistorySize
    BY <1>2, ModDiffers
  <1> QED BY <1>2, <1>3 DEF Slot, a

-----------------------------------------------------------------------------
(* What a key is sent as.  SentFor holds of what the server may send.        *)
SentFor(key, sentAs) ==
  \/ sentAs = Whole(key)
  \/ \E p \in DOMAIN recent, n \in 0 .. MaxStringSize - 1 :
       MayCopy(key, p, n) /\ sentAs = Referring(key, p, n)

\* string_buf begins with the key, which is what the code makes of it.
LEMMA FilledBeginsWithKey ==
  ASSUME HInv, NEW key \in Keys, NEW sentAs, SentFor(key, sentAs)
  PROVE  /\ sentAs.copied + Len(sentAs.rest) = Len(key)
         /\ \A c \in 1 .. Len(key) : Filled(sentAs)[c] = key[c]
  <1> USE HistoryAssumption, KeysAssumption
  <1>0. key \in Seq(Chars) /\ Len(key) \in Nat /\ Len(key) < BufferSize
    BY DEF HInv
  <1>1. CASE sentAs = Whole(key)
    <2>1. sentAs.copied = 0 /\ sentAs.rest = key
      BY <1>1 DEF Whole
    <2>2. ASSUME NEW c \in 1 .. Len(key) PROVE Filled(sentAs)[c] = key[c]
      BY <1>0, <2>1 DEF Filled
    <2> QED BY <1>0, <2>1, <2>2
  <1>2. ASSUME NEW p \in DOMAIN recent, NEW n \in 0 .. MaxStringSize - 1,
               MayCopy(key, p, n), sentAs = Referring(key, p, n)
        PROVE  /\ sentAs.copied + Len(sentAs.rest) = Len(key)
               /\ \A c \in 1 .. Len(key) : Filled(sentAs)[c] = key[c]
    <2>1. sentAs.position = p - 1 /\ sentAs.copied = n /\ sentAs.rest = SubSeq(key, n + 1, Len(key))
      BY <1>2 DEF Referring
    <2>2. n \in Nat /\ n <= Len(key) /\ n <= Len(recent[p]) /\ n <= MaxStringSize
          /\ \A c \in 1 .. n : key[c] = recent[p][c]
      BY <1>2 DEF MayCopy
    <2>3. Len(sentAs.rest) = Len(key) - n
          /\ \A c \in 1 .. Len(key) - n : sentAs.rest[c] = key[n + c]
      <3>1. \A c \in n + 1 .. Len(key) : key[c] \in Chars
        BY <1>0, <2>2, ElementOfSeq
      <3>2. /\ Len(SubSeq(key, n + 1, Len(key))) = IF n + 1 <= Len(key) THEN Len(key) - (n + 1) + 1 ELSE 0
            /\ \A c \in 1 .. Len(key) - (n + 1) + 1 :
                 SubSeq(key, n + 1, Len(key))[c] = key[(n + 1) + c - 1]
        BY <1>0, <2>2, <3>1, SubSeqProperties
      <3>3. \A c \in 1 .. Len(key) - n : c \in 1 .. Len(key) - (n + 1) + 1 /\ (n + 1) + c - 1 = n + c
        BY <1>0, <2>2
      <3>4. (IF n + 1 <= Len(key) THEN Len(key) - (n + 1) + 1 ELSE 0) = Len(key) - n
        BY <1>0, <2>2
      <3> QED
        BY <2>1, <3>2, <3>3, <3>4
    <2>4. n + Len(sentAs.rest) = Len(key)
      BY <1>0, <2>2, <2>3
    <2>5. ASSUME NEW c \in 1 .. Len(key) PROVE Filled(sentAs)[c] = key[c]
      <3>1. c \in 1 .. BufferSize
        BY <1>0
      <3>2. CASE c <= n
        <4>1. Filled(sentAs)[c] = history[HistoryIndex(p - 1)][c]
          BY <2>1, <3>1, <3>2 DEF Filled
        <4>2. c \in 1 .. MaxStringSize /\ c <= Len(recent[p])
          BY <1>0, <1>2, <2>2, <3>2, LenProperties DEF HInv, HistoryOK
        <4>3. history[HistoryIndex(p - 1)][c] = recent[p][c]
          BY <1>2, <4>2 DEF HInv, RingHoldsRecent
        <4> QED BY <2>2, <3>2, <4>1, <4>3
      <3>3. CASE c > n
        <4>1. Filled(sentAs)[c] = sentAs.rest[c - n]
          <5>1. c \in Nat /\ ~(c <= n) /\ c <= Len(key)
            BY <1>0, <2>2, <3>3
          <5>2. ~(c <= sentAs.copied) /\ c <= sentAs.copied + Len(sentAs.rest)
            BY <2>1, <2>4, <5>1
          <5> QED BY <2>1, <3>1, <5>2 DEF Filled
        <4>2. c - n \in 1 .. Len(key) - n /\ n + (c - n) = c
          BY <1>0, <2>2, <3>3
        <4> QED BY <2>3, <4>1, <4>2
      <3> QED BY <1>0, <2>2, <3>2, <3>3
    <2> QED BY <2>1, <2>4, <2>5
  <1> QED BY <1>1, <1>2 DEF SentFor

\* So the string that the table gets is the key.
LEMMA MadeIsKey ==
  ASSUME HInv, NEW key \in Keys, NEW sentAs, SentFor(key, sentAs)
  PROVE  Made(sentAs) = key
  <1> USE HistoryAssumption, KeysAssumption
  <1>1. key \in Seq(Chars) /\ Len(key) \in Nat /\ Len(key) < BufferSize
    BY DEF HInv
  <1>2. /\ sentAs.copied + Len(sentAs.rest) = Len(key)
        /\ \A c \in 1 .. Len(key) : Filled(sentAs)[c] = key[c]
    BY FilledBeginsWithKey
  <1>3. Filled(sentAs) = [c \in 1 .. BufferSize |-> Filled(sentAs)[c]]
    BY DEF Filled
  <1>4. Made(sentAs) = [c \in 1 .. Len(key) |-> Filled(sentAs)[c]]
    BY <1>1, <1>2, SubSeqProperties DEF Made
  <1>5. key = [c \in 1 .. Len(key) |-> key[c]]
    BY <1>1, SeqDef
  <1> QED BY <1>2, <1>4, <1>5

-----------------------------------------------------------------------------
(* One entry with a key                                                     *)

\* The list remembers the key last, and shifts to the left when it is full.
LEMMA Remembered ==
  ASSUME HistoryOK, NEW key \in Keys, Remember(key), history_delta_index' = history_delta_index + 1
  PROVE  /\ recent' \in Seq(Keys)
         /\ Len(recent') = IF history_delta_index' < HistorySize THEN history_delta_index' ELSE HistorySize
         /\ Len(recent') = IF Len(recent) < HistorySize THEN Len(recent) + 1 ELSE HistorySize
         /\ recent'[Len(recent')] = key
         /\ \A p \in 1 .. Len(recent') - 1 :
              recent'[p] = recent[IF Len(recent) < HistorySize THEN p ELSE p + 1]
  <1> USE HistoryAssumption
  <1>1. recent \in Seq(Keys) /\ Len(recent) \in Nat /\ history_delta_index \in Nat
        /\ Len(recent) = IF history_delta_index < HistorySize THEN history_delta_index ELSE HistorySize
    BY DEF HistoryOK
  <1>2. CASE Len(recent) < HistorySize
    <2>1. recent' = Append(recent, key)
      BY <1>2 DEF Remember
    <2> QED BY <1>1, <1>2, <2>1, AppendProperties
  <1>3. CASE ~(Len(recent) < HistorySize)
    <2>1. recent' = Append(Tail(recent), key) /\ Len(recent) = HistorySize /\ recent # <<>>
      BY <1>1, <1>3 DEF Remember
    <2>2. /\ Tail(recent) \in Seq(Keys)
          /\ Len(Tail(recent)) = Len(recent) - 1
          /\ \A i \in 1 .. Len(Tail(recent)) : Tail(recent)[i] = recent[i + 1]
      BY <1>1, <2>1, HeadTailProperties
    <2> QED BY <1>1, <1>3, <2>1, <2>2, AppendProperties
  <1> QED BY <1>2, <1>3

\* The ring follows the list: the new key is where the list has it, and what
\* is overwritten is what the list forgot.
LEMMA RingFollows ==
  ASSUME HInv, NEW key \in Keys, NEW sentAs, SentFor(key, sentAs),
         ReadKey(sentAs), Remember(key), HistoryOK'
  PROVE  RingHoldsRecent'
  <1> USE HistoryAssumption, KeysAssumption
  <1>1. /\ history_delta_index \in Nat /\ history_delta_index' = history_delta_index + 1
        /\ Len(recent) \in Nat /\ Len(recent) <= HistorySize
        /\ Len(recent) = IF history_delta_index < HistorySize THEN history_delta_index ELSE HistorySize
    BY DEF HInv, HistoryOK, ReadKey
  <1>2. /\ recent' \in Seq(Keys) /\ Len(recent') \in Nat
        /\ Len(recent') = IF Len(recent) < HistorySize THEN Len(recent) + 1 ELSE HistorySize
        /\ recent'[Len(recent')] = key
        /\ \A p \in 1 .. Len(recent') - 1 :
             recent'[p] = recent[IF Len(recent) < HistorySize THEN p ELSE p + 1]
    BY <1>1, Remembered DEF HInv
  <1>3. (HistoryOK => \A p \in 1 .. Len(recent) : HistoryIndex(p - 1) = Slot(p))'
    BY IndexesAreSlots, PTL
  <1>4. history' = [history EXCEPT ![history_delta_index % HistorySize] =
                      [c \in 1 .. MaxStringSize |-> Filled(sentAs)[c]]]
        /\ history_delta_index % HistorySize \in DOMAIN history
    BY <1>1, DivMod DEF ReadKey, HInv, HistoryOK
  <1>5. ASSUME NEW p \in 1 .. Len(recent'), NEW c \in 1 .. MaxStringSize, c <= Len(recent'[p])
        PROVE  history'[Slot(p)'][c] = recent'[p][c]
    <2>1. CASE p = Len(recent')
      <3>1. First0' + p - 1 = history_delta_index
        <4>1. First0' = history_delta_index' - Len(recent') /\ Len(recent') \in Nat
          BY <1>2 DEF First0
        <4> QED BY <1>1, <2>1, <4>1
      <3>2. history'[Slot(p)'] = [d \in 1 .. MaxStringSize |-> Filled(sentAs)[d]]
        BY <1>4, <3>1 DEF Slot
      <3>3. c \in 1 .. Len(key)
        BY <1>2, <1>5, <2>1 DEF HInv
      <3> QED BY <1>2, <2>1, <3>2, <3>3, FilledBeginsWithKey
    <2>2. CASE p # Len(recent')
      <3> DEFINE q == IF Len(recent) < HistorySize THEN p ELSE p + 1
      <3>1. q \in 1 .. Len(recent) /\ (q > 1 \/ Len(recent) < HistorySize) /\ recent'[p] = recent[q]
        <4>1. p \in Nat /\ p >= 1 /\ p <= Len(recent') - 1
          BY <1>2, <2>2
        <4>2. recent'[p] = recent[q]
          BY <1>2, <4>1
        <4>3. q \in 1 .. Len(recent) /\ (q > 1 \/ Len(recent) < HistorySize)
          BY <1>1, <1>2, <4>1
        <4> QED BY <4>2, <4>3
      <3>2. First0' + p - 1 = First0 + q - 1
        BY <1>1, <1>2 DEF First0
      <3>3. Slot(p)' = Slot(q)
        BY <3>2 DEF Slot
      <3> HIDE DEF q
      <3>4. Slot(q) # history_delta_index % HistorySize /\ Slot(q) \in 0 .. HistorySize - 1
        BY <3>1, SlotIsNotNext, SlotInRing DEF HInv
      <3>5. history'[Slot(q)] = history[Slot(q)]
        BY <1>4, <3>4 DEF HInv, HistoryOK
      <3>6. HistoryIndex(q - 1) = Slot(q)
        BY <3>1, IndexIsSlot DEF HInv
      <3>7. history[Slot(q)][c] = recent[q][c]
        <4>1. q \in DOMAIN recent /\ c <= Len(recent[q])
          BY <1>5, <3>1, LenProperties DEF HInv, HistoryOK
        <4> QED BY <3>6, <4>1 DEF HInv, RingHoldsRecent
      <3> QED BY <3>1, <3>3, <3>5, <3>7
    <2> QED BY <2>1, <2>2
  <1>6. DOMAIN recent' = 1 .. Len(recent')
    BY <1>2, LenProperties
  <1> QED BY <1>3, <1>5, <1>6 DEF RingHoldsRecent

\* The buffer is filled with characters.
Cells == Chars \union {Terminator, Junk}

LEMMA FilledTyped ==
  ASSUME HInv, NEW key \in Keys, NEW sentAs, SentFor(key, sentAs)
  PROVE  Filled(sentAs) \in [1 .. BufferSize -> Cells]
  <1> USE HistoryAssumption, KeysAssumption
  <1>1. /\ key \in Seq(Chars) /\ Len(key) \in Nat /\ Len(key) < BufferSize
        /\ \A c \in 1 .. Len(key) : key[c] \in Chars
    BY DEF HInv
  <1>2. sentAs.copied \in Nat /\ sentAs.copied <= Len(key)
    BY <1>1 DEF SentFor, Whole, Referring, MayCopy
  <1>3. /\ sentAs.copied + Len(sentAs.rest) = Len(key)
        /\ \A c \in 1 .. Len(key) : Filled(sentAs)[c] = key[c]
    BY FilledBeginsWithKey
  <1>4. ASSUME NEW c \in 1 .. BufferSize PROVE Filled(sentAs)[c] \in Cells
    <2>1. CASE c <= Len(key)
      BY <1>1, <1>3, <2>1 DEF Cells
    <2>2. CASE c > Len(key)
      <3>1. Filled(sentAs)[c] = IF c = Len(key) + 1 THEN Terminator ELSE string_buf[c]
        BY <1>1, <1>2, <1>3, <2>2 DEF Filled
      <3> QED BY <3>1 DEF Cells, HInv, HistoryOK
    <2> QED BY <1>1, <2>1, <2>2
  <1> QED BY <1>4 DEF Filled

\* What an entry does to the table and to the server's.
LEMMA StoredAlike ==
  ASSUME HInv, NEW index \in EntryIndexes, NEW key \in KeysFor(index), StoreEntry(index, key, key)
  PROVE  /\ parsing' \in BOOLEAN /\ items' = server'
         /\ \A i \in DOMAIN server' : server'[i].string \in Keys \union {NoKey}
  <1>1. key \in Keys \union {NoKey} /\ items = server /\ parsing \in BOOLEAN
        /\ \A i \in DOMAIN server : server[i].string \in Keys \union {NoKey}
    BY DEF KeysFor, HInv, HistoryOK, ItemsAsSent
  <1>2. ASSUME NEW data, items' = Merged(items, index, key, data),
               server' = Merged(server, index, key, data)
        PROVE  items' = server' /\ \A i \in DOMAIN server' : server'[i].string \in Keys \union {NoKey}
    BY <1>1, <1>2 DEF Merged
  <1> QED BY <1>1, <1>2 DEF StoreEntry

\* An entry with a key, however it was sent.
LEMMA KeyedEntryKeeps ==
  ASSUME HInv, NEW index \in EntryIndexes, NEW key \in KeysFor(index) \ {NoKey},
         NEW sentAs, SentFor(key, sentAs), EntryWithKey(index, key, sentAs)
  PROVE  HInv'
  <1> USE HistoryAssumption
  <1>1. key \in Keys
    BY DEF KeysFor, HInv, HistoryOK
  <1>2. StoreEntry(index, key, key) /\ ReadKey(sentAs) /\ Remember(key) /\ ReadIndex(index)
    BY <1>1, MadeIsKey DEF EntryWithKey
  <1>3. /\ parsing' \in BOOLEAN /\ items' = server'
        /\ \A i \in DOMAIN server' : server'[i].string \in Keys \union {NoKey}
    BY <1>2, StoredAlike
  <1>4. entry_index' \in Nat \union {-1}
    BY <1>2, IndexesAssumption DEF ReadIndex, HInv, HistoryOK
  <1>5. history_delta_index' \in Nat /\ history_delta_index' = history_delta_index + 1
    BY <1>2 DEF ReadKey, HInv, HistoryOK
  <1>6. Filled(sentAs) \in [1 .. BufferSize -> Cells]
    BY <1>1, FilledTyped
  <1>7. string_buf' \in [1 .. BufferSize -> Cells]
    BY <1>2, <1>6 DEF ReadKey
  <1>8. [c \in 1 .. MaxStringSize |-> Filled(sentAs)[c]] \in [1 .. MaxStringSize -> Cells]
    BY <1>6
  <1>9. history' \in [0 .. HistorySize - 1 -> [1 .. MaxStringSize -> Cells]]
    BY <1>2, <1>8 DEF ReadKey, HInv, HistoryOK, Cells
  <1>10. /\ recent' \in Seq(Keys)
         /\ Len(recent') = IF history_delta_index' < HistorySize THEN history_delta_index' ELSE HistorySize
    BY <1>1, <1>2, <1>5, Remembered DEF HInv
  <1>11. HistoryOK'
    BY <1>3, <1>4, <1>5, <1>7, <1>9, <1>10 DEF HistoryOK, Cells
  <1>12. RingHoldsRecent'
    BY <1>1, <1>2, <1>11, RingFollows
  <1> QED BY <1>3, <1>11, <1>12 DEF HInv, ItemsAsSent

-----------------------------------------------------------------------------
\* The invariant holds at first.
LEMMA HInvInit == HistoryInit => HInv
  <1> SUFFICES ASSUME HistoryInit PROVE HInv
    OBVIOUS
  <1> USE HistoryAssumption DEF HistoryInit
  <1>1. recent \in Seq(Keys) /\ Len(recent) = 0 /\ DOMAIN recent = {}
    OBVIOUS
  <1>2. HistoryOK
    BY <1>1 DEF HistoryOK
  <1> QED BY <1>1, <1>2 DEF HInv, RingHoldsRecent, ItemsAsSent

\* Every step of an update keeps it.
LEMMA HInvNext == HInv /\ [HistoryNext]_historyVars => HInv'
  <1> SUFFICES ASSUME HInv, [HistoryNext]_historyVars PROVE HInv'
    OBVIOUS
  <1> USE HistoryAssumption
  <1>1. CASE BeginUpdate
    <2>1. recent' \in Seq(Keys) /\ Len(recent') = 0 /\ DOMAIN recent' = {}
      BY <1>1 DEF BeginUpdate
    <2>2. HistoryOK'
      BY <1>1, <2>1 DEF BeginUpdate, HInv, HistoryOK
    <2> QED BY <1>1, <2>1, <2>2 DEF BeginUpdate, HInv, RingHoldsRecent, ItemsAsSent
  <1>2. CASE EndUpdate
    BY <1>2 DEF EndUpdate, HInv, HistoryOK, RingHoldsRecent, ItemsAsSent, HistoryIndex
  <1>3. ASSUME NEW index \in EntryIndexes, EntryWithoutKey(index) PROVE HInv'
    <2>1. NoKey \in KeysFor(index) /\ StoreEntry(index, NoKey, NoKey) /\ ReadIndex(index)
          /\ UNCHANGED <<history, history_delta_index, string_buf, recent>>
      BY <1>3 DEF EntryWithoutKey
    <2>2. /\ parsing' \in BOOLEAN /\ items' = server'
          /\ \A i \in DOMAIN server' : server'[i].string \in Keys \union {NoKey}
      BY <2>1, StoredAlike
    <2>3. entry_index' \in Nat \union {-1}
      BY <2>1, IndexesAssumption DEF ReadIndex, HInv, HistoryOK
    <2> QED BY <2>1, <2>2, <2>3 DEF HInv, HistoryOK, RingHoldsRecent, ItemsAsSent, HistoryIndex
  <1>4. ASSUME NEW index \in EntryIndexes, WholeKey(index) PROVE HInv'
    BY <1>4, KeyedEntryKeeps DEF WholeKey, SentFor
  <1>5. ASSUME NEW index \in EntryIndexes, KeyByReference(index) PROVE HInv'
    BY <1>5, KeyedEntryKeeps DEF KeyByReference, SentFor
  <1>6. CASE UNCHANGED historyVars
    BY <1>6 DEF historyVars, HInv, HistoryOK, RingHoldsRecent, ItemsAsSent, HistoryIndex
  <1> QED BY <1>1, <1>2, <1>3, <1>4, <1>5, <1>6 DEF HistoryNext

(* The ring and the table agree with the server in every state               *)
(* (stringtables.rs:119-246).                                               *)
THEOREM HistoryInvariant == HistorySpec => []HInv
  BY HInvInit, HInvNext, PTL DEF HistorySpec

(* The variables of the history keep their types, and the list is as long as *)
(* the ring's writing end says (stringtables.rs:119-185).                   *)
THEOREM HistoryTyped == HistorySpec => []HistoryOK
  BY HistoryInvariant, PTL DEF HInv

(* For every size of the ring, of its entries and of the buffer: a position  *)
(* of the server's list is found where the code looks for it                *)
(* (stringtables.rs:153-185).                                               *)
THEOREM RingIsRecent == HistorySpec => []RingHoldsRecent
  BY HistoryInvariant, PTL DEF HInv

(* Whatever the keys and however they are referred to, the table gets the    *)
(* entries that were sent (stringtables.rs:119-246).                        *)
THEOREM TableAsSent == HistorySpec => []ItemsAsSent
  BY HistoryInvariant, PTL DEF HInv

-----------------------------------------------------------------------------
(* The file.                                                                *)

\* The types that the position's arithmetic needs.
DemoTyped ==
  /\ file \in Files
  /\ rdr \in Nat
  /\ held \in 0 .. Len(file.commands)
  /\ read \in 0 .. Len(file.commands)
  /\ next \in 0 .. Len(file.commands) + 1
  /\ lost \in BOOLEAN

\* Where the end was met no header is read any more.
EndMet == (state = "reading" /\ ~lost /\ next = 0) => HeadersAt(rdr) = {}

\* Nothing was asked for before the demo header is read.
NothingYet == state = "new" => held = 0 /\ read = 0 /\ next = 1 /\ ~lost

DemoInv == DemoTyped /\ EndMet /\ NothingYet /\ PositionAgrees

-----------------------------------------------------------------------------
\* What IsDemo says of the file's commands, in numbers.
LEMMA FileTyped ==
  ASSUME file \in Files
  PROVE  /\ IsDemo(file)
         /\ Len(file.commands) \in Nat
         /\ DOMAIN file.commands = 1 .. Len(file.commands)
         /\ file.length \in Nat /\ file.info \in Nat /\ HeaderSize \in Nat
<1>1. IsDemo(file) BY DemoAssumption
<1>2. file.commands \in Seq([start : Nat, header : Nat \ {0}, body : Nat, unpacked : Int])
  BY <1>1 DEF IsDemo
<1>3. Len(file.commands) \in Nat /\ DOMAIN file.commands = 1 .. Len(file.commands) BY <1>2
<1>4. file.length \in Nat /\ file.info \in Nat /\ HeaderSize \in Nat
  BY <1>1, DemoAssumption DEF IsDemo
<1> QED BY <1>1, <1>3, <1>4

LEMMA CommandTyped ==
  ASSUME file \in Files, NEW k \in 1 .. Len(file.commands)
  PROVE  /\ file.commands[k].start \in Nat
         /\ file.commands[k].header \in Nat
         /\ file.commands[k].body \in Nat
         /\ BodyStart(k) \in Nat
         /\ file.commands[k].start < BodyStart(k)
         /\ BodyStart(k) - file.commands[k].header = file.commands[k].start
         /\ End(file.commands[k]) = BodyStart(k) + file.commands[k].body
         /\ End(file.commands[k]) \in Nat /\ BodyStart(k) <= End(file.commands[k])
<1>1. file.commands \in Seq([start : Nat, header : Nat \ {0}, body : Nat, unpacked : Int])
  BY FileTyped DEF IsDemo
<1>2. file.commands[k] \in [start : Nat, header : Nat \ {0}, body : Nat, unpacked : Int]
  BY <1>1, ElementOfSeq
<1>3. /\ file.commands[k].start \in Nat
      /\ file.commands[k].header \in Nat \ {0}
      /\ file.commands[k].body \in Nat
  BY <1>2
<1>4. /\ BodyStart(k) \in Nat
      /\ file.commands[k].start < BodyStart(k)
      /\ BodyStart(k) - file.commands[k].header = file.commands[k].start
  BY <1>3 DEF BodyStart
<1>5. End(file.commands[k]) = BodyStart(k) + file.commands[k].body
  BY DEF End, BodyStart
<1>6. End(file.commands[k]) \in Nat /\ BodyStart(k) <= End(file.commands[k])
  BY <1>3, <1>4, <1>5
<1> QED BY <1>3, <1>4, <1>5, <1>6

\* The next command is where the last one ends.
LEMMA EndIsStart ==
  ASSUME file \in Files, NEW k \in 1 .. Len(file.commands)
  PROVE  /\ Start(k + 1) = End(file.commands[k])
         /\ k + 1 \in 1 .. Len(file.commands) + 1 /\ k + 1 - 1 = k
<1>1. k \in Nat /\ k >= 1 /\ k <= Len(file.commands) /\ Len(file.commands) \in Nat BY FileTyped
<1>2. k + 1 # 1 /\ k + 1 - 1 = k BY <1>1
<1> QED BY <1>1, <1>2 DEF Start

\* Commands follow each other.
LEMMA CommandsFollow ==
  ASSUME file \in Files, NEW k \in 1 .. Len(file.commands)
  PROVE  /\ file.commands[k].start = Start(k)
         /\ \A j \in 1 .. Len(file.commands) :
              j < k => End(file.commands[j]) <= file.commands[k].start
<1>1. /\ file.commands[k].start = Start(k)
      /\ \A j \in 1 .. k - 1 : End(file.commands[j]) <= file.commands[k].start
  BY FileTyped DEF IsDemo, Start
<1>2. ASSUME NEW j \in 1 .. Len(file.commands), j < k
      PROVE  j \in 1 .. k - 1
  BY <1>2, FileTyped
<1> QED BY <1>1, <1>2

LEMMA StartTyped ==
  ASSUME file \in Files, NEW k \in 1 .. Len(file.commands) + 1
  PROVE  Start(k) \in Nat
<1>1. CASE k = 1 BY <1>1, FileTyped DEF Start
<1>2. CASE k # 1
  <2>1. k - 1 \in 1 .. Len(file.commands) BY <1>2, FileTyped
  <2>2. End(file.commands[k - 1]) \in Nat BY <2>1, CommandTyped
  <2> QED BY <1>2, <2>2 DEF Start
<1> QED BY <1>1, <1>2

\* What a header is: a command's, and whole.
LEMMA HeaderThere ==
  ASSUME file \in Files, NEW place, NEW j \in HeadersAt(place)
  PROVE  /\ j \in 1 .. Len(file.commands)
         /\ file.commands[j].start = place
         /\ BodyStart(j) <= file.length
BY FileTyped DEF HeadersAt

\* No two commands have one place.
LEMMA OnePlace ==
  ASSUME file \in Files,
         NEW j \in 1 .. Len(file.commands), NEW k \in 1 .. Len(file.commands), j # k
  PROVE  /\ file.commands[j].start # file.commands[k].start
         /\ BodyStart(j) # BodyStart(k)
<1>1. ASSUME NEW a \in 1 .. Len(file.commands), NEW b \in 1 .. Len(file.commands), a < b
      PROVE  file.commands[a].start < file.commands[b].start /\ BodyStart(a) < BodyStart(b)
  <2>1. End(file.commands[a]) <= file.commands[b].start BY <1>1, CommandsFollow
  <2>2. /\ BodyStart(a) \in Nat /\ End(file.commands[a]) \in Nat
        /\ file.commands[a].start \in Nat
        /\ file.commands[a].start < BodyStart(a) /\ BodyStart(a) <= End(file.commands[a])
    BY CommandTyped
  <2>3. /\ file.commands[b].start \in Nat /\ BodyStart(b) \in Nat
        /\ file.commands[b].start < BodyStart(b)
    BY CommandTyped
  <2> QED BY <2>1, <2>2, <2>3
<1>2. j < k \/ k < j BY FileTyped
<1>3. /\ file.commands[j].start \in Nat /\ file.commands[k].start \in Nat
      /\ BodyStart(j) \in Nat /\ BodyStart(k) \in Nat
  BY CommandTyped
<1>4. CASE j < k BY <1>1, <1>3, <1>4
<1>5. CASE k < j BY <1>1, <1>3, <1>5
<1> QED BY <1>2, <1>4, <1>5

\* The header at a command's place is its own, and the end is no place.
LEMMA HeaderIsNext ==
  ASSUME file \in Files, NEW k \in 1 .. Len(file.commands) + 1, NEW j \in HeadersAt(Start(k))
  PROVE  j = k
<1>1. j \in 1 .. Len(file.commands) /\ file.commands[j].start = Start(k) BY HeaderThere
<1>2. CASE k \in 1 .. Len(file.commands)
  <2>1. file.commands[k].start = file.commands[j].start BY <1>1, <1>2, CommandsFollow
  <2> QED BY <1>1, <1>2, <2>1, OnePlace
<1>3. CASE k = Len(file.commands) + 1
  <2> DEFINE n == Len(file.commands)
  <2>1. n \in 1 .. Len(file.commands) BY <1>1, FileTyped
  <2>2. Start(k) = BodyStart(n) + file.commands[n].body
    BY <1>3, <2>1, EndIsStart, CommandTyped
  <2>3. j = n \/ j < n BY <1>1, FileTyped
  <2>4. file.commands[j].start <= file.commands[n].start
    <3>1. CASE j = n BY <2>1, <3>1, CommandTyped
    <3>2. CASE j < n
      <4>1. End(file.commands[j]) <= file.commands[n].start BY <1>1, <2>1, <3>2, CommandsFollow
      <4>2. /\ BodyStart(j) \in Nat /\ End(file.commands[j]) \in Nat
            /\ file.commands[j].start \in Nat /\ file.commands[n].start \in Nat
            /\ file.commands[j].start < BodyStart(j) /\ BodyStart(j) <= End(file.commands[j])
        BY <1>1, <2>1, CommandTyped
      <4> QED BY <4>1, <4>2
    <3> QED BY <2>3, <3>1, <3>2
  <2> HIDE DEF n
  <2>5. /\ file.commands[n].start < BodyStart(n) /\ BodyStart(n) \in Nat
        /\ file.commands[n].body \in Nat /\ file.commands[n].start \in Nat
        /\ file.commands[j].start \in Nat
    BY <1>1, <2>1, CommandTyped
  <2>6. file.commands[j].start = BodyStart(n) + file.commands[n].body BY <1>1, <2>2
  <2> QED BY <2>4, <2>5, <2>6
<1> QED BY <1>2, <1>3, FileTyped

\* Behind a body that is broken off there is no header.
LEMMA NothingBehindBroken ==
  ASSUME file \in Files, NEW k \in 1 .. Len(file.commands), ~ReadsWhole(k),
         NEW place \in Nat, BodyStart(k) <= place
  PROVE  HeadersAt(place) = {}
<1> SUFFICES ASSUME NEW j \in HeadersAt(place) PROVE FALSE OBVIOUS
<1>1. /\ j \in 1 .. Len(file.commands)
      /\ file.commands[j].start = place /\ BodyStart(j) <= file.length
  BY HeaderThere
<1>2. /\ file.commands[j].start \in Nat /\ BodyStart(j) \in Nat /\ file.length \in Nat
      /\ file.commands[j].start < BodyStart(j)
      /\ file.commands[k].start \in Nat /\ BodyStart(k) \in Nat /\ file.commands[k].body \in Nat
      /\ file.commands[k].start < BodyStart(k)
      /\ End(file.commands[k]) = BodyStart(k) + file.commands[k].body
      /\ BodyStart(j) <= End(file.commands[j]) /\ End(file.commands[j]) \in Nat
  BY <1>1, CommandTyped, FileTyped
<1>3. BodyStart(k) + file.commands[k].body > file.length BY <1>2 DEF ReadsWhole
<1>4. CASE j = k BY <1>1, <1>2, <1>4
<1>5. CASE j < k
  <2>1. End(file.commands[j]) <= file.commands[k].start BY <1>1, <1>5, CommandsFollow
  <2> QED BY <1>1, <1>2, <2>1
<1>6. CASE k < j
  <2>1. End(file.commands[k]) <= file.commands[j].start BY <1>1, <1>6, CommandsFollow
  <2> QED BY <1>1, <1>2, <1>3, <2>1
<1> QED BY <1>1, <1>4, <1>5, <1>6, FileTyped

\* Neither is there one behind the end of the file.
LEMMA NothingBehindEnd ==
  ASSUME file \in Files, NEW place \in Nat, place >= file.length
  PROVE  HeadersAt(place) = {}
<1> SUFFICES ASSUME NEW j \in HeadersAt(place) PROVE FALSE OBVIOUS
<1>1. /\ j \in 1 .. Len(file.commands)
      /\ file.commands[j].start = place /\ BodyStart(j) <= file.length
  BY HeaderThere
<1>2. /\ file.commands[j].start < BodyStart(j) /\ file.commands[j].start \in Nat
      /\ BodyStart(j) \in Nat /\ file.length \in Nat
  BY <1>1, CommandTyped, FileTyped
<1> QED BY <1>1, <1>2

\* A body is where no other one is.
LEMMA BodyIsHeld ==
  ASSUME file \in Files, NEW k \in 1 .. Len(file.commands), NEW j \in BodiesAt(BodyStart(k))
  PROVE  j = k
<1>1. j \in 1 .. Len(file.commands) /\ BodyStart(j) = BodyStart(k)
  BY FileTyped DEF BodiesAt
<1> QED BY <1>1, OnePlace

-----------------------------------------------------------------------------
\* The file's layout does not change.
LEMMA SameLayout ==
  ASSUME file' = file
  PROVE  /\ HeadersAt(rdr)' = HeadersAt(rdr')
         /\ \A k : Start(k)' = Start(k) /\ BodyStart(k)' = BodyStart(k)
BY DEF HeadersAt, Start, BodyStart, End

\* A step after which the reader is where it is to be, and what that needs.
LEMMA Arrived ==
  ASSUME file \in Files, file' = file, rdr' \in Nat, lost' \in BOOLEAN,
         held' \in 0 .. Len(file.commands), read' \in 0 .. Len(file.commands),
         next' \in 1 .. Len(file.commands) + 1, state' # "new",
         (state' = "reading" /\ ~lost') =>
           /\ rdr' = IF held' = 0 THEN Start(next') ELSE BodyStart(held')
           /\ held' # 0 => held' = next'
           /\ read' # 0 => read' = next' - 1
  PROVE  DemoInv'
<1>1. DemoTyped' BY FileTyped DEF DemoTyped
<1>2. EndMet' /\ NothingYet' BY FileTyped DEF EndMet, NothingYet
<1>3. Start(next)' = Start(next') /\ BodyStart(held)' = BodyStart(held')
  BY DEF Start, BodyStart, End
<1>4. next' # 0 BY FileTyped
<1>5. PositionAgrees' BY <1>3, <1>4 DEF PositionAgrees
<1> QED BY <1>1, <1>2, <1>5 DEF DemoInv

\* A step after which the end was met.
LEMMA Ended ==
  ASSUME file \in Files, file' = file, rdr' \in Nat, lost' \in BOOLEAN,
         held' = 0, read' = 0, next' = 0, state' # "new", HeadersAt(rdr') = {}
  PROVE  DemoInv'
<1>1. DemoTyped' BY FileTyped DEF DemoTyped
<1>2. EndMet' /\ NothingYet' BY SameLayout DEF EndMet, NothingYet
<1>3. PositionAgrees' BY DEF PositionAgrees
<1> QED BY <1>1, <1>2, <1>3 DEF DemoInv

LEMMA DemoInvInit == DemoInit => DemoInv
<1> SUFFICES ASSUME DemoInit PROVE DemoInv OBVIOUS
<1>0. file \in Files BY DEF DemoInit
<1>l. Len(file.commands) \in Nat BY <1>0, FileTyped
<1>i. rdr = 0 /\ held = 0 /\ read = 0 /\ next = 1 /\ lost = FALSE BY DEF DemoInit
<1>n. /\ rdr \in Nat /\ held \in 0 .. Len(file.commands) /\ read \in 0 .. Len(file.commands)
      /\ next \in 0 .. Len(file.commands) + 1
  BY <1>l, <1>i
<1>1. DemoTyped BY <1>0, <1>i, <1>n DEF DemoTyped
<1>2. EndMet /\ NothingYet /\ PositionAgrees BY DEF DemoInit, EndMet, NothingYet, PositionAgrees
<1> QED BY <1>1, <1>2 DEF DemoInv

LEMMA DemoInvNext == DemoInv /\ [DemoNext]_demoVars => DemoInv'
<1> SUFFICES ASSUME DemoInv, [DemoNext]_demoVars PROVE DemoInv' OBVIOUS
<1>0. /\ file \in Files /\ rdr \in Nat /\ lost \in BOOLEAN
      /\ held \in 0 .. Len(file.commands) /\ read \in 0 .. Len(file.commands)
      /\ next \in 0 .. Len(file.commands) + 1
  BY DEF DemoInv, DemoTyped
<1>p. (state = "reading" /\ ~lost) =>
        /\ next = 0 => held = 0 /\ read = 0 /\ HeadersAt(rdr) = {}
        /\ next # 0 => /\ rdr = IF held = 0 THEN Start(next) ELSE BodyStart(held)
                       /\ held # 0 => held = next
                       /\ read # 0 => read = next - 1
  BY DEF DemoInv, PositionAgrees, EndMet
<1>l. Len(file.commands) \in Nat BY <1>0, FileTyped
<1>h. held # 0 => held \in 1 .. Len(file.commands) /\ BodyStart(held) \in Nat
  BY <1>0, CommandTyped
<1>1. CASE StartReading
  <2>1. held = 0 /\ read = 0 /\ next = 1 /\ ~lost
    BY <1>1 DEF StartReading, DemoInv, NothingYet
  <2>2. HeaderSize = Start(1) /\ HeaderSize \in Nat BY DemoAssumption DEF Start
  <2> QED BY <1>0, <1>l, <1>1, <2>1, <2>2, Arrived DEF StartReading
<1>2. CASE ReadCmdHeader
  <2>1. PICK k \in HeadersAt(rdr) : held' = k /\ rdr' = BodyStart(k) BY <1>2 DEF ReadCmdHeader
  <2>2. k \in 1 .. Len(file.commands) BY <1>0, FileTyped DEF HeadersAt
  <2>3. next \in 1 .. Len(file.commands) + 1 /\ rdr = Start(next)
    BY <1>0, <1>l, <1>p, <1>2 DEF ReadCmdHeader
  <2>4. k = next BY <1>0, <2>1, <2>3, HeaderIsNext
  <2>5. BodyStart(k) \in Nat BY <1>0, <2>2, CommandTyped
  <2> QED BY <1>0, <1>l, <1>2, <2>1, <2>2, <2>3, <2>4, <2>5, Arrived DEF ReadCmdHeader
<1>3. CASE ReadCmdHeaderAtEnd
  <2>1. rdr' \in Nat /\ rdr' >= file.length
    BY <1>0, <1>3, FileTyped DEF ReadCmdHeaderAtEnd
  <2>2. HeadersAt(rdr') = {} BY <1>0, <2>1, NothingBehindEnd
  <2> QED BY <1>0, <1>3, <2>1, <2>2, Ended DEF ReadCmdHeaderAtEnd
<1>4. CASE UnreadCmdHeader
  <2>1. held \in 1 .. Len(file.commands) /\ held = next /\ rdr = BodyStart(held)
    BY <1>0, <1>l, <1>p, <1>h, <1>4 DEF UnreadCmdHeader
  <2>2. file.commands[held].start = Start(held) BY <1>0, <2>1, CommandsFollow
  <2>3. rdr' = Start(next) /\ rdr' \in Nat
    BY <1>0, <1>4, <2>1, <2>2, CommandTyped DEF UnreadCmdHeader
  <2>4. next \in 1 .. Len(file.commands) + 1 BY <2>1, <1>l
  <2> QED BY <1>0, <1>l, <1>4, <2>3, <2>4, Arrived DEF UnreadCmdHeader
<1>5. CASE SkipCmd
  <2>1. held \in 1 .. Len(file.commands) /\ rdr = BodyStart(held)
    BY <1>0, <1>l, <1>p, <1>h, <1>5 DEF SkipCmd
  <2>2. rdr' = Start(held + 1) /\ rdr' \in Nat /\ held + 1 \in 1 .. Len(file.commands) + 1
    BY <1>0, <1>l, <1>5, <2>1, EndIsStart, CommandTyped DEF SkipCmd
  <2> QED BY <1>0, <1>l, <1>5, <2>2, Arrived DEF SkipCmd
<1>6. CASE ReadCmd
  <2>1. held \in 1 .. Len(file.commands) /\ rdr = BodyStart(held)
    BY <1>0, <1>l, <1>p, <1>h, <1>6 DEF ReadCmd
  <2>2. held = next BY <1>p, <1>6, <2>1 DEF ReadCmd
  <2>3. CASE Overflows(held)
    <3>1. /\ file' = file /\ rdr' = rdr /\ lost' = lost /\ held' = held /\ read' = read
          /\ next' = next /\ state' = "panicked"
      BY <1>6, <2>3 DEF ReadCmd
    <3>2. next' \in 1 .. Len(file.commands) + 1 BY <3>1, <2>1, <2>2, <1>l
    <3> QED BY <1>0, <3>1, <3>2, Arrived
  <2>4. CASE ~Overflows(held) /\ ReadsWhole(held)
    <3>1. /\ held' = 0 /\ next' = held + 1 /\ rdr' = rdr + file.commands[held].body
          /\ file' = file /\ lost' = lost /\ state' = state /\ state = "reading"
      BY <1>6, <2>4 DEF ReadCmd
    <3>2. PICK k \in BodiesAt(rdr) : read' = IF Unpacks(k) THEN k ELSE 0
      BY <1>6, <2>4 DEF ReadCmd
    <3>3. k = held BY <1>0, <2>1, <3>2, BodyIsHeld
    <3>4. rdr' = Start(held + 1) /\ rdr' \in Nat /\ held + 1 \in 1 .. Len(file.commands) + 1
      BY <1>0, <1>l, <2>1, <3>1, EndIsStart, CommandTyped
    <3>5. read' \in 0 .. Len(file.commands) /\ (read' # 0 => read' = held)
      BY <1>l, <2>1, <3>2, <3>3
    <3> QED BY <1>0, <1>l, <2>1, <3>1, <3>4, <3>5, Arrived
  <2>5. CASE ~Overflows(held) /\ ~ReadsWhole(held)
    <3>1. /\ held' = 0 /\ next' = 0 /\ read' = 0 /\ rdr' \in rdr .. file.length
          /\ file' = file /\ lost' = lost /\ state' = state /\ state = "reading"
      BY <1>6, <2>5 DEF ReadCmd
    <3>2. rdr' \in Nat /\ BodyStart(held) <= rdr' BY <1>0, <2>1, <3>1, FileTyped
    <3>3. HeadersAt(rdr') = {} BY <1>0, <2>1, <2>5, <3>2, NothingBehindBroken
    <3> QED BY <1>0, <3>1, <3>2, <3>3, Ended
  <2> QED BY <2>3, <2>4, <2>5
<1>7. CASE FileInfo
  <2>1. /\ file' = file /\ held' = held /\ next' = next /\ read' = 0 /\ state = "reading"
        /\ state' \in {"reading", "panicked"} /\ rdr' \in Nat /\ lost' \in BOOLEAN
        /\ (~lost' => rdr' = rdr /\ lost' = lost)
    <3>1. file.length \in Nat BY <1>0, FileTyped
    <3>2. CASE file_info # 0 BY <1>0, <1>7, <3>2 DEF FileInfo
    <3>3. CASE file_info = 0 /\ InfoReadable BY <1>0, <1>7, <3>3 DEF FileInfo
    <3>4. CASE file_info = 0 /\ ~InfoReadable
      <4>1. rdr' \in 0 .. file.length /\ lost' = TRUE BY <1>7, <3>4 DEF FileInfo
      <4>2. state' \in {"reading", "panicked"} BY <1>7, <3>4 DEF FileInfo
      <4> QED BY <1>7, <3>1, <4>1, <4>2 DEF FileInfo
    <3> QED BY <3>2, <3>3, <3>4
  <2>2. CASE next = 0
    <3>1. DemoTyped' BY <1>0, <2>1 DEF DemoTyped
    <3>2. EndMet' BY <1>p, <2>1, <2>2, SameLayout DEF EndMet
    <3>3. PositionAgrees' BY <1>p, <2>1, <2>2 DEF PositionAgrees
    <3> QED BY <2>1, <3>1, <3>2, <3>3 DEF DemoInv, NothingYet
  <2>3. CASE next # 0
    <3>1. next' \in 1 .. Len(file.commands) + 1 BY <1>0, <1>l, <2>1, <2>3
    <3>2. read' \in 0 .. Len(file.commands) BY <1>l, <2>1
    <3> QED BY <1>0, <1>p, <2>1, <2>3, <3>1, <3>2, Arrived
  <2> QED BY <2>2, <2>3
<1>8. CASE SeekStart
  <2>1. HeaderSize = Start(1) /\ HeaderSize \in Nat BY DemoAssumption DEF Start
  <2>2. /\ rdr' = HeaderSize /\ held' = 0 /\ next' = 1 /\ lost' = FALSE /\ read' = 0
        /\ file' = file /\ state' = "reading"
    BY <1>8 DEF SeekStart
  <2>3. 0 \in 0 .. Len(file.commands) /\ 1 \in 1 .. Len(file.commands) + 1 BY <1>l
  <2> QED BY <1>0, <2>1, <2>2, <2>3, Arrived
<1>9. CASE UNCHANGED demoVars
  <2>1. DemoTyped' /\ NothingYet' BY <1>9 DEF demoVars, DemoInv, DemoTyped, NothingYet
  <2>2. EndMet' BY <1>9, SameLayout DEF demoVars, DemoInv, EndMet
  <2>3. PositionAgrees' BY <1>9, SameLayout DEF demoVars, DemoInv, PositionAgrees
  <2> QED BY <2>1, <2>2, <2>3 DEF DemoInv
<1> QED BY <1>1, <1>2, <1>3, <1>4, <1>5, <1>6, <1>7, <1>8, <1>9 DEF DemoNext

(* For every demo, whole or broken off, and every size of the buffer: the     *)
(* reader stands before the command that the caller is to get next, or at   *)
(* the body whose header it holds, through failed decompressions, headers   *)
(* that are given back and the reading of the file info at any moment       *)
(* (demofile.rs:92-104, 132-194; demostream.rs:81-120).                     *)
THEOREM DemoPosition == DemoSpec => []PositionAgrees
<1>1. DemoSpec => []DemoInv BY DemoInvInit, DemoInvNext, PTL DEF DemoSpec
<1>2. DemoInv => PositionAgrees BY DEF DemoInv
<1> QED BY <1>1, <1>2, PTL

-----------------------------------------------------------------------------
(* The names of types.  First, what tokens spell: the chart of VarTypes, in  *)
(* which the last of n tokens and what fewer spell tell what they spell.      *)

\* The grammar's four rules and its first one, for a type x.
Named(tokens, n, i, x) ==
  n = 1 /\ tokens[i].kind = "Ident" /\ x = Ident(tokens[i].text)
\* A pointer, an array and a template by the types of fewer tokens.
Pointed(tokens, spelt, n, i, x) ==
  n > 0 /\ tokens[i + n - 1].kind = "Asterisk" /\ \E e \in spelt[n - 1][i] : x = Pointer(e)
Measured(tokens, spelt, n, i, x) ==
  /\ n > 3 /\ tokens[i + n - 1].kind = "RSquare" /\ tokens[i + n - 3].kind = "LSquare"
  /\ \E e \in spelt[n - 3][i], len \in Lengths(tokens[i + n - 2]) : x = Array(e, len)
Argued(tokens, spelt, n, i, x, k) ==
  /\ n > 3 /\ tokens[i + n - 1].kind = "RAngle" /\ tokens[i + k].kind = "LAngle"
  /\ \E e \in spelt[k][i], arg \in spelt[n - 2 - k][i + k + 1] : x = Template(e, arg)
\* n tokens from the i-th on spell x, by the last of them.
Spells(tokens, spelt, n, i, x) ==
  \/ Named(tokens, n, i, x) \/ Pointed(tokens, spelt, n, i, x) \/ Measured(tokens, spelt, n, i, x)
  \/ \E k \in 1 .. n - 3 : Argued(tokens, spelt, n, i, x, k)

\* That is what a line of the chart holds.
LEMMA SpeltByIs ==
  ASSUME NEW tokens, NEW spelt, NEW n \in Nat, NEW i \in Nat, NEW x
  PROVE  x \in SpeltBy(tokens, spelt, n, i) <=> Spells(tokens, spelt, n, i, x)
<1> DEFINE kind == tokens[i + n - 1].kind
           S == SpeltBy(tokens, spelt, n, i)
<1>1. n = 1 => i + n - 1 = i
  OBVIOUS
<1>2. CASE n > 0 /\ kind = "Ident"
  BY <1>1, <1>2 DEF SpeltBy, Spells, Named, Pointed, Measured, Argued
<1>3. CASE n > 0 /\ kind = "Asterisk"
  BY <1>1, <1>3 DEF SpeltBy, Spells, Named, Pointed, Measured, Argued
<1>4. CASE n > 3 /\ kind = "RSquare"
  BY <1>4 DEF SpeltBy, Spells, Named, Pointed, Measured, Argued
<1>5. CASE n > 3 /\ kind = "RAngle"
  <2> DEFINE K == {k \in 1 .. n - 3 : tokens[i + k].kind = "LAngle"}
             T(k) == {Template(e, arg) : e \in spelt[k][i], arg \in spelt[n - 2 - k][i + k + 1]}
  <2>1. S = UNION {T(k) : k \in K}
    BY <1>5 DEF SpeltBy
  <2>2. x \in S <=> \E k \in K : x \in T(k)
    BY <2>1
  <2>3. \A k : x \in T(k) <=> \E e \in spelt[k][i], arg \in spelt[n - 2 - k][i + k + 1] : x = Template(e, arg)
    OBVIOUS
  <2>4. Spells(tokens, spelt, n, i, x) <=> \E k \in 1 .. n - 3 : Argued(tokens, spelt, n, i, x, k)
    BY <1>5 DEF Spells, Named, Pointed, Measured
  <2>5. \A k : Argued(tokens, spelt, n, i, x, k) <=> tokens[i + k].kind = "LAngle" /\ x \in T(k)
    BY <1>5, <2>3 DEF Argued
  <2>6. (\E k \in K : x \in T(k)) <=> \E k \in 1 .. n - 3 : Argued(tokens, spelt, n, i, x, k)
    BY <2>5
  <2> QED
    BY <2>2, <2>4, <2>6
<1>6. CASE ~(n > 0 /\ kind \in {"Ident", "Asterisk"}) /\ ~(n > 3 /\ kind \in {"RSquare", "RAngle"})
  BY <1>1, <1>6 DEF SpeltBy, Spells, Named, Pointed, Measured, Argued
<1> QED
  BY <1>2, <1>3, <1>4, <1>5, <1>6

\* Only what fewer tokens spell matters.
LEMMA SpeltByFewer ==
  ASSUME NEW tokens, NEW n \in Nat, NEW i \in Nat, NEW f, NEW g,
         \A k \in 0 .. n - 1 : f[k] = g[k]
  PROVE  SpeltBy(tokens, f, n, i) = SpeltBy(tokens, g, n, i)
<1>1. n > 0 => f[n - 1] = g[n - 1]
  OBVIOUS
<1>2. n > 3 => f[n - 3] = g[n - 3]
  OBVIOUS
<1>3. \A k \in 1 .. n - 3 : f[k] = g[k] /\ f[n - 2 - k] = g[n - 2 - k]
  OBVIOUS
<1>4. ASSUME NEW x PROVE Spells(tokens, f, n, i, x) <=> Spells(tokens, g, n, i, x)
  <2>1. Pointed(tokens, f, n, i, x) <=> Pointed(tokens, g, n, i, x)
    BY <1>1 DEF Pointed
  <2>2. Measured(tokens, f, n, i, x) <=> Measured(tokens, g, n, i, x)
    BY <1>2 DEF Measured
  <2>3. \A k \in 1 .. n - 3 : Argued(tokens, f, n, i, x, k) <=> Argued(tokens, g, n, i, x, k)
    BY <1>3 DEF Argued
  <2> QED
    BY <2>1, <2>2, <2>3 DEF Spells
<1>5. \A x : x \in SpeltBy(tokens, f, n, i) <=> x \in SpeltBy(tokens, g, n, i)
  BY <1>4, SpeltByIs
<1> QED
  BY <1>5

\* The function by which Spelt is defined, up to m tokens.
SpeltUpTo(f, tokens, m) ==
  /\ f = [n \in 0 .. Len(tokens) |-> f[n]]
  /\ \A n \in 0 .. m : f[n] = [i \in 1 .. Len(tokens) - n + 1 |-> SpeltBy(tokens, f, n, i)]

\* There is one.
LEMMA SpeltExists ==
  ASSUME NEW tokens, Len(tokens) \in Nat
  PROVE  \E f : SpeltUpTo(f, tokens, Len(tokens))
<1> DEFINE L == Len(tokens)
           Row(f, n) == [i \in 1 .. L - n + 1 |-> SpeltBy(tokens, f, n, i)]
           G == {m \in Nat : m <= L => \E f : SpeltUpTo(f, tokens, m)}
<1>1. 0 \in G
  <2> DEFINE f == [n \in 0 .. L |-> Row(<<>>, 0)]
  <2>1. Row(f, 0) = Row(<<>>, 0)
    <3>1. \A i \in 1 .. L - 0 + 1 : SpeltBy(tokens, f, 0, i) = SpeltBy(tokens, <<>>, 0, i)
      BY SpeltByFewer
    <3> QED
      BY <3>1
  <2>2. f[0] = Row(f, 0)
    BY <2>1
  <2> HIDE DEF Row
  <2>3. f = [n \in 0 .. L |-> f[n]]
    OBVIOUS
  <2>4. \A n \in 0 .. 0 : f[n] = Row(f, n)
    BY <2>2
  <2> HIDE DEF f
  <2> USE DEF Row
  <2>5. SpeltUpTo(f, tokens, 0)
    BY <2>3, <2>4 DEF SpeltUpTo
  <2> QED
    BY <2>5
<1>2. ASSUME NEW m \in Nat, m \in G PROVE m + 1 \in G
  <2> SUFFICES ASSUME m + 1 <= L PROVE \E f : SpeltUpTo(f, tokens, m + 1)
    OBVIOUS
  <2>1. PICK g : SpeltUpTo(g, tokens, m)
    BY <1>2
  <2> DEFINE f == [n \in 0 .. L |-> IF n = m + 1 THEN Row(g, m + 1) ELSE g[n]]
  <2>2. \A n \in 0 .. m : f[n] = g[n]
    <3> HIDE DEF Row
    <3> QED
      OBVIOUS
  <2>3. ASSUME NEW n \in 0 .. m + 1 PROVE Row(f, n) = Row(g, n)
    <3>1. \A k \in 0 .. n - 1 : f[k] = g[k]
      BY <2>2
    <3> HIDE DEF f
    <3>2. \A i \in 1 .. L - n + 1 : SpeltBy(tokens, f, n, i) = SpeltBy(tokens, g, n, i)
      BY <3>1, SpeltByFewer
    <3> QED
      BY <3>2
  <2>4. \A n \in 0 .. m : g[n] = Row(g, n)
    BY <2>1 DEF SpeltUpTo
  <2> HIDE DEF Row
  <2>5. f = [n \in 0 .. L |-> f[n]]
    OBVIOUS
  <2>6. f[m + 1] = Row(g, m + 1)
    OBVIOUS
  <2> HIDE DEF f
  <2>7. \A n \in 0 .. m + 1 : f[n] = Row(f, n)
    BY <2>2, <2>3, <2>4, <2>6
  <2> USE DEF Row
  <2>8. SpeltUpTo(f, tokens, m + 1)
    BY <2>5, <2>7 DEF SpeltUpTo
  <2> QED
    BY <2>8
<1>3. \A m \in Nat : m \in G
  <2> HIDE DEF G
  <2> QED
    BY <1>1, <1>2, NaturalInduction
<1> QED
  BY <1>3

\* What n tokens from the i-th on spell is what the grammar says.
LEMMA SpeltIs ==
  ASSUME NEW tokens, Len(tokens) \in Nat, NEW n \in 0 .. Len(tokens),
         NEW i \in 1 .. Len(tokens) - n + 1, NEW x
  PROVE  x \in Spelt(tokens)[n][i] <=> Spells(tokens, Spelt(tokens), n, i, x)
<1> DEFINE L == Len(tokens)
           Row(f, k) == [j \in 1 .. L - k + 1 |-> SpeltBy(tokens, f, k, j)]
           s == CHOOSE f : f = [k \in 0 .. L |-> Row(f, k)]
<1>1. \E f : f = [k \in 0 .. L |-> Row(f, k)]
  <2>1. PICK f : SpeltUpTo(f, tokens, L)
    BY SpeltExists
  <2>2. f = [k \in 0 .. L |-> f[k]] /\ \A k \in 0 .. L : f[k] = Row(f, k)
    BY <2>1 DEF SpeltUpTo
  <2> HIDE DEF Row
  <2>3. f = [k \in 0 .. L |-> Row(f, k)]
    BY <2>2
  <2> QED
    BY <2>3
<1>2. s = [k \in 0 .. L |-> Row(s, k)]
  BY <1>1
<1>3. Spelt(tokens) = s
  BY DEF Spelt
<1> HIDE DEF s
<1>4. s[n] = Row(s, n)
  <2> HIDE DEF Row
  <2> QED
    BY <1>2
<1>5. s[n][i] = SpeltBy(tokens, s, n, i)
  BY <1>4
<1>6. n \in Nat /\ i \in Nat
  OBVIOUS
<1> QED
  BY <1>3, <1>5, <1>6, SpeltByIs

\* Both sequences have the same n tokens from the i-th on.
Agree(t, u, n, i) ==
  i + n - 1 <= Len(t) /\ i + n - 1 <= Len(u) /\ \A k \in i .. i + n - 1 : t[k] = u[k]
\* What those tokens of t spell, those of u spell.
Kept(t, u, n, i) == \A x : x \in Spelt(t)[n][i] => x \in Spelt(u)[n][i]

\* What agrees, agrees inside.
LEMMA AgreeInside ==
  ASSUME NEW t, NEW u, Len(t) \in Nat, Len(u) \in Nat, NEW n \in Nat, NEW i \in Nat \ {0},
         Agree(t, u, n, i), NEW m \in Nat, NEW j \in Nat, i <= j, j + m <= i + n
  PROVE  Agree(t, u, m, j)
<1>1. j + m - 1 <= i + n - 1 /\ \A k \in j .. j + m - 1 : k \in i .. i + n - 1
  OBVIOUS
<1>2. i + n - 1 <= Len(t) /\ i + n - 1 <= Len(u) /\ \A k \in i .. i + n - 1 : t[k] = u[k]
  BY DEF Agree
<1>3. \A k \in j .. j + m - 1 : t[k] = u[k]
  BY <1>1, <1>2
<1>4. j + m - 1 <= Len(t) /\ j + m - 1 <= Len(u)
  BY <1>1, <1>2
<1> QED
  BY <1>3, <1>4 DEF Agree

\* They spell the same.
LEMMA SpeltAgrees ==
  ASSUME NEW t, NEW u, Len(t) \in Nat, Len(u) \in Nat
  PROVE  \A n \in Nat : \A i \in Nat \ {0} : Agree(t, u, n, i) => Kept(t, u, n, i)
<1> DEFINE G == {n \in Nat : \A i \in Nat \ {0} : Agree(t, u, n, i) => Kept(t, u, n, i)}
<1>1. ASSUME NEW n \in Nat, \A k \in 0 .. n - 1 : k \in G PROVE n \in G
  <2> SUFFICES ASSUME NEW i \in Nat \ {0}, Agree(t, u, n, i), NEW x, x \in Spelt(t)[n][i]
               PROVE  x \in Spelt(u)[n][i]
    BY DEF Kept
  <2>1. ASSUME NEW m \in Nat, m < n, NEW j \in Nat, i <= j, j + m <= i + n
        PROVE  Kept(t, u, m, j)
    <3>1. Agree(t, u, m, j)
      BY <2>1, AgreeInside
    <3>2. m \in G /\ j \in Nat \ {0}
      BY <1>1, <2>1
    <3> QED
      BY <3>1, <3>2
  <2> HIDE DEF G
  <2>2. n \in 0 .. Len(t) /\ i \in 1 .. Len(t) - n + 1 /\ n \in 0 .. Len(u) /\ i \in 1 .. Len(u) - n + 1
    BY DEF Agree
  <2>3. Spells(t, Spelt(t), n, i, x)
    BY <2>2, SpeltIs
  <2>4. \A k \in i .. i + n - 1 : t[k] = u[k]
    BY DEF Agree
  <2>5. CASE Named(t, n, i, x)
    <3>1. t[i] = u[i]
      BY <2>4, <2>5 DEF Named
    <3>2. Named(u, n, i, x)
      BY <2>5, <3>1 DEF Named
    <3> QED
      BY <2>2, <3>2, SpeltIs DEF Spells
  <2>6. CASE Pointed(t, Spelt(t), n, i, x)
    <3>1. n > 0 /\ t[i + n - 1] = u[i + n - 1]
      BY <2>4, <2>6 DEF Pointed
    <3>2. Kept(t, u, n - 1, i)
      BY <2>1, <3>1
    <3>3. Pointed(u, Spelt(u), n, i, x)
      BY <2>6, <3>1, <3>2 DEF Pointed, Kept
    <3> QED
      BY <2>2, <3>3, SpeltIs DEF Spells
  <2>7. CASE Measured(t, Spelt(t), n, i, x)
    <3>0. n > 3 /\ {i + n - 1, i + n - 2, i + n - 3} \subseteq i .. i + n - 1
      BY <2>7 DEF Measured
    <3>1. n > 3 /\ t[i + n - 1] = u[i + n - 1] /\ t[i + n - 2] = u[i + n - 2] /\ t[i + n - 3] = u[i + n - 3]
      BY <2>4, <3>0
    <3>4. n - 3 \in Nat /\ n - 3 < n /\ i <= i /\ i + (n - 3) <= i + n /\ i \in Nat
      BY <3>0
    <3>2. Kept(t, u, n - 3, i)
      BY <2>1, <3>4
    <3>3. Measured(u, Spelt(u), n, i, x)
      BY <2>7, <3>1, <3>2 DEF Measured, Kept
    <3> QED
      BY <2>2, <3>3, SpeltIs DEF Spells
  <2>8. CASE \E k \in 1 .. n - 3 : Argued(t, Spelt(t), n, i, x, k)
    <3>1. PICK k \in 1 .. n - 3 : Argued(t, Spelt(t), n, i, x, k)
      BY <2>8
    <3>6. n > 3
      BY <3>1 DEF Argued
    <3>0. i + n - 1 \in i .. i + n - 1 /\ i + k \in i .. i + n - 1
      BY <3>6
    <3>2. n > 3 /\ t[i + n - 1] = u[i + n - 1] /\ t[i + k] = u[i + k]
      BY <2>4, <3>0, <3>6
    <3>3. Kept(t, u, k, i)
      BY <2>1
    <3>7. /\ n - 2 - k \in Nat /\ n - 2 - k < n /\ i + k + 1 \in Nat /\ i <= i + k + 1
          /\ (i + k + 1) + (n - 2 - k) <= i + n
      BY <3>6
    <3>4. Kept(t, u, n - 2 - k, i + k + 1)
      BY <2>1, <3>7
    <3>5. Argued(u, Spelt(u), n, i, x, k)
      BY <3>1, <3>2, <3>3, <3>4 DEF Argued, Kept
    <3> QED
      BY <2>2, <3>5, SpeltIs DEF Spells
  <2> QED
    BY <2>3, <2>5, <2>6, <2>7, <2>8 DEF Spells
<1>2. \A n \in Nat : n \in G
  <2> HIDE DEF G
  <2> QED
    BY <1>1, StrongInduction
<1> QED
  BY <1>2

-----------------------------------------------------------------------------
(* How a name is read from left to right: how many angles are open, and what *)
(* is wanted next.                                                          *)

\* Where the parser is in a name, told by its tokens alone: how many angles are open,
\* and what is wanted next; after a wrong token it is nowhere.
At(depth, wants) == [depth |-> depth, wants |-> wants]
Nowhere == At(0, "nothing")
\* What a token changes of it.
After(p, token) ==
  CASE p.wants = "Ident" /\ token.kind = "Ident"                 -> At(p.depth, "more")
    [] p.wants = "more" /\ token.kind = "Asterisk"               -> p
    [] p.wants = "more" /\ token.kind = "LAngle"                 -> At(p.depth + 1, "Ident")
    [] p.wants = "more" /\ token.kind = "RAngle" /\ p.depth > 0  -> At(p.depth - 1, "more")
    [] p.wants = "more" /\ token.kind = "LSquare"                -> At(p.depth, "length")
    [] p.wants = "length" /\ Lengths(token) # {}                 -> At(p.depth, "RSquare")
    [] p.wants = "RSquare" /\ token.kind = "RSquare"             -> At(p.depth, "more")
    [] OTHER                                                     -> Nowhere
\* It is at st[k] after the first k tokens.
Reading(st, tokens) ==
  st[0] = At(0, "Ident") /\ \A k \in 1 .. Len(tokens) : st[k] = After(st[k - 1], tokens[k])

\* A token that is wanted.
LEMMA AfterIs ==
  ASSUME NEW d \in Nat, NEW token
  PROVE  /\ token.kind = "Ident" => After(At(d, "Ident"), token) = At(d, "more")
         /\ token.kind = "Asterisk" => After(At(d, "more"), token) = At(d, "more")
         /\ token.kind = "LAngle" => After(At(d, "more"), token) = At(d + 1, "Ident")
         /\ token.kind = "RAngle" => After(At(d + 1, "more"), token) = At(d, "more")
         /\ token.kind = "LSquare" => After(At(d, "more"), token) = At(d, "length")
         /\ Lengths(token) # {} => After(At(d, "length"), token) = At(d, "RSquare")
         /\ token.kind = "RSquare" => After(At(d, "RSquare"), token) = At(d, "more")
BY DEF After, At

\* One that is not; and nothing follows a wrong one.
LEMMA AfterRefuses ==
  ASSUME NEW d \in Nat, NEW token
  PROVE  /\ token.kind # "Ident" => After(At(d, "Ident"), token) = Nowhere
         /\ token.kind \notin {"Asterisk", "LAngle", "LSquare", "RAngle"} => After(At(d, "more"), token) = Nowhere
         /\ token.kind = "RAngle" => After(At(0, "more"), token) = Nowhere
         /\ Lengths(token) = {} => After(At(d, "length"), token) = Nowhere
         /\ token.kind # "RSquare" => After(At(d, "RSquare"), token) = Nowhere
         /\ After(Nowhere, token) = Nowhere
BY DEF After, At, Nowhere

\* What is spelt is read to its end, and leaves nothing open.
LEMMA SpeltIsRead ==
  ASSUME NEW t, Len(t) \in Nat, NEW st, Reading(st, t)
  PROVE  \A n \in Nat : \A i \in Nat \ {0}, d \in Nat :
           /\ i + n - 1 <= Len(t) /\ st[i - 1] = At(d, "Ident")
           /\ Spelt(t)[n][i] # {}
           => st[i + n - 1] = At(d, "more")
<1> DEFINE Readable(n, i, d) ==
             (/\ i + n - 1 <= Len(t) /\ st[i - 1] = At(d, "Ident") /\ Spelt(t)[n][i] # {})
               => st[i + n - 1] = At(d, "more")
           G == {n \in Nat : \A i \in Nat \ {0}, d \in Nat : Readable(n, i, d)}
<1>1. ASSUME NEW n \in Nat, \A k \in 0 .. n - 1 : k \in G PROVE n \in G
  <2> SUFFICES ASSUME NEW i \in Nat \ {0}, NEW d \in Nat, i + n - 1 <= Len(t),
                      st[i - 1] = At(d, "Ident"), NEW x, x \in Spelt(t)[n][i]
               PROVE  st[i + n - 1] = At(d, "more")
    OBVIOUS
  <2>1. ASSUME NEW m \in Nat, m < n, NEW j \in Nat \ {0}, NEW e \in Nat,
               j + m - 1 <= Len(t), st[j - 1] = At(e, "Ident"), Spelt(t)[m][j] # {}
        PROVE  st[j + m - 1] = At(e, "more")
    BY <1>1, <2>1
  <2> HIDE DEF G
  <2>2. n \in 0 .. Len(t) /\ i \in 1 .. Len(t) - n + 1
    OBVIOUS
  <2>3. Spells(t, Spelt(t), n, i, x)
    BY <2>2, SpeltIs
  <2>4. ASSUME NEW k \in 1 .. Len(t) PROVE st[k] = After(st[k - 1], t[k])
    BY DEF Reading
  <2>9. ASSUME NEW j \in Nat, j + 1 <= Len(t) PROVE st[j + 1] = After(st[j], t[j + 1])
    <3>1. j + 1 \in 1 .. Len(t) /\ (j + 1) - 1 = j
      BY <2>9
    <3> QED
      BY <2>4, <3>1
  <2>5. CASE Named(t, n, i, x)
    <3>1. i + n - 1 = i /\ t[i].kind = "Ident" /\ i \in 1 .. Len(t)
      BY <2>5 DEF Named
    <3> QED
      BY <2>4, <3>1, AfterIs
  <2>6. CASE Pointed(t, Spelt(t), n, i, x)
    <3>1. n > 0 /\ t[i + n - 1].kind = "Asterisk" /\ Spelt(t)[n - 1][i] # {}
      BY <2>6 DEF Pointed
    <3>2. st[i + (n - 1) - 1] = At(d, "more")
      BY <2>1, <3>1
    <3>3. i + n - 1 \in 1 .. Len(t) /\ i + (n - 1) - 1 = (i + n - 1) - 1
      BY <3>1
    <3> QED
      BY <2>4, <3>1, <3>2, <3>3, AfterIs
  <2>7. CASE Measured(t, Spelt(t), n, i, x)
    <3>1. /\ n > 3 /\ t[i + n - 1].kind = "RSquare" /\ t[i + n - 3].kind = "LSquare"
          /\ Spelt(t)[n - 3][i] # {} /\ Lengths(t[i + n - 2]) # {}
      BY <2>7 DEF Measured
    <3>2. st[i + (n - 3) - 1] = At(d, "more")
      BY <2>1, <3>1
    <3>3. PICK a \in Nat : /\ i + n - 1 = a + 3 /\ i + n - 2 = a + 2 /\ i + n - 3 = a + 1
                           /\ i + (n - 3) - 1 = a /\ a + 3 <= Len(t)
      <4>1. i + n - 4 \in Nat
        BY <3>1
      <4>2. /\ i + n - 1 = (i + n - 4) + 3 /\ i + n - 2 = (i + n - 4) + 2 /\ i + n - 3 = (i + n - 4) + 1
            /\ i + (n - 3) - 1 = i + n - 4
        BY <3>1
      <4>3. (i + n - 4) + 3 <= Len(t)
        BY <3>1, <4>2
      <4> QED
        BY <4>1, <4>2, <4>3
    <3>7. /\ st[a + 1] = After(st[a], t[a + 1])
          /\ st[a + 2] = After(st[a + 1], t[a + 2])
          /\ st[a + 3] = After(st[a + 2], t[a + 3])
      <4>1. /\ a + 1 \in Nat /\ a + 2 \in Nat /\ (a + 1) + 1 = a + 2 /\ (a + 2) + 1 = a + 3
            /\ a + 1 <= Len(t) /\ a + 2 <= Len(t)
        BY <3>3
      <4>2. st[(a + 1) + 1] = After(st[a + 1], t[(a + 1) + 1])
        BY <2>9, <4>1
      <4>3. st[(a + 2) + 1] = After(st[a + 2], t[(a + 2) + 1])
        BY <2>9, <3>3, <4>1
      <4> QED
        BY <2>9, <4>1, <4>2, <4>3
    <3>4. st[a + 1] = At(d, "length")
      <4>1. t[a + 1].kind = "LSquare" /\ st[a] = At(d, "more")
        BY <3>1, <3>2, <3>3
      <4> QED
        BY <3>7, <4>1, AfterIs
    <3>5. st[a + 2] = At(d, "RSquare")
      <4>1. Lengths(t[a + 2]) # {}
        BY <3>1, <3>3
      <4> QED
        BY <3>4, <3>7, <4>1, AfterIs
    <3>6. st[a + 3] = At(d, "more")
      <4>1. t[a + 3].kind = "RSquare"
        BY <3>1, <3>3
      <4> QED
        BY <3>5, <3>7, <4>1, AfterIs
    <3> QED
      BY <3>3, <3>6
  <2>8. CASE \E k \in 1 .. n - 3 : Argued(t, Spelt(t), n, i, x, k)
    <3>1. PICK k \in 1 .. n - 3 : Argued(t, Spelt(t), n, i, x, k)
      BY <2>8
    <3>2. /\ n > 3 /\ t[i + n - 1].kind = "RAngle" /\ t[i + k].kind = "LAngle"
          /\ Spelt(t)[k][i] # {} /\ Spelt(t)[n - 2 - k][i + k + 1] # {}
      BY <3>1 DEF Argued
    <3>3. st[i + k - 1] = At(d, "more")
      BY <2>1, <3>2
    <3>4. PICK a \in Nat : i + k = a + 1 /\ i + k - 1 = a /\ i + k + 1 = a + 2 /\ a + 2 < i + n
      <4>1. i + k - 1 \in Nat
        OBVIOUS
      <4> QED
        BY <4>1
    <3>5. st[a + 1] = At(d + 1, "Ident")
      <4>1. t[a + 1].kind = "LAngle" /\ st[a] = At(d, "more")
        BY <3>2, <3>3, <3>4
      <4>3. a + 1 <= Len(t)
        BY <3>4
      <4>2. st[a + 1] = After(st[a], t[a + 1])
        BY <2>9, <4>3
      <4> QED
        BY <4>1, <4>2, AfterIs
    <3>6. PICK b \in Nat : i + n - 1 = b + 1 /\ (a + 2) + (n - 2 - k) - 1 = b /\ b + 1 <= Len(t)
      <4>1. i + n - 2 \in Nat
        BY <3>2
      <4> QED
        BY <3>4, <4>1
    <3>7. st[b] = At(d + 1, "more")
      <4>1. a + 2 \in Nat \ {0} /\ (a + 2) - 1 = a + 1 /\ n - 2 - k \in Nat /\ n - 2 - k < n /\ d + 1 \in Nat
        BY <3>2
      <4>2. (a + 2) + (n - 2 - k) - 1 <= Len(t)
        BY <3>6
      <4>3. st[(a + 2) - 1] = At(d + 1, "Ident") /\ Spelt(t)[n - 2 - k][a + 2] # {}
        BY <3>2, <3>4, <3>5, <4>1
      <4>4. st[(a + 2) + (n - 2 - k) - 1] = At(d + 1, "more")
        <5> DEFINE m == n - 2 - k
                   j == a + 2
                   e == d + 1
        <5>1. m \in Nat /\ m < n /\ j \in Nat \ {0} /\ e \in Nat
          BY <4>1
        <5>2. j + m - 1 <= Len(t) /\ st[j - 1] = At(e, "Ident") /\ Spelt(t)[m][j] # {}
          BY <4>2, <4>3
        <5> HIDE DEF m, j, e
        <5>3. st[j + m - 1] = At(e, "more")
          BY <2>1, <5>1, <5>2
        <5> QED
          BY <5>3 DEF m, j, e
      <4> QED
        BY <3>6, <4>4
    <3>8. st[b + 1] = After(st[b], t[b + 1]) /\ t[b + 1].kind = "RAngle"
      BY <2>9, <3>2, <3>6
    <3>9. st[b + 1] = At(d, "more")
      BY <3>7, <3>8, AfterIs
    <3> QED
      BY <3>6, <3>9
  <2> QED
    BY <2>3, <2>5, <2>6, <2>7, <2>8 DEF Spells
<1>2. \A n \in Nat : n \in G
  <2> HIDE DEF G
  <2> QED
    BY <1>1, StrongInduction
<1> QED
  BY <1>2

\* Every sequence of tokens is read in one way.
LEMMA ReadingExists ==
  ASSUME NEW S
  PROVE  \A t \in Seq(S) : \E st : Reading(st, t)
<1> DEFINE G == {t \in Seq(S) : \E st : Reading(st, t)}
<1>1. <<>> \in G
  <2>1. Reading([k \in 0 .. 0 |-> At(0, "Ident")], <<>>)
    BY DEF Reading
  <2> QED
    BY <2>1
<1>2. ASSUME NEW t \in Seq(S), NEW e \in S, t \in G PROVE Append(t, e) \in G
  <2>1. PICK st : Reading(st, t)
    BY <1>2
  <2> DEFINE n == Len(t)
             u == Append(t, e)
             r == [k \in 0 .. n + 1 |-> IF k = n + 1 THEN After(st[n], e) ELSE st[k]]
  <2>2. n \in Nat /\ u \in Seq(S) /\ Len(u) = n + 1 /\ u[n + 1] = e /\ \A k \in 1 .. n : u[k] = t[k]
    BY AppendProperties, LenProperties
  <2>3. ASSUME NEW k \in 1 .. n + 1 PROVE r[k] = After(r[k - 1], u[k])
    <3>1. r[k - 1] = st[k - 1]
      BY <2>2
    <3>2. CASE k = n + 1
      BY <2>2, <3>1, <3>2
    <3>3. CASE k # n + 1
      <4>1. k \in 1 .. n
        BY <2>2, <3>3
      <4>2. r[k] = st[k] /\ u[k] = t[k] /\ st[k] = After(st[k - 1], t[k])
        BY <2>1, <2>2, <3>3, <4>1 DEF Reading
      <4> QED
        BY <3>1, <4>2
    <3> QED
      BY <3>2, <3>3
  <2>4. r[0] = At(0, "Ident")
    BY <2>1, <2>2 DEF Reading
  <2> HIDE DEF r, u
  <2>5. Reading(r, u)
    BY <2>2, <2>3, <2>4 DEF Reading
  <2> QED
    BY <2>2, <2>5 DEF u
<1> QED
  <2> HIDE DEF G
  <2>1. \A t \in Seq(S) : t \in G
    BY <1>1, <1>2, SequenceInduction
  <2> QED
    BY <2>1 DEF G

\* What the tokenizer yields.
TokenKinds == {"none", "unknown", "Ident", "Lit", "LAngle", "RAngle", "LSquare", "RSquare", "Asterisk"}
Tokens(chars) == [kind : TokenKinds, text : Seq(chars)]

-----------------------------------------------------------------------------
(* Parts of a name that are types.                                          *)

\* The i-th to the j-th token spell x.
Part(tokens, i, j, x) ==
  /\ i \in Nat \ {0} /\ j \in Nat /\ i <= j /\ j <= Len(tokens)
  /\ x \in Spelt(tokens)[j + 1 - i][i]

\* What the part spells, by its last token.
LEMMA PartIs ==
  ASSUME NEW t, Len(t) \in Nat, NEW i \in Nat \ {0}, NEW n \in Nat, n > 0, i + n - 1 <= Len(t), NEW x
  PROVE  Part(t, i, i + n - 1, x) <=> Spells(t, Spelt(t), n, i, x)
<1>1. n \in 0 .. Len(t) /\ i \in 1 .. Len(t) - n + 1
  OBVIOUS
<1>2. i + n - 1 \in Nat /\ i <= i + n - 1 /\ (i + n - 1) + 1 - i = n
  OBVIOUS
<1> QED
  BY <1>1, <1>2, SpeltIs DEF Part

\* An identifier is a type.
LEMMA PartNamed ==
  ASSUME NEW t, Len(t) \in Nat, NEW i \in Nat \ {0}, i <= Len(t), t[i].kind = "Ident"
  PROVE  Part(t, i, i, Ident(t[i].text))
<1>1. i + 1 - 1 = i /\ 1 \in Nat
  OBVIOUS
<1>2. Spells(t, Spelt(t), 1, i, Ident(t[i].text))
  BY DEF Spells, Named
<1>3. i + 1 - 1 <= Len(t) /\ 1 > 0
  BY <1>1
<1>4. Part(t, i, i + 1 - 1, Ident(t[i].text))
  BY <1>1, <1>2, <1>3, PartIs
<1> QED
  BY <1>1, <1>4

\* So is a type and an asterisk,
LEMMA PartPointed ==
  ASSUME NEW t, Len(t) \in Nat, NEW i, NEW j, NEW e, Part(t, i, j, e),
         j + 1 <= Len(t), t[j + 1].kind = "Asterisk"
  PROVE  Part(t, i, j + 1, Pointer(e))
<1>1. i \in Nat \ {0} /\ j \in Nat /\ i <= j /\ e \in Spelt(t)[j + 1 - i][i]
  BY DEF Part
<1>2. PICK n \in Nat : n > 0 /\ i + n - 1 = j + 1 /\ n - 1 = j + 1 - i
  <2>1. j + 2 - i \in Nat
    BY <1>1
  <2> QED
    BY <1>1, <2>1
<1>3. Spells(t, Spelt(t), n, i, Pointer(e))
  BY <1>1, <1>2 DEF Spells, Pointed
<1> QED
  BY <1>1, <1>2, <1>3, PartIs

\* a type and a length in squares,
LEMMA PartMeasured ==
  ASSUME NEW t, Len(t) \in Nat, NEW i, NEW j, NEW e, Part(t, i, j, e),
         j + 3 <= Len(t), t[j + 1].kind = "LSquare", NEW len \in Lengths(t[j + 2]),
         t[j + 3].kind = "RSquare"
  PROVE  Part(t, i, j + 3, Array(e, len))
<1>1. i \in Nat \ {0} /\ j \in Nat /\ i <= j /\ e \in Spelt(t)[j + 1 - i][i]
  BY DEF Part
<1>2. PICK n \in Nat : /\ n > 3 /\ i + n - 1 = j + 3 /\ n - 3 = j + 1 - i
                       /\ i + n - 2 = j + 2 /\ i + n - 3 = j + 1
  <2>1. j + 4 - i \in Nat
    BY <1>1
  <2> QED
    BY <1>1, <2>1
<1>3. Measured(t, Spelt(t), n, i, Array(e, len))
  BY <1>1, <1>2 DEF Measured
<1>4. Spells(t, Spelt(t), n, i, Array(e, len))
  BY <1>3 DEF Spells
<1>5. n > 0
  BY <1>2
<1> QED
  BY <1>1, <1>2, <1>4, <1>5, PartIs

\* a type and another one in angles.
LEMMA PartArgued ==
  ASSUME NEW t, Len(t) \in Nat, NEW i, NEW j, NEW e, Part(t, i, j, e), t[j + 1].kind = "LAngle",
         NEW l, NEW arg, Part(t, j + 2, l, arg), l + 1 <= Len(t), t[l + 1].kind = "RAngle"
  PROVE  Part(t, i, l + 1, Template(e, arg))
<1>1. i \in Nat \ {0} /\ j \in Nat /\ i <= j /\ e \in Spelt(t)[j + 1 - i][i]
  BY DEF Part
<1>2. l \in Nat /\ j + 2 <= l /\ arg \in Spelt(t)[l + 1 - (j + 2)][j + 2]
  BY DEF Part
<1>3. PICK n \in Nat : n > 3 /\ i + n - 1 = l + 1 /\ n = l + 2 - i
  <2>1. l + 2 - i \in Nat /\ l + 2 - i > 3
    BY <1>1, <1>2
  <2> QED
    BY <1>1, <1>2, <2>1
<1>4. PICK k \in Nat : k = j + 1 - i /\ k >= 1 /\ i + k = j + 1
  <2>1. j + 1 - i \in Nat /\ j + 1 - i >= 1
    BY <1>1
  <2> QED
    BY <1>1, <2>1
<1>5. n - 2 - k = l + 1 - (j + 2) /\ i + k + 1 = j + 2 /\ k \in 1 .. n - 3
  BY <1>1, <1>2, <1>3, <1>4
<1>6. Argued(t, Spelt(t), n, i, Template(e, arg), k)
  BY <1>1, <1>2, <1>3, <1>4, <1>5 DEF Argued
<1>7. Spells(t, Spelt(t), n, i, Template(e, arg))
  BY <1>5, <1>6 DEF Spells
<1>8. n > 0
  BY <1>3
<1> QED
  BY <1>1, <1>3, <1>7, <1>8, PartIs

\* u begins with t.
Begins(t, u) == Len(t) <= Len(u) /\ \A k \in 1 .. Len(t) : u[k] = t[k]

\* A part is what it is in every longer name.
LEMMA PartKept ==
  ASSUME NEW t, NEW u, Len(t) \in Nat, Len(u) \in Nat, Begins(t, u),
         NEW i, NEW j, NEW x, Part(t, i, j, x)
  PROVE  Part(u, i, j, x)
<1>1. i \in Nat \ {0} /\ j \in Nat /\ i <= j /\ j <= Len(t) /\ x \in Spelt(t)[j + 1 - i][i]
  BY DEF Part
<1>2. PICK n \in Nat : n = j + 1 - i /\ i + n - 1 = j
  <2>1. j + 1 - i \in Nat
    BY <1>1
  <2> QED
    BY <1>1, <2>1
<1>3. Agree(t, u, n, i)
  <2>1. \A k \in i .. j : k \in 1 .. Len(t)
    BY <1>1
  <2>2. j <= Len(u)
    BY <1>1 DEF Begins
  <2> QED
    BY <1>1, <1>2, <2>1, <2>2 DEF Agree, Begins
<1>4. Kept(t, u, n, i)
  BY <1>1, <1>3, SpeltAgrees
<1> QED
  BY <1>1, <1>2, <1>4 DEF Part, Kept, Begins

\* The whole is a part.
LEMMA WholeIsType ==
  ASSUME NEW t, Len(t) \in Nat, NEW x
  PROVE  Part(t, 1, Len(t), x) => x \in Types(t)
<1>1. Len(t) + 1 - 1 = Len(t)
  OBVIOUS
<1> QED
  BY <1>1 DEF Part, Types

-----------------------------------------------------------------------------
(* A name of which a beginning was read: m types have been begun, each but   *)
(* the first in the angles of the one before it; the k-th begins at s[k] and *)
(* is b[k] as far as it was read.                                           *)

\* The k-th type ends before the angle that the next one begins after.
Begun(t, s, k, x) ==
  Part(t, s[k], s[k + 1] - 2, x) /\ s[k + 1] - 1 <= Len(t) /\ t[s[k + 1] - 1].kind = "LAngle"
\* The last one, as far as what is wanted tells.
Innermost(t, i, x, wants, operand) ==
  CASE wants = "Ident"   -> i = Len(t) + 1
    [] wants = "more"    -> Part(t, i, Len(t), x)
    [] wants = "length"  -> Part(t, i, Len(t) - 1, x) /\ t[Len(t)].kind = "LSquare"
    [] wants = "RSquare" -> /\ Part(t, i, Len(t) - 2, x) /\ t[Len(t) - 1].kind = "LSquare"
                            /\ operand \in Lengths(t[Len(t)])
    [] OTHER -> FALSE
\* Where each of them begins.
Split(t, s, m, b, wants, operand) ==
  /\ m \in Nat \ {0} /\ s[1] = 1 /\ \A k \in 1 .. m : s[k] \in Nat /\ k <= s[k] /\ s[k] <= Len(t) + 1
  /\ \A k \in 1 .. m - 1 : Begun(t, s, k, b[k])
  /\ Innermost(t, s[m], b[m], wants, operand)
\* There are such places, and the parser is where m types are begun.
Open(t, m, b, wants, operand) ==
  /\ \E s : Split(t, s, m, b, wants, operand)
  /\ \A st : Reading(st, t) => st[Len(t)] = At(m - 1, wants)

\* What completes a name is a sequence of tokens.
LEMMA CompletionTyped ==
  ASSUME NEW chars, NEW ending \in Endings, NEW angles \in Nat
  PROVE  /\ Completion(ending, angles) \in Seq(Tokens(chars)) /\ Len(ending) \in Nat
         /\ Len(Completion(ending, angles)) = Len(ending) + angles
         /\ \A k \in 1 .. Len(ending) + angles :
              Completion(ending, angles)[k].kind = IF k <= Len(ending) THEN ending[k] ELSE "RAngle"
<1> DEFINE n == Len(ending) + angles
           kind(k) == IF k <= Len(ending) THEN ending[k] ELSE "RAngle"
<1>1. Len(ending) \in Nat /\ \A k \in 1 .. Len(ending) : ending[k] \in TokenKinds
  BY DEF Endings, TokenKinds
<1>2. n \in Nat
  BY <1>1
<1>3. \A k \in 1 .. n : kind(k) \in TokenKinds
  BY <1>1 DEF TokenKinds
<1>4. <<>> \in Seq(chars)
  OBVIOUS
<1>5. \A k \in 1 .. n : Token(kind(k), <<>>) \in Tokens(chars) /\ Token(kind(k), <<>>).kind = kind(k)
  BY <1>3, <1>4 DEF Token, Tokens
<1> DEFINE c == [k \in 1 .. n |-> Token(kind(k), <<>>)]
<1>6. Completion(ending, angles) = c
  BY DEF Completion
<1> HIDE DEF kind
<1>7. c \in Seq(Tokens(chars)) /\ Len(c) = n
  BY <1>2, <1>5
<1>8. \A k \in 1 .. n : c[k].kind = kind(k)
  BY <1>5
<1> HIDE DEF c
<1> QED
  BY <1>1, <1>6, <1>7, <1>8 DEF kind

\* One token more.
LEMMA Appended ==
  ASSUME NEW S, NEW t \in Seq(S), NEW e \in S
  PROVE  /\ Append(t, e) \in Seq(S) /\ Len(t) \in Nat /\ Len(Append(t, e)) = Len(t) + 1
         /\ Append(t, e)[Len(t) + 1] = e /\ Begins(t, Append(t, e))
BY AppendProperties, LenProperties DEF Begins

\* Many tokens more.
LEMMA Joined ==
  ASSUME NEW S, NEW t \in Seq(S), NEW c \in Seq(S)
  PROVE  /\ t \o c \in Seq(S) /\ Len(t) \in Nat /\ Len(t \o c) = Len(t) + Len(c) /\ Begins(t, t \o c)
         /\ \A k \in 1 .. Len(c) : (t \o c)[Len(t) + k] = c[k]
BY ConcatProperties, LenProperties DEF Begins

\* A beginning can be completed to a type.
LEMMA OpenIsViable ==
  ASSUME NEW chars, NEW t \in Seq(Tokens(chars)), NEW m, NEW b, NEW wants, NEW operand,
         Open(t, m, b, wants, operand)
  PROVE  Viable(t)
<1>1. PICK s : Split(t, s, m, b, wants, operand)
  BY DEF Open
<1>2. m \in Nat \ {0} /\ s[1] = 1 /\ \A k \in 1 .. m : s[k] \in Nat /\ k <= s[k] /\ s[k] <= Len(t) + 1
  BY <1>1 DEF Split
<1>3. Len(t) \in Nat
  BY LenProperties
<1>4. m - 1 \in 0 .. Len(t) /\ m \in 1 .. m /\ m - 1 \in Nat
  <2>1. m \in 1 .. m
    BY <1>2
  <2>2. m <= Len(t) + 1
    <3>1. m <= s[m] /\ s[m] <= Len(t) + 1 /\ s[m] \in Nat
      BY <1>2, <2>1
    <3> QED
      BY <1>2, <1>3, <3>1
  <2> QED
    BY <1>2, <1>3, <2>1, <2>2
<1>5. ASSUME NEW ending \in Endings, NEW u, u = t \o Completion(ending, m - 1),
             NEW e, e = Len(t) + Len(ending), NEW y, Part(u, s[m], e, y)
      PROVE  Viable(t)
  <2> DEFINE c == Completion(ending, m - 1)
             l == Len(ending)
  <2>1. /\ c \in Seq(Tokens(chars)) /\ l \in Nat /\ Len(c) = l + (m - 1)
        /\ \A k \in 1 .. l + (m - 1) : c[k].kind = IF k <= l THEN ending[k] ELSE "RAngle"
    BY <1>4, CompletionTyped
  <2>2. Len(u) = Len(t) + Len(c) /\ Begins(t, u) /\ \A k \in 1 .. Len(c) : u[Len(t) + k] = c[k]
    BY <1>5, <2>1, Joined
  <2> HIDE DEF c, l
  <2>3. Len(u) \in Nat /\ Len(u) = e + (m - 1) /\ e \in Nat
    BY <1>2, <1>3, <1>5, <2>1, <2>2 DEF l
  <2>4. ASSUME NEW k \in 1 .. m - 1 PROVE u[e + k].kind = "RAngle"
    <3>1. l + k \in 1 .. l + (m - 1) /\ ~(l + k <= l)
      BY <1>2, <2>1
    <3>2. c[l + k].kind = "RAngle" /\ u[Len(t) + (l + k)] = c[l + k]
      BY <2>1, <2>2, <3>1
    <3>3. Len(t) + (l + k) = e + k
      BY <1>3, <1>5, <2>1 DEF l
    <3> QED
      BY <3>2, <3>3
  <2> DEFINE Q(j) == \E x : Part(u, s[m - j], e + j, x)
             G == {j \in Nat : j <= m - 1 => Q(j)}
  <2>5. 0 \in G
    <3>1. m - 0 = m /\ e + 0 = e
      BY <1>2, <2>3
    <3> QED
      BY <1>5, <3>1
  <2>6. ASSUME NEW j \in Nat, j \in G PROVE j + 1 \in G
    <3> SUFFICES ASSUME j + 1 <= m - 1 PROVE Q(j + 1)
      OBVIOUS
    <3>1. PICK x : Part(u, s[m - j], e + j, x)
      BY <1>2, <2>6
    <3>2. PICK k \in Nat : k = m - (j + 1) /\ k \in 1 .. m - 1 /\ k + 1 = m - j
      <4>1. m - (j + 1) \in Nat /\ m - (j + 1) \in 1 .. m - 1 /\ m - (j + 1) + 1 = m - j
        BY <1>2
      <4> QED
        BY <4>1
    <3>3. /\ Part(t, s[k], s[k + 1] - 2, b[k])
          /\ s[k + 1] - 1 <= Len(t) /\ t[s[k + 1] - 1].kind = "LAngle"
      BY <1>1, <3>2 DEF Split, Begun
    <3>4. PICK i \in Nat : i = s[k + 1] - 2 /\ s[k + 1] = i + 2 /\ s[k + 1] - 1 = i + 1
      <4>1. s[k + 1] - 2 \in Nat
        BY <3>3 DEF Part
      <4>2. k + 1 \in 1 .. m
        BY <1>2, <3>2
      <4>3. s[k + 1] \in Nat
        BY <1>2, <4>2
      <4> QED
        BY <4>1, <4>3
    <3>5. Part(u, s[k], i, b[k])
      BY <1>3, <2>2, <2>3, <3>3, <3>4, PartKept
    <3>6. u[i + 1].kind = "LAngle"
      <4>1. i + 1 \in 1 .. Len(t) /\ t[i + 1].kind = "LAngle"
        BY <1>3, <3>3, <3>4
      <4> QED
        BY <2>2, <4>1 DEF Begins
    <3>7. Part(u, i + 2, e + j, x)
      BY <3>1, <3>2, <3>4
    <3>8. (e + j) + 1 = e + (j + 1) /\ j + 1 \in 1 .. m - 1 /\ (e + j) + 1 <= Len(u)
      BY <1>2, <2>3
    <3>9. u[(e + j) + 1].kind = "RAngle"
      BY <2>4, <3>8
    <3>10. Part(u, s[k], (e + j) + 1, Template(b[k], x))
      BY <2>3, <3>5, <3>6, <3>7, <3>8, <3>9, PartArgued
    <3> QED
      BY <3>2, <3>8, <3>10
  <2>7. \A j \in Nat : j \in G
    <3> HIDE DEF G
    <3> QED
      BY <2>5, <2>6, NaturalInduction
  <2>8. Q(m - 1)
    BY <1>2, <1>4, <2>7
  <2>9. PICK x : Part(u, 1, Len(u), x)
    <3>1. m - (m - 1) = 1
      BY <1>2
    <3> QED
      BY <1>2, <2>3, <2>8, <3>1
  <2>10. IsType(u)
    BY <2>3, <2>9, WholeIsType DEF IsType
  <2> QED
    BY <1>4, <1>5, <2>10 DEF Viable
<1>6. Innermost(t, s[m], b[m], wants, operand)
  BY <1>1 DEF Split
<1>7. ASSUME NEW ending \in Endings, NEW u, u = t \o Completion(ending, m - 1)
      PROVE  /\ Len(u) \in Nat /\ Begins(t, u) /\ Len(t) + Len(ending) <= Len(u)
             /\ Len(t) + Len(ending) \in Nat
             /\ \A k \in 1 .. Len(ending) : u[Len(t) + k].kind = ending[k]
  <2>1. /\ Completion(ending, m - 1) \in Seq(Tokens(chars)) /\ Len(ending) \in Nat
        /\ Len(Completion(ending, m - 1)) = Len(ending) + (m - 1)
        /\ \A k \in 1 .. Len(ending) + (m - 1) :
             Completion(ending, m - 1)[k].kind = IF k <= Len(ending) THEN ending[k] ELSE "RAngle"
    BY <1>4, CompletionTyped
  <2>2. /\ Len(u) = Len(t) + Len(Completion(ending, m - 1)) /\ Begins(t, u)
        /\ \A k \in 1 .. Len(Completion(ending, m - 1)) : u[Len(t) + k] = Completion(ending, m - 1)[k]
    BY <1>7, <2>1, Joined
  <2>3. \A k \in 1 .. Len(ending) : k \in 1 .. Len(ending) + (m - 1)
    BY <1>4, <2>1
  <2>4. Len(u) \in Nat /\ Len(t) + Len(ending) <= Len(u) /\ Len(t) + Len(ending) \in Nat
    BY <1>3, <1>4, <2>1, <2>2
  <2> QED
    BY <2>1, <2>2, <2>3, <2>4
<1>8. CASE wants = "more"
  <2> DEFINE u == t \o Completion(<<>>, m - 1)
  <2>1. <<>> \in Endings /\ Len(t) + Len(<<>>) = Len(t)
    BY <1>3 DEF Endings
  <2>2. Part(t, s[m], Len(t), b[m])
    BY <1>6, <1>8 DEF Innermost
  <2>3. Len(u) \in Nat /\ Begins(t, u)
    BY <1>7, <2>1
  <2> HIDE DEF u
  <2>4. Part(u, s[m], Len(t), b[m])
    BY <1>3, <2>2, <2>3, PartKept
  <2> QED
    BY <1>5, <2>1, <2>4 DEF u
<1>9. CASE wants = "Ident"
  <2> DEFINE a == <<"Ident">>
             u == t \o Completion(a, m - 1)
  <2>1. a \in Endings /\ Len(a) = 1 /\ a[1] = "Ident" /\ 1 \in 1 .. Len(a)
    BY DEF Endings
  <2> HIDE DEF a
  <2>2. Len(u) \in Nat /\ Len(t) + 1 <= Len(u) /\ u[Len(t) + 1].kind = "Ident"
    BY <1>7, <2>1
  <2>3. s[m] = Len(t) + 1 /\ s[m] \in Nat \ {0}
    BY <1>3, <1>6, <1>9 DEF Innermost
  <2> HIDE DEF u
  <2>4. Part(u, s[m], Len(t) + 1, Ident(u[Len(t) + 1].text))
    BY <2>2, <2>3, PartNamed
  <2> QED
    BY <1>5, <2>1, <2>4 DEF u
<1>10. CASE wants = "length"
  <2> DEFINE a == <<"Ident", "RSquare">>
             u == t \o Completion(a, m - 1)
             i == Len(t) - 1
  <2>1. /\ a \in Endings /\ Len(a) = 2 /\ a[1] = "Ident" /\ a[2] = "RSquare"
        /\ 1 \in 1 .. Len(a) /\ 2 \in 1 .. Len(a)
    BY DEF Endings
  <2> HIDE DEF a
  <2>2. /\ Len(u) \in Nat /\ Len(t) + 2 <= Len(u) /\ u[Len(t) + 1].kind = "Ident"
        /\ u[Len(t) + 2].kind = "RSquare" /\ Begins(t, u)
    BY <1>7, <2>1
  <2>3. Part(t, s[m], i, b[m]) /\ t[Len(t)].kind = "LSquare"
    BY <1>6, <1>10 DEF Innermost
  <2> HIDE DEF u
  <2>4. Part(u, s[m], i, b[m])
    BY <1>3, <2>2, <2>3, PartKept
  <2>5. i \in Nat /\ i + 1 = Len(t) /\ i + 2 = Len(t) + 1 /\ i + 3 = Len(t) + 2 /\ Len(t) \in 1 .. Len(t)
    BY <1>3, <2>3 DEF Part
  <2>6. u[i + 1].kind = "LSquare"
    BY <2>2, <2>3, <2>5 DEF Begins
  <2>7. Ident(u[i + 2].text) \in Lengths(u[i + 2])
    BY <2>2, <2>5 DEF Lengths
  <2>8. i + 3 <= Len(u) /\ u[i + 3].kind = "RSquare"
    BY <2>2, <2>5
  <2> HIDE DEF i
  <2>9. Part(u, s[m], i + 3, Array(b[m], Ident(u[i + 2].text)))
    BY <2>2, <2>4, <2>6, <2>7, <2>8, PartMeasured
  <2>10. i + 3 = Len(t) + Len(a)
    BY <2>1, <2>5
  <2> QED
    BY <1>5, <2>1, <2>9, <2>10 DEF u
<1>11. CASE wants = "RSquare"
  <2> DEFINE a == <<"RSquare">>
             u == t \o Completion(a, m - 1)
             i == Len(t) - 2
  <2>1. a \in Endings /\ Len(a) = 1 /\ a[1] = "RSquare" /\ 1 \in 1 .. Len(a)
    BY DEF Endings
  <2> HIDE DEF a
  <2>2. Len(u) \in Nat /\ Len(t) + 1 <= Len(u) /\ u[Len(t) + 1].kind = "RSquare" /\ Begins(t, u)
    BY <1>7, <2>1
  <2>3. Part(t, s[m], i, b[m]) /\ t[Len(t) - 1].kind = "LSquare" /\ operand \in Lengths(t[Len(t)])
    BY <1>6, <1>11 DEF Innermost
  <2> HIDE DEF u
  <2>4. Part(u, s[m], i, b[m])
    BY <1>3, <2>2, <2>3, PartKept
  <2>5. /\ i \in Nat /\ i + 1 = Len(t) - 1 /\ i + 2 = Len(t) /\ i + 3 = Len(t) + 1
        /\ Len(t) \in 1 .. Len(t) /\ Len(t) - 1 \in 1 .. Len(t)
    BY <1>3, <2>3 DEF Part
  <2>6. u[i + 1].kind = "LSquare" /\ operand \in Lengths(u[i + 2])
    BY <2>2, <2>3, <2>5 DEF Begins
  <2>7. i + 3 <= Len(u) /\ u[i + 3].kind = "RSquare"
    BY <2>2, <2>5
  <2> HIDE DEF i
  <2>8. Part(u, s[m], i + 3, Array(b[m], operand))
    BY <2>2, <2>4, <2>6, <2>7, PartMeasured
  <2>9. i + 3 = Len(t) + Len(a)
    BY <2>1, <2>5
  <2> QED
    BY <1>5, <2>1, <2>8, <2>9 DEF u
<1> QED
  BY <1>6, <1>8, <1>9, <1>10, <1>11 DEF Innermost

\* If a token cannot follow, no name that begins with it is a type.
LEMMA WrongForGood ==
  ASSUME NEW S, NEW t \in Seq(S), NEW m \in Nat \ {0}, NEW wants, NEW token \in S,
         \A st : Reading(st, t) => st[Len(t)] = At(m - 1, wants),
         After(At(m - 1, wants), token) = Nowhere, NEW ext \in Seq(S)
  PROVE  ~IsType(Append(t, token) \o ext)
<1> DEFINE v == Append(t, token)
           u == v \o ext
           l == Len(t)
<1>1. v \in Seq(S) /\ l \in Nat /\ Len(v) = l + 1 /\ v[l + 1] = token /\ Begins(t, v)
  BY Appended
<1> HIDE DEF v
<1>2. u \in Seq(S) /\ Len(u) = Len(v) + Len(ext) /\ Begins(v, u) /\ Len(ext) \in Nat
  BY <1>1, Joined, LenProperties
<1>3. PICK st : Reading(st, u)
  BY <1>2, ReadingExists
<1> HIDE DEF u
<1>4. Len(u) \in Nat /\ l + 1 <= Len(u) /\ u[l + 1] = token /\ \A k \in 1 .. l : u[k] = t[k]
  BY <1>1, <1>2 DEF Begins
<1>5. Reading(st, t)
  BY <1>1, <1>3, <1>4 DEF Reading
<1>6. st[l] = At(m - 1, wants)
  BY <1>5
<1>7. st[l + 1] = Nowhere
  <2>1. l + 1 \in 1 .. Len(u) /\ (l + 1) - 1 = l
    BY <1>1, <1>4
  <2> QED
    BY <1>3, <1>4, <1>6, <2>1 DEF Reading
<1> DEFINE G == {j \in Nat : l + 1 + j <= Len(u) => st[l + 1 + j] = Nowhere}
<1>8. 0 \in G
  BY <1>1, <1>7
<1>9. ASSUME NEW j \in Nat, j \in G PROVE j + 1 \in G
  <2> SUFFICES ASSUME l + 1 + (j + 1) <= Len(u) PROVE st[l + 1 + (j + 1)] = Nowhere
    OBVIOUS
  <2>1. PICK k \in Nat : k = l + 1 + j /\ k + 1 = l + 1 + (j + 1)
    BY <1>1
  <2>2. k + 1 \in 1 .. Len(u) /\ (k + 1) - 1 = k /\ k <= Len(u)
    BY <1>4, <2>1
  <2>3. st[k] = Nowhere
    BY <1>9, <2>1, <2>2
  <2>4. st[k + 1] = After(st[k], u[k + 1])
    BY <1>3, <2>2 DEF Reading
  <2>5. After(Nowhere, u[k + 1]) = Nowhere
    BY AfterRefuses
  <2> QED
    BY <2>1, <2>3, <2>4, <2>5
<1>10. \A j \in Nat : j \in G
  <2> HIDE DEF G
  <2> QED
    BY <1>8, <1>9, NaturalInduction
<1>11. st[Len(u)] = Nowhere
  <2>1. PICK j \in Nat : l + 1 + j = Len(u)
    <3>1. Len(u) - (l + 1) \in Nat /\ l + 1 + (Len(u) - (l + 1)) = Len(u)
      BY <1>1, <1>4
    <3> QED
      BY <3>1
  <2>2. l + 1 + j <= Len(u)
    BY <1>4, <2>1
  <2> QED
    BY <1>10, <2>1, <2>2
<1>12. ASSUME IsType(u) PROVE FALSE
  <2>1. Spelt(u)[Len(u)][1] # {}
    BY <1>12 DEF IsType, Types
  <2>2. st[1 - 1] = At(0, "Ident") /\ 1 + Len(u) - 1 = Len(u)
    BY <1>3, <1>4 DEF Reading
  <2>3. st[Len(u)] = At(0, "more")
    BY <1>3, <1>4, <2>1, <2>2, SpeltIsRead
  <2> QED
    BY <1>11, <2>3 DEF At, Nowhere
<1> QED
  BY <1>12 DEF u, v

\* A type leaves nothing open.
LEMMA OpenIsNoType ==
  ASSUME NEW S, NEW t \in Seq(S), NEW d, NEW wants,
         \A st : Reading(st, t) => st[Len(t)] = At(d, wants), IsType(t)
  PROVE  d = 0 /\ wants = "more"
<1>1. Len(t) \in Nat
  BY LenProperties
<1>2. PICK st : Reading(st, t)
  BY ReadingExists
<1>3. Spelt(t)[Len(t)][1] # {}
  BY DEF IsType, Types
<1>4. st[1 - 1] = At(0, "Ident") /\ 1 + Len(t) - 1 = Len(t)
  BY <1>1, <1>2 DEF Reading
<1>5. st[Len(t)] = At(0, "more")
  BY <1>1, <1>2, <1>3, <1>4, SpeltIsRead
<1> QED
  BY <1>2, <1>5 DEF At

\* The next token is read where all before it have led.
LEMMA ReadsOn ==
  ASSUME NEW S, NEW t \in Seq(S), NEW token \in S, NEW p,
         \A st : Reading(st, t) => st[Len(t)] = p
  PROVE  \A st : Reading(st, Append(t, token)) => st[Len(t) + 1] = After(p, token)
<1> DEFINE u == Append(t, token)
<1>1. Len(t) \in Nat /\ Len(u) = Len(t) + 1 /\ u[Len(t) + 1] = token /\ \A k \in 1 .. Len(t) : u[k] = t[k]
  BY Appended DEF Begins
<1> HIDE DEF u
<1>2. ASSUME NEW st, Reading(st, u) PROVE st[Len(t) + 1] = After(p, token)
  <2>1. Reading(st, t)
    BY <1>1, <1>2 DEF Reading
  <2>2. Len(t) + 1 \in 1 .. Len(u) /\ (Len(t) + 1) - 1 = Len(t)
    BY <1>1
  <2> QED
    BY <1>1, <1>2, <2>1, <2>2 DEF Reading
<1> QED
  BY <1>2 DEF u

\* What was begun stays so when a token follows.
LEMMA SplitOn ==
  ASSUME NEW S, NEW t \in Seq(S), NEW token \in S, NEW s, NEW m, NEW b, NEW wants, NEW operand,
         Split(t, s, m, b, wants, operand), NEW c, \A k \in 1 .. m - 1 : c[k] = b[k],
         NEW w, NEW o, Innermost(Append(t, token), s[m], c[m], w, o)
  PROVE  Split(Append(t, token), s, m, c, w, o)
<1> DEFINE u == Append(t, token)
<1>1. Len(t) \in Nat /\ Len(u) = Len(t) + 1 /\ Begins(t, u)
  BY Appended
<1> HIDE DEF u
<1>2. ASSUME NEW k \in 1 .. m - 1 PROVE Begun(u, s, k, c[k])
  <2>1. Begun(t, s, k, b[k]) /\ c[k] = b[k]
    BY <1>2 DEF Split
  <2>2. Part(u, s[k], s[k + 1] - 2, b[k])
    BY <1>1, <2>1, PartKept DEF Begun
  <2>3. k + 1 \in 1 .. m /\ m \in Nat
    BY DEF Split
  <2>4. s[k + 1] \in Nat /\ k + 1 <= s[k + 1]
    BY <2>3 DEF Split
  <2>5. s[k + 1] - 1 \in 1 .. Len(t)
    BY <1>1, <2>1, <2>3, <2>4 DEF Begun
  <2>6. s[k + 1] - 1 <= Len(u) /\ u[s[k + 1] - 1] = t[s[k + 1] - 1]
    BY <1>1, <2>5 DEF Begins
  <2> QED
    BY <2>1, <2>2, <2>6 DEF Begun
<1>3. \A k \in 1 .. m : s[k] \in Nat /\ k <= s[k] /\ s[k] <= Len(u) + 1
  <2>1. ASSUME NEW k \in 1 .. m PROVE s[k] \in Nat /\ k <= s[k] /\ s[k] <= Len(u) + 1
    <3>1. s[k] \in Nat /\ k <= s[k] /\ s[k] <= Len(t) + 1
      BY DEF Split
    <3> QED
      BY <1>1, <3>1
  <2> QED
    BY <2>1
<1> QED
  BY <1>2, <1>3 DEF Split, u

\* The innermost type is continued.
LEMMA OpenOn ==
  ASSUME NEW S, NEW t \in Seq(S), NEW token \in S, NEW m, NEW b, NEW wants, NEW operand,
         Open(t, m, b, wants, operand), NEW c, \A k \in 1 .. m - 1 : c[k] = b[k],
         NEW w, NEW o, After(At(m - 1, wants), token) = At(m - 1, w),
         \A i : Innermost(t, i, b[m], wants, operand) /\ i \in Nat \ {0}
                  => Innermost(Append(t, token), i, c[m], w, o)
  PROVE  Open(Append(t, token), m, c, w, o)
<1>1. PICK s : Split(t, s, m, b, wants, operand)
  BY DEF Open
<1>2. Innermost(t, s[m], b[m], wants, operand) /\ s[m] \in Nat \ {0}
  <2>1. m \in 1 .. m
    BY <1>1 DEF Split
  <2>2. s[m] \in Nat /\ m <= s[m] /\ m \in Nat \ {0}
    BY <1>1, <2>1 DEF Split
  <2> QED
    BY <1>1, <2>2 DEF Split
<1>3. Split(Append(t, token), s, m, c, w, o)
  BY <1>1, <1>2, SplitOn
<1>4. \A st : Reading(st, t) => st[Len(t)] = At(m - 1, wants)
  BY DEF Open
<1>5. \A st : Reading(st, Append(t, token)) => st[Len(t) + 1] = At(m - 1, w)
  BY <1>4, ReadsOn
<1>6. Len(Append(t, token)) = Len(t) + 1
  BY Appended
<1> QED
  BY <1>3, <1>5, <1>6 DEF Open

\* At least one type is begun.
LEMMA OpenTyped ==
  ASSUME NEW t, NEW m, NEW b, NEW wants, NEW operand, Open(t, m, b, wants, operand)
  PROVE  m \in Nat \ {0} /\ m - 1 \in Nat
BY DEF Open, Split

\* One token more, by what is wanted.
LEMMA OpenNamed ==
  ASSUME NEW S, NEW t \in Seq(S), NEW token \in S, NEW m, NEW b, NEW operand,
         Open(t, m, b, "Ident", operand), token.kind = "Ident",
         NEW c, \A k \in 1 .. m - 1 : c[k] = b[k], c[m] = Ident(token.text), NEW o
  PROVE  Open(Append(t, token), m, c, "more", o)
<1> DEFINE u == Append(t, token)
<1>1. Len(t) \in Nat /\ Len(u) = Len(t) + 1 /\ u[Len(t) + 1] = token
  BY Appended
<1> HIDE DEF u
<1>2. ASSUME NEW i, Innermost(t, i, b[m], "Ident", operand) PROVE Innermost(u, i, c[m], "more", o)
  <2>1. i = Len(t) + 1 /\ i \in Nat \ {0} /\ i = Len(u)
    BY <1>1, <1>2 DEF Innermost
  <2>2. Part(u, i, i, Ident(u[i].text))
    BY <1>1, <2>1, PartNamed
  <2> QED
    BY <1>1, <2>1, <2>2 DEF Innermost
<1>3. After(At(m - 1, "Ident"), token) = At(m - 1, "more")
  BY AfterIs, OpenTyped
<1> QED
  BY <1>2, <1>3, OpenOn DEF u

\* An asterisk: it is a pointer.
LEMMA OpenPointed ==
  ASSUME NEW S, NEW t \in Seq(S), NEW token \in S, NEW m, NEW b, NEW operand,
         Open(t, m, b, "more", operand), token.kind = "Asterisk",
         NEW c, \A k \in 1 .. m - 1 : c[k] = b[k], c[m] = Pointer(b[m]), NEW o
  PROVE  Open(Append(t, token), m, c, "more", o)
<1> DEFINE u == Append(t, token)
<1>1. Len(t) \in Nat /\ Len(u) = Len(t) + 1 /\ u[Len(t) + 1] = token /\ Begins(t, u)
  BY Appended
<1> HIDE DEF u
<1>2. ASSUME NEW i, Innermost(t, i, b[m], "more", operand) PROVE Innermost(u, i, c[m], "more", o)
  <2>1. Part(t, i, Len(t), b[m]) /\ Len(u) \in Nat /\ Len(t) + 1 <= Len(u)
    BY <1>1, <1>2 DEF Innermost
  <2>2. Part(u, i, Len(t), b[m])
    BY <1>1, <2>1, PartKept
  <2>3. Part(u, i, Len(t) + 1, Pointer(b[m]))
    BY <1>1, <2>1, <2>2, PartPointed
  <2> QED
    BY <1>1, <2>3 DEF Innermost
<1>3. After(At(m - 1, "more"), token) = At(m - 1, "more")
  BY AfterIs, OpenTyped
<1> QED
  BY <1>2, <1>3, OpenOn DEF u

\* A square opens.
LEMMA OpenSquared ==
  ASSUME NEW S, NEW t \in Seq(S), NEW token \in S, NEW m, NEW b, NEW operand,
         Open(t, m, b, "more", operand), token.kind = "LSquare",
         NEW c, \A k \in 1 .. m : c[k] = b[k], NEW o
  PROVE  Open(Append(t, token), m, c, "length", o)
<1> DEFINE u == Append(t, token)
<1>1. Len(t) \in Nat /\ Len(u) = Len(t) + 1 /\ u[Len(t) + 1] = token /\ Begins(t, u)
  BY Appended
<1>4. m \in 1 .. m /\ \A k \in 1 .. m - 1 : k \in 1 .. m
  BY OpenTyped
<1> HIDE DEF u
<1>2. ASSUME NEW i, Innermost(t, i, b[m], "more", operand) PROVE Innermost(u, i, c[m], "length", o)
  <2>1. Part(t, i, Len(t), b[m]) /\ Len(u) \in Nat /\ Len(u) - 1 = Len(t)
    BY <1>1, <1>2 DEF Innermost
  <2>2. Part(u, i, Len(t), b[m])
    BY <1>1, <2>1, PartKept
  <2> QED
    BY <1>1, <1>4, <2>1, <2>2 DEF Innermost
<1>3. After(At(m - 1, "more"), token) = At(m - 1, "length")
  BY AfterIs, OpenTyped
<1> QED
  BY <1>2, <1>3, <1>4, OpenOn DEF u

\* The length is named.
LEMMA OpenLength ==
  ASSUME NEW S, NEW t \in Seq(S), NEW token \in S, NEW m, NEW b, NEW operand,
         Open(t, m, b, "length", operand), NEW o \in Lengths(token),
         NEW c, \A k \in 1 .. m : c[k] = b[k]
  PROVE  Open(Append(t, token), m, c, "RSquare", o)
<1> DEFINE u == Append(t, token)
<1>1. Len(t) \in Nat /\ Len(u) = Len(t) + 1 /\ u[Len(t) + 1] = token /\ Begins(t, u)
  BY Appended
<1>4. m \in 1 .. m /\ \A k \in 1 .. m - 1 : k \in 1 .. m
  BY OpenTyped
<1> HIDE DEF u
<1>2. ASSUME NEW i, Innermost(t, i, b[m], "length", operand) PROVE Innermost(u, i, c[m], "RSquare", o)
  <2>1. /\ Part(t, i, Len(t) - 1, b[m]) /\ Len(u) \in Nat /\ Len(u) - 2 = Len(t) - 1
        /\ Len(u) - 1 = Len(t) /\ t[Len(t)].kind = "LSquare"
    BY <1>1, <1>2 DEF Innermost
  <2>2. Part(u, i, Len(t) - 1, b[m])
    BY <1>1, <2>1, PartKept
  <2>3. Len(t) \in 1 .. Len(t)
    BY <1>1, <2>1 DEF Part
  <2>4. u[Len(u) - 1].kind = "LSquare"
    BY <1>1, <2>1, <2>3 DEF Begins
  <2> QED
    BY <1>1, <1>4, <2>1, <2>2, <2>4 DEF Innermost
<1>3. After(At(m - 1, "length"), token) = At(m - 1, "RSquare")
  BY AfterIs, OpenTyped
<1> QED
  BY <1>2, <1>3, <1>4, OpenOn DEF u

\* The square is closed: it is an array.
LEMMA OpenMeasured ==
  ASSUME NEW S, NEW t \in Seq(S), NEW token \in S, NEW m, NEW b, NEW operand,
         Open(t, m, b, "RSquare", operand), token.kind = "RSquare",
         NEW c, \A k \in 1 .. m - 1 : c[k] = b[k], c[m] = Array(b[m], operand), NEW o
  PROVE  Open(Append(t, token), m, c, "more", o)
<1> DEFINE u == Append(t, token)
<1>1. Len(t) \in Nat /\ Len(u) = Len(t) + 1 /\ u[Len(t) + 1] = token /\ Begins(t, u)
  BY Appended
<1> HIDE DEF u
<1>2. ASSUME NEW i, Innermost(t, i, b[m], "RSquare", operand) PROVE Innermost(u, i, c[m], "more", o)
  <2>1. /\ Part(t, i, Len(t) - 2, b[m]) /\ t[Len(t) - 1].kind = "LSquare" /\ operand \in Lengths(t[Len(t)])
    BY <1>2 DEF Innermost
  <2>2. PICK j \in Nat : /\ j = Len(t) - 2 /\ j + 1 = Len(t) - 1 /\ j + 2 = Len(t) /\ j + 3 = Len(u)
                         /\ j + 1 \in 1 .. Len(t) /\ j + 2 \in 1 .. Len(t)
    <3>1. Len(t) - 2 \in Nat
      BY <2>1 DEF Part
    <3>2. /\ Len(t) - 2 + 1 = Len(t) - 1 /\ Len(t) - 2 + 2 = Len(t) /\ Len(t) - 2 + 3 = Len(u)
          /\ Len(t) - 1 \in 1 .. Len(t) /\ Len(t) \in 1 .. Len(t)
      BY <1>1, <3>1
    <3> QED
      BY <3>1, <3>2
  <2>3. Part(u, i, j, b[m])
    <3>1. Part(t, i, j, b[m]) /\ Len(u) \in Nat
      BY <1>1, <2>1, <2>2
    <3> QED
      BY <1>1, <3>1, PartKept
  <2>4. u[j + 1].kind = "LSquare" /\ operand \in Lengths(u[j + 2]) /\ u[j + 3] = token
    BY <1>1, <2>1, <2>2 DEF Begins
  <2>5. Len(u) \in Nat /\ j + 3 <= Len(u)
    BY <1>1, <2>2
  <2>6. Part(u, i, j + 3, Array(b[m], operand))
    BY <2>3, <2>4, <2>5, PartMeasured
  <2> QED
    BY <2>2, <2>6 DEF Innermost
<1>3. After(At(m - 1, "RSquare"), token) = At(m - 1, "more")
  BY AfterIs, OpenTyped
<1> QED
  BY <1>2, <1>3, OpenOn DEF u

\* An angle begins a type inside of it.
LEMMA OpenAngled ==
  ASSUME NEW S, NEW t \in Seq(S), NEW token \in S, NEW m, NEW b, NEW operand,
         Open(t, m, b, "more", operand), token.kind = "LAngle",
         NEW c, \A k \in 1 .. m : c[k] = b[k], NEW o
  PROVE  Open(Append(t, token), m + 1, c, "Ident", o)
<1> DEFINE u == Append(t, token)
           l == Len(t)
<1>1. l \in Nat /\ Len(u) = l + 1 /\ u[l + 1] = token /\ Begins(t, u)
  BY Appended
<1>2. m \in Nat \ {0} /\ m - 1 \in Nat
  BY OpenTyped
<1>3. PICK s : Split(t, s, m, b, "more", operand)
  BY DEF Open
<1>4. /\ s[1] = 1 /\ Part(t, s[m], l, b[m])
      /\ \A k \in 1 .. m : s[k] \in Nat /\ k <= s[k] /\ s[k] <= l + 1
  BY <1>3 DEF Split, Innermost
<1> DEFINE r == [k \in 1 .. m + 1 |-> IF k = m + 1 THEN l + 2 ELSE s[k]]
<1>5. r[m + 1] = l + 2 /\ \A k \in 1 .. m : r[k] = s[k]
  BY <1>2
<1> HIDE DEF r, u
<1>6. m \in 1 .. m /\ 1 \in 1 .. m
  BY <1>2
<1>7. m <= l
  BY <1>1, <1>2, <1>4, <1>6 DEF Part
<1>8. ASSUME NEW k \in 1 .. m + 1 PROVE r[k] \in Nat /\ k <= r[k] /\ r[k] <= Len(u) + 1
  <2>1. CASE k = m + 1
    BY <1>1, <1>2, <1>5, <1>7, <2>1
  <2>2. CASE k # m + 1
    <3>1. k \in 1 .. m
      BY <1>2, <2>2
    <3> QED
      BY <1>1, <1>4, <1>5, <3>1
  <2> QED
    BY <2>1, <2>2
<1>9. ASSUME NEW k \in 1 .. m PROVE Begun(u, r, k, c[k])
  <2>1. CASE k = m
    <3>1. r[k] = s[m] /\ r[k + 1] - 2 = l /\ r[k + 1] - 1 = l + 1 /\ c[k] = b[m]
      BY <1>1, <1>5, <1>6, <2>1
    <3>2. Part(u, s[m], l, b[m])
      BY <1>1, <1>4, PartKept
    <3> QED
      BY <1>1, <3>1, <3>2 DEF Begun
  <2>2. CASE k # m
    <3>1. k \in 1 .. m - 1 /\ k + 1 \in 1 .. m
      BY <1>2, <2>2
    <3>2. Begun(t, s, k, b[k])
      BY <1>3, <3>1 DEF Split
    <3>3. r[k] = s[k] /\ r[k + 1] = s[k + 1] /\ c[k] = b[k]
      BY <1>5, <3>1
    <3>4. Part(u, s[k], s[k + 1] - 2, b[k])
      BY <1>1, <3>2, PartKept DEF Begun
    <3>5. s[k + 1] - 1 \in 1 .. l
      <4>1. s[k + 1] \in Nat /\ k + 1 <= s[k + 1] /\ s[k + 1] - 1 <= l
        BY <1>4, <3>1, <3>2 DEF Begun
      <4> QED
        BY <1>1, <4>1
    <3>6. u[s[k + 1] - 1] = t[s[k + 1] - 1] /\ s[k + 1] - 1 <= Len(u)
      BY <1>1, <3>5 DEF Begins
    <3> QED
      BY <3>2, <3>3, <3>4, <3>6 DEF Begun
  <2> QED
    BY <2>1, <2>2
<1>10. Innermost(u, r[m + 1], c[m + 1], "Ident", o)
  BY <1>1, <1>5 DEF Innermost
<1>11. m + 1 \in Nat \ {0} /\ (m + 1) - 1 = m /\ r[1] = 1
  BY <1>2, <1>4, <1>5, <1>6
<1>12. Split(u, r, m + 1, c, "Ident", o)
  BY <1>8, <1>9, <1>10, <1>11 DEF Split
<1>13. \A st : Reading(st, u) => st[l + 1] = After(At(m - 1, "more"), token)
  <2>1. \A st : Reading(st, t) => st[Len(t)] = At(m - 1, "more")
    BY DEF Open
  <2> QED
    BY <2>1, ReadsOn DEF u
<1>14. After(At(m - 1, "more"), token) = At(m, "Ident")
  <2>1. (m - 1) + 1 = m
    BY <1>2
  <2> QED
    BY <1>2, <2>1, AfterIs
<1> QED
  BY <1>1, <1>11, <1>12, <1>13, <1>14 DEF Open, u

\* Another one ends it.
LEMMA OpenArgued ==
  ASSUME NEW S, NEW t \in Seq(S), NEW token \in S, NEW n \in Nat \ {0}, NEW b, NEW operand,
         Open(t, n + 1, b, "more", operand), token.kind = "RAngle",
         NEW c, \A k \in 1 .. n - 1 : c[k] = b[k], c[n] = Template(b[n], b[n + 1]), NEW o
  PROVE  Open(Append(t, token), n, c, "more", o)
<1> DEFINE u == Append(t, token)
           l == Len(t)
<1>1. l \in Nat /\ Len(u) = l + 1 /\ u[l + 1] = token /\ Begins(t, u)
  BY Appended
<1> HIDE DEF u
<1>2. PICK s : Split(t, s, n + 1, b, "more", operand)
  BY DEF Open
<1>3. (n + 1) - 1 = n /\ n \in 1 .. n /\ n \in 1 .. n + 1 /\ n + 1 \in 1 .. n + 1
  OBVIOUS
<1>4. /\ s[1] = 1 /\ Part(t, s[n + 1], l, b[n + 1]) /\ Begun(t, s, n, b[n])
      /\ \A k \in 1 .. n + 1 : s[k] \in Nat /\ k <= s[k] /\ s[k] <= l + 1
      /\ \A k \in 1 .. n : Begun(t, s, k, b[k])
  BY <1>2, <1>3 DEF Split, Innermost
<1>5. Innermost(u, s[n], c[n], "more", o)
  <2>1. PICK j \in Nat : j = s[n + 1] - 2 /\ j + 1 = s[n + 1] - 1 /\ j + 2 = s[n + 1]
    <3>1. s[n + 1] - 2 \in Nat /\ s[n + 1] \in Nat
      BY <1>3, <1>4 DEF Begun, Part
    <3> QED
      BY <3>1
  <2>2. Part(t, s[n], j, b[n]) /\ j + 1 <= l /\ t[j + 1].kind = "LAngle" /\ Part(t, j + 2, l, b[n + 1])
    BY <1>4, <2>1 DEF Begun
  <2>3. Part(u, s[n], j, b[n]) /\ Part(u, j + 2, l, b[n + 1])
    BY <1>1, <2>2, PartKept
  <2>4. u[j + 1].kind = "LAngle"
    <3>1. j + 1 \in 1 .. l
      BY <1>1, <2>2
    <3> QED
      BY <1>1, <2>2, <3>1 DEF Begins
  <2>5. Part(u, s[n], l + 1, Template(b[n], b[n + 1]))
    <3>1. Len(u) \in Nat /\ l + 1 <= Len(u) /\ u[l + 1].kind = "RAngle"
      BY <1>1
    <3> QED
      BY <2>3, <2>4, <3>1, PartArgued
  <2> QED
    BY <1>1, <2>5 DEF Innermost
<1>7. ASSUME NEW k \in 1 .. n - 1 PROVE Begun(u, s, k, c[k])
  <2>1. k \in 1 .. n /\ k + 1 \in 1 .. n + 1
    OBVIOUS
  <2>2. Begun(t, s, k, b[k]) /\ s[k + 1] \in Nat /\ k + 1 <= s[k + 1] /\ c[k] = b[k]
    BY <1>4, <2>1
  <2>3. Part(u, s[k], s[k + 1] - 2, b[k])
    BY <1>1, <2>2, PartKept DEF Begun
  <2>4. s[k + 1] - 1 \in 1 .. l
    BY <1>1, <2>2 DEF Begun
  <2>5. u[s[k + 1] - 1] = t[s[k + 1] - 1] /\ s[k + 1] - 1 <= Len(u)
    BY <1>1, <2>4 DEF Begins
  <2> QED
    BY <2>2, <2>3, <2>5 DEF Begun
<1>8. ASSUME NEW k \in 1 .. n PROVE s[k] \in Nat /\ k <= s[k] /\ s[k] <= Len(u) + 1
  <2>1. k \in 1 .. n + 1
    OBVIOUS
  <2> QED
    BY <1>1, <1>4, <2>1
<1>9. Split(u, s, n, c, "more", o)
  BY <1>4, <1>5, <1>7, <1>8 DEF Split
<1>10. \A st : Reading(st, u) => st[l + 1] = After(At(n, "more"), token)
  <2>1. \A st : Reading(st, t) => st[Len(t)] = At(n, "more")
    BY <1>3 DEF Open
  <2> QED
    BY <2>1, ReadsOn DEF u
<1>11. After(At(n, "more"), token) = At(n - 1, "more")
  <2>1. n - 1 \in Nat /\ (n - 1) + 1 = n
    OBVIOUS
  <2> QED
    BY <2>1, AfterIs
<1> QED
  BY <1>1, <1>9, <1>10, <1>11 DEF Open, u

\* Nothing was read.
LEMMA OpenNothing ==
  ASSUME NEW b, NEW operand
  PROVE  Open(<<>>, 1, b, "Ident", operand)
<1> DEFINE s == [k \in 1 .. 1 |-> 1]
<1>1. Split(<<>>, s, 1, b, "Ident", operand)
  BY DEF Split, Innermost
<1> QED
  BY <1>1 DEF Open, Reading, At

\* A name that leaves nothing open is a type.
LEMMA OpenIsType ==
  ASSUME NEW S, NEW t \in Seq(S), NEW b, NEW operand, Open(t, 1, b, "more", operand)
  PROVE  b[1] \in Types(t)
<1>1. PICK s : Split(t, s, 1, b, "more", operand)
  BY DEF Open
<1>2. Part(t, 1, Len(t), b[1])
  BY <1>1 DEF Split, Innermost
<1> QED
  BY <1>2, WholeIsType, LenProperties

-----------------------------------------------------------------------------
(* The parser itself.                                                       *)

\* The characters of the name.
InputChars == {input[k] : k \in DOMAIN input}
\* A sequence, of whatever it holds.
IsList(s) == s \in Seq({s[k] : k \in DOMAIN s})
\* A call of parse has three fields.
IsCall(call) == DOMAIN call = {"expr", "operand", "wants"}

\* How many types the calls have begun: a call that waits for its right angle
\* has its operand, the argument, besides what it built.
Opened == IF Top.wants = "RAngle" THEN Len(frames) + 1 ELSE Len(frames)
BuiltSoFar == [k \in Nat |-> IF k <= Len(frames) THEN frames[k].expr ELSE Top.operand]
Wanted == IF Top.wants = "RAngle" THEN "more" ELSE Top.wants

\* The tokenizer: a token that was given back is a closing one, the last that was taken.
ReadTyped ==
  /\ input \in Seq(InputChars) /\ offset \in 1 .. Len(input) + 1
  /\ taken \in Seq(Tokens(InputChars))
  /\ prev_token # NoToken => prev_token.kind \in {"RAngle", "RSquare"} /\ taken # <<>> /\ Last(taken) = prev_token
\* The calls, of which there is one at least.
CallsTyped ==
  /\ IsList(frames) /\ Len(frames) > 0 /\ \A k \in 1 .. Len(frames) : IsCall(frames[k])
  /\ Top.wants \in {"Ident", "more", "length", "RSquare", "RAngle"}
\* While it runs, what the calls have built is what the tokens have begun, and a
\* closing token is pending only for the call that waits for a right angle; if none
\* is, the name has ended.
ReadSoFar ==
  parsed = Running =>
    /\ Open(Accepted, Opened, BuiltSoFar, Wanted, Top.operand)
    /\ prev_token # NoToken => Top.wants = "RAngle"
    /\ Top.wants = "RAngle" /\ prev_token = NoToken => NextToken.token = NoToken
\* After any error but an unexpected end, nothing that could follow makes it a type.
RejectedForGood ==
  parsed.is = "error" /\ parsed.why # "UnexpectedEof" =>
    \A rest \in Seq(Tokens(InputChars)) : ~IsType(taken \o rest)
\* All of it.
ParserInv ==
  ReadTyped /\ CallsTyped /\ ReadSoFar /\ ParsedAsWritten /\ RejectsFirstWrong /\ RejectedForGood

\* Its elements and its length.
LEMMA ListIs ==
  ASSUME NEW s, IsList(s)
  PROVE  Len(s) \in Nat /\ DOMAIN s = 1 .. Len(s) /\ s \in [1 .. Len(s) -> {s[k] : k \in DOMAIN s}]
BY LenProperties DEF IsList

\* A function on 1 .. n is one.
LEMMA ListMade ==
  ASSUME NEW n \in Nat, NEW S, NEW s \in [1 .. n -> S]
  PROVE  IsList(s) /\ Len(s) = n
<1> DEFINE T == {s[k] : k \in DOMAIN s}
<1>1. DOMAIN s = 1 .. n /\ s \in Seq(S) /\ Len(s) = n
  BY LenProperties
<1>2. s \in [1 .. n -> T]
  BY <1>1
<1> HIDE DEF T
<1>3. s \in Seq(T)
  BY <1>2
<1> QED
  BY <1>1, <1>3 DEF IsList, T

\* One more element.
LEMMA ListAppended ==
  ASSUME NEW s, IsList(s), NEW e
  PROVE  /\ IsList(Append(s, e)) /\ Len(s) \in Nat /\ Len(Append(s, e)) = Len(s) + 1
         /\ \A k \in 1 .. Len(s) : Append(s, e)[k] = s[k]
         /\ Append(s, e)[Len(s) + 1] = e
<1> DEFINE T == {s[k] : k \in DOMAIN s}
           S == T \union {e}
<1>1. s \in Seq(T) /\ T \subseteq S /\ e \in S
  BY DEF IsList
<1> HIDE DEF T, S
<1>2. s \in Seq(S)
  BY <1>1, SeqMonotonic
<1>3. /\ Append(s, e) \in Seq(S) /\ Len(Append(s, e)) = Len(s) + 1 /\ Len(s) \in Nat
      /\ \A k \in 1 .. Len(s) : Append(s, e)[k] = s[k]
      /\ Append(s, e)[Len(s) + 1] = e
  BY <1>1, <1>2, AppendProperties, LenProperties
<1> DEFINE u == Append(s, e)
           m == Len(s) + 1
<1>4. u \in [1 .. m -> S] /\ m \in Nat
  BY <1>3, LenProperties
<1> HIDE DEF u, m
<1>5. IsList(u)
  BY <1>4, ListMade
<1> QED
  BY <1>3, <1>5 DEF u

\* Eating stops: the end of the name is the last place where it can.
LEMMA EatWhileIs ==
  ASSUME ReadTyped, NEW i \in 1 .. Len(input) + 1, NEW chars
  PROVE  EatWhile(i, chars) \in i .. Len(input) + 1
<1> DEFINE stops(j) == j <= Len(input) => input[j] \notin chars
           U == {j \in i .. Len(input) + 1 : stops(j)}
<1>1. Len(input) \in Nat
  BY LenProperties DEF ReadTyped
<1>2. Len(input) + 1 \in U
  BY <1>1
<1>3. PICK j \in U : \A k \in U : j <= k
  <2> DEFINE W == {k \in Nat : k \in U}
  <2>1. W # {}
    BY <1>1, <1>2
  <2>2. PICK j \in W : \A k \in W : j <= k
    BY <2>1, LeastNatural
  <2>3. \A k \in U : k \in W
    BY <1>1
  <2> QED
    BY <2>2, <2>3
<1>4. j \in i .. Len(input) + 1 /\ stops(j)
  BY <1>3
<1>5. \A k \in i .. j - 1 : input[k] \in chars
  <2> TAKE k \in i .. j - 1
  <2>1. k \in i .. Len(input) + 1 /\ k < j /\ k <= Len(input)
    BY <1>1, <1>4
  <2>2. k \notin U
    BY <1>1, <1>3, <1>4, <2>1
  <2> QED
    BY <2>1, <2>2
<1>6. \E l \in i .. Len(input) + 1 :
        /\ \A k \in i .. l - 1 : input[k] \in chars
        /\ l <= Len(input) => input[l] \notin chars
  BY <1>4, <1>5
<1> QED
  BY <1>6 DEF EatWhile

\* The tokenizer yields tokens, and none only at the end.
LEMMA NextTokenIs ==
  ASSUME ReadTyped
  PROVE  /\ NextToken.token \in Tokens(InputChars) /\ NextToken.end \in 1 .. Len(input) + 1
         /\ NextToken.token.kind = "none" => NextToken.token = NoToken
         /\ NextToken.token = NoToken => NextToken.end = Len(input) + 1
<1> DEFINE start == EatWhile(offset, Spaces)
           ch == input[start]
           named == EatWhile(start + 1, IdentContinue)
           numbered == EatWhile(start + 1, Digits)
<1>1. Len(input) \in Nat /\ offset \in 1 .. Len(input) + 1 /\ input \in Seq(InputChars)
  BY LenProperties DEF ReadTyped
<1>2. start \in offset .. Len(input) + 1
  BY <1>1, EatWhileIs
<1>3. start \in 1 .. Len(input) + 1
  BY <1>1, <1>2
<1> HIDE DEF start, named, numbered
<1>4. \A kind, end : kind \in TokenKinds /\ end \in 1 .. Len(input) + 1
        => Token(kind, SubSeq(input, start, end - 1)) \in Tokens(InputChars)
  <2> SUFFICES ASSUME NEW kind \in TokenKinds, NEW end \in 1 .. Len(input) + 1
               PROVE  Token(kind, SubSeq(input, start, end - 1)) \in Tokens(InputChars)
    OBVIOUS
  <2>1. SubSeq(input, start, end - 1) \in Seq(InputChars)
    <3>1. \A k \in start .. end - 1 : k \in 1 .. Len(input)
      BY <1>1, <1>3
    <3>2. PICK e : e = end - 1 /\ e \in Nat
      BY <1>1
    <3> QED
      BY <1>1, <1>3, <3>1, <3>2, SubSeqProperties
  <2> QED
    BY <2>1 DEF Token, Tokens
<1>5. CASE start > Len(input)
  <2>1. NextToken.token = NoToken /\ NextToken.end = start
    BY <1>5 DEF NextToken, start
  <2>2. NoToken \in Tokens(InputChars)
    BY EmptySeq DEF NoToken, Token, Tokens, TokenKinds
  <2> QED
    BY <1>1, <1>3, <1>5, <2>1, <2>2
<1>6. CASE ~(start > Len(input))
  <2>1. start + 1 \in 1 .. Len(input) + 1
    BY <1>1, <1>3, <1>6
  <2>2. named \in 1 .. Len(input) + 1 /\ numbered \in 1 .. Len(input) + 1
    <3>1. PICK i : i = start + 1 /\ i \in 1 .. Len(input) + 1
      BY <2>1
    <3>2. EatWhile(i, IdentContinue) \in i .. Len(input) + 1 /\ EatWhile(i, Digits) \in i .. Len(input) + 1
      BY <3>1, EatWhileIs
    <3> QED
      BY <1>1, <3>1, <3>2 DEF named, numbered
  <2>3. \E kind \in TokenKinds \ {"none"}, end \in 1 .. Len(input) + 1 :
          /\ NextToken.token = Token(kind, SubSeq(input, start, end - 1)) /\ NextToken.end = end
    <3> DEFINE Upto(kind, end) == [token |-> Token(kind, SubSeq(input, start, end - 1)), end |-> end]
    <3>1. NextToken = CASE ch \in DOMAIN Symbols -> Upto(Symbols[ch], start + 1)
                        [] ch \in IdentStart -> Upto("Ident", named)
                        [] ch \in Digits -> Upto("Lit", numbered)
                        [] OTHER -> Upto("unknown", start + 1)
      BY <1>6, Zenon DEF NextToken, start, named, numbered
    <3>2. ch \in DOMAIN Symbols => Symbols[ch] \in TokenKinds \ {"none"}
      BY DEF Symbols, TokenKinds
    <3> HIDE DEF ch
    <3>3. \E kind \in TokenKinds \ {"none"}, end \in 1 .. Len(input) + 1 : NextToken = Upto(kind, end)
      <4> HIDE DEF Upto
      <4> QED
        BY <2>1, <2>2, <3>1, <3>2 DEF TokenKinds
    <3> QED
      BY <3>3
  <2>4. PICK kind \in TokenKinds \ {"none"}, end \in 1 .. Len(input) + 1 :
          /\ NextToken.token = Token(kind, SubSeq(input, start, end - 1)) /\ NextToken.end = end
    BY <2>3
  <2>5. NextToken.token \in Tokens(InputChars)
    BY <1>4, <2>4
  <2>6. NextToken.token.kind = kind /\ NoToken.kind = "none"
    BY <2>4 DEF Token, NoToken
  <2> QED
    BY <2>4, <2>5, <2>6
<1> QED
  BY <1>5, <1>6

\* Nothing follows the end.
LEMMA NothingAfterEndNext ==
  ASSUME NEW n \in Nat, Len(input') = n, offset' = n + 1
  PROVE  NextToken'.token = NoToken
<1>1. EatWhile(offset, Spaces)' = n + 1
  <2>1. \E j \in offset' .. Len(input') + 1 :
          /\ \A k \in offset' .. j - 1 : input'[k] \in Spaces
          /\ j <= Len(input') => input'[j] \notin Spaces
    BY SMT
  <2>2. EatWhile(offset, Spaces)' \in offset' .. Len(input') + 1
    BY <2>1 DEF EatWhile
  <2> QED
    BY <2>2
<1> QED
  BY <1>1 DEF NextToken

\* What was taken is what was accepted, and the token that is pending.
LEMMA AcceptedIs ==
  ASSUME ReadTyped
  PROVE  /\ Accepted \in Seq(Tokens(InputChars)) /\ Len(Accepted) \in Nat
         /\ taken = Accepted \o GivenBack
         /\ prev_token = NoToken => Accepted = taken
         /\ prev_token # NoToken => taken = Append(Accepted, prev_token) /\ prev_token \in Tokens(InputChars)
<1> DEFINE S == Tokens(InputChars)
<1>1. taken \in Seq(S)
  BY DEF ReadTyped
<1> HIDE DEF S
<1>2. CASE prev_token = NoToken
  <2>1. Accepted = taken /\ GivenBack = <<>>
    BY <1>2 DEF Accepted, GivenBack
  <2> QED
    BY <1>1, <1>2, <2>1, EmptySeq, ConcatEmptySeq, LenProperties DEF S
<1>3. CASE prev_token # NoToken
  <2>1. taken # <<>> /\ Last(taken) = prev_token /\ Accepted = Front(taken) /\ GivenBack = <<prev_token>>
    BY <1>3 DEF ReadTyped, Accepted, GivenBack
  <2>2. Front(taken) \in Seq(S) /\ Last(taken) \in S /\ taken = Append(Front(taken), Last(taken))
    <3>1. Len(taken) \in Nat /\ Len(taken) > 0
      BY <1>1, <2>1, EmptySeq, LenProperties
    <3>2. PICK n \in Nat : Len(taken) = n + 1 /\ Len(taken) - 1 = n
      BY <3>1
    <3>3. Front(taken) = SubSeq(taken, 1, n) /\ Last(taken) = taken[n + 1]
      BY <3>2 DEF Front, Last
    <3>4. /\ SubSeq(taken, 1, n) \in Seq(S) /\ Len(SubSeq(taken, 1, n)) = n
          /\ \A k \in 1 .. n : SubSeq(taken, 1, n)[k] = taken[k]
      BY <1>1, <3>2, SubSeqProperties
    <3>5. taken[n + 1] \in S
      BY <1>1, <3>2, ElementOfSeq
    <3> DEFINE f == SubSeq(taken, 1, n)
               l == taken[n + 1]
    <3> HIDE DEF f, l
    <3>6. /\ Append(f, l) \in Seq(S) /\ Len(Append(f, l)) = n + 1
          /\ \A k \in 1 .. n : Append(f, l)[k] = f[k]
          /\ Append(f, l)[n + 1] = l
      BY <3>4, <3>5, AppendProperties DEF f, l
    <3>7. \A k \in 1 .. n + 1 : Append(f, l)[k] = taken[k]
      BY <3>4, <3>6 DEF f, l
    <3>8. Append(f, l) = taken
      BY <1>1, <3>2, <3>6, <3>7, SeqEqual
    <3> QED
      BY <3>3, <3>4, <3>5, <3>8 DEF f, l
  <2>3. Append(Accepted, prev_token) = Accepted \o <<prev_token>>
    BY <2>1, <2>2, AppendIsConcat
  <2> QED
    BY <1>3, <2>1, <2>2, <2>3, LenProperties DEF S
<1> QED
  BY <1>2, <1>3

\* What a token that is taken changes.
LEMMA TakesOn ==
  ASSUME ReadTyped, UNCHANGED input, NEW token, token = Upcoming, Take(token)
  PROVE  /\ offset' \in 1 .. Len(input) + 1 /\ taken' \in Seq(Tokens(InputChars))
         /\ prev_token' = NoToken /\ ReadTyped' /\ Accepted' = taken' /\ InputChars' = InputChars
         /\ token \in Tokens(InputChars)
         /\ token.kind = "none" => token = NoToken
         /\ token = NoToken => /\ taken' = taken /\ Accepted = taken /\ prev_token = NoToken
                               /\ NextToken'.token = NoToken
         /\ token # NoToken => taken' = Append(Accepted, token)
         /\ prev_token # NoToken => token.kind \in {"RAngle", "RSquare"}
<1> DEFINE S == Tokens(InputChars)
<1>1. /\ taken \in Seq(S) /\ offset \in 1 .. Len(input) + 1 /\ Len(input) \in Nat
  BY LenProperties DEF ReadTyped
<1>2. /\ NextToken.token \in S /\ NextToken.end \in 1 .. Len(input) + 1
      /\ NextToken.token.kind = "none" => NextToken.token = NoToken
      /\ NextToken.token = NoToken => NextToken.end = Len(input) + 1
  BY NextTokenIs
<1>3. /\ Accepted \in Seq(S)
      /\ prev_token = NoToken => Accepted = taken
      /\ prev_token # NoToken => taken = Append(Accepted, prev_token) /\ prev_token \in S
  BY AcceptedIs
<1>4. InputChars' = InputChars /\ input' = input
  BY DEF InputChars
<1> HIDE DEF S
<1>5. CASE prev_token # NoToken
  <2>1. token = prev_token /\ prev_token' = NoToken /\ offset' = offset /\ taken' = taken
    BY <1>5 DEF Take
  <2>2. prev_token.kind \in {"RAngle", "RSquare"}
    BY <1>5 DEF ReadTyped
  <2>3. ReadTyped' /\ Accepted' = taken'
    BY <1>1, <1>4, <2>1 DEF ReadTyped, Accepted, S, Tokens
  <2> QED
    BY <1>1, <1>3, <1>4, <1>5, <2>1, <2>2, <2>3 DEF S
<1>6. CASE prev_token = NoToken
  <2>1. /\ token = NextToken.token /\ offset' = NextToken.end /\ prev_token' = NoToken
        /\ taken' = IF token = NoToken THEN taken ELSE Append(taken, token)
    BY <1>6 DEF Take
  <2>2. taken' \in Seq(S) /\ offset' \in 1 .. Len(input) + 1
    BY <1>1, <1>2, <2>1, AppendProperties
  <2>3. ReadTyped' /\ Accepted' = taken'
    BY <1>4, <2>1, <2>2 DEF ReadTyped, Accepted, S, Tokens
  <2>4. token = NoToken => NextToken'.token = NoToken
    <3> SUFFICES ASSUME token = NoToken PROVE NextToken'.token = NoToken
      OBVIOUS
    <3>1. PICK n \in Nat : Len(input) = n
      BY <1>1
    <3>2. Len(input') = n /\ offset' = n + 1
      BY <1>2, <1>4, <2>1, <3>1
    <3> QED
      BY <3>2, NothingAfterEndNext
  <2> QED
    BY <1>2, <1>3, <1>4, <1>6, <2>1, <2>2, <2>3, <2>4 DEF S
<1> QED
  BY <1>5, <1>6

\* The innermost call is replaced, the others stay.
LEMMA TopSet ==
  ASSUME CallsTyped, NEW call, SetTop(call), IsCall(call)
  PROVE  /\ IsList(frames)' /\ Len(frames') = Len(frames) /\ Len(frames) \in Nat \ {0}
         /\ \A k \in 1 .. Len(frames') : IsCall(frames'[k])
         /\ \A k \in 1 .. Len(frames) - 1 : frames'[k] = frames[k]
         /\ frames'[Len(frames)] = call /\ Top' = call
<1> DEFINE n == Len(frames)
           S == {frames[k] : k \in DOMAIN frames} \union {call}
<1>1. n \in Nat /\ n > 0 /\ DOMAIN frames = 1 .. n /\ frames \in [1 .. n -> S]
  BY ListIs DEF CallsTyped
<1>2. frames' = [frames EXCEPT ![n] = call]
  BY DEF SetTop
<1> HIDE DEF n, S
<1>3. /\ frames' \in [1 .. n -> S] /\ frames'[n] = call
      /\ \A k \in 1 .. n - 1 : frames'[k] = frames[k]
  <2>1. call \in S /\ n \in 1 .. n
    BY <1>1 DEF S
  <2> QED
    BY <1>1, <1>2, <2>1
<1>4. IsList(frames') /\ Len(frames') = n
  BY <1>1, <1>3, ListMade
<1>5. \A k \in 1 .. n : IsCall(frames'[k])
  <2> TAKE k \in 1 .. n
  <2>1. k = n \/ k \in 1 .. n - 1
    BY <1>1
  <2>2. IsCall(frames[k])
    BY DEF CallsTyped, n
  <2>3. frames'[k] = call \/ frames'[k] = frames[k]
    BY <1>3, <2>1
  <2> QED
    BY <2>2, <2>3
<1>6. Top' = frames'[n]
  BY <1>4 DEF Top, Last
<1> QED
  BY <1>1, <1>3, <1>4, <1>5, <1>6 DEF n, IsList

\* An element that was appended is the last, before it is what was there.
LEMMA FrontLastAppended ==
  ASSUME NEW S, NEW t \in Seq(S), NEW e \in S
  PROVE  Front(Append(t, e)) = t /\ Last(Append(t, e)) = e
<1> DEFINE u == Append(t, e)
<1>1. /\ u \in Seq(S) /\ Len(t) \in Nat /\ Len(u) = Len(t) + 1
      /\ \A k \in 1 .. Len(t) : u[k] = t[k]
      /\ u[Len(t) + 1] = e
  BY AppendProperties, LenProperties
<1> HIDE DEF u
<1>2. PICK n \in Nat : n = Len(t) /\ Len(u) = n + 1 /\ Len(u) - 1 = n
  BY <1>1
<1>3. Last(u) = u[n + 1] /\ Front(u) = SubSeq(u, 1, n)
  BY <1>2 DEF Last, Front
<1>4. /\ SubSeq(u, 1, n) \in Seq(S) /\ Len(SubSeq(u, 1, n)) = n
      /\ \A k \in 1 .. n : SubSeq(u, 1, n)[k] = u[k]
  <2>1. \A k \in 1 .. n : u[k] \in S
    BY <1>1, <1>2, ElementOfSeq
  <2> QED
    BY <1>2, <2>1, SubSeqProperties
<1>5. SubSeq(u, 1, n) = t
  BY <1>1, <1>2, <1>4, SeqEqual
<1> QED
  BY <1>1, <1>2, <1>3, <1>5 DEF u

\* No type begins with the tokens that were read and one that is wrong there.
LEMMA RejectedBy ==
  ASSUME NEW chars, NEW t \in Seq(Tokens(chars)), NEW m, NEW b, NEW wants, NEW operand,
         Open(t, m, b, wants, operand), NEW token \in Tokens(chars),
         After(At(m - 1, wants), token) = Nowhere
  PROVE  /\ Viable(t) /\ ~Viable(Append(t, token))
         /\ \A rest \in Seq(Tokens(chars)) : ~IsType(Append(t, token) \o rest)
         /\ Front(Append(t, token)) = t /\ Last(Append(t, token)) = token
<1>1. Viable(t)
  BY OpenIsViable
<1>2. m \in Nat \ {0} /\ \A st : Reading(st, t) => st[Len(t)] = At(m - 1, wants)
  BY DEF Open, Split
<1> DEFINE S == Tokens(chars)
<1> HIDE DEF S
<1>3. \A rest \in Seq(S) : ~IsType(Append(t, token) \o rest)
  BY <1>2, WrongForGood DEF S
<1>4. \A ending \in Endings, angles \in Nat : Completion(ending, angles) \in Seq(S)
  BY CompletionTyped DEF S
<1>5. t \in Seq(S) /\ token \in S
  BY DEF S
<1>6. /\ Append(t, token) \in Seq(S) /\ Len(t) \in Nat /\ Len(Append(t, token)) = Len(t) + 1
      /\ \A k \in 1 .. Len(t) : Append(t, token)[k] = t[k]
      /\ Append(t, token)[Len(t) + 1] = token
  BY <1>5, AppendProperties, LenProperties
<1>7. ~Viable(Append(t, token))
  BY <1>3, <1>4, <1>6 DEF Viable
<1>8. Front(Append(t, token)) = t /\ Last(Append(t, token)) = token
  BY <1>5, FrontLastAppended
<1> QED
  BY <1>1, <1>3, <1>7, <1>8 DEF S

\* What is open does not depend on what is not begun.
LEMMA OpenSame ==
  ASSUME NEW t, NEW m, NEW b, NEW o, Open(t, m, b, "more", o), NEW c, \A k \in 1 .. m : c[k] = b[k], NEW p
  PROVE  Open(t, m, c, "more", p)
<1>1. PICK s : Split(t, s, m, b, "more", o)
  BY DEF Open
<1>2. /\ m \in Nat \ {0} /\ s[1] = 1 /\ \A k \in 1 .. m : s[k] \in Nat /\ k <= s[k] /\ s[k] <= Len(t) + 1
      /\ \A k \in 1 .. m - 1 : Begun(t, s, k, b[k])
      /\ Innermost(t, s[m], b[m], "more", o)
  BY <1>1 DEF Split
<1>3. \A k \in 1 .. m - 1 : Begun(t, s, k, c[k])
  BY <1>2
<1>4. Innermost(t, s[m], c[m], "more", p)
  BY <1>2 DEF Innermost
<1>5. Split(t, s, m, c, "more", p)
  BY <1>2, <1>3, <1>4 DEF Split
<1> QED
  BY <1>5 DEF Open

\* What is built of the calls.
LEMMA BuiltIs ==
  ASSUME CallsTyped
  PROVE  /\ Len(frames) \in Nat \ {0} /\ Opened \in Nat \ {0}
         /\ \A k \in 1 .. Len(frames) : BuiltSoFar[k] = frames[k].expr
         /\ BuiltSoFar[Len(frames)] = Top.expr
         /\ Top.wants = "RAngle" => Opened = Len(frames) + 1 /\ BuiltSoFar[Len(frames) + 1] = Top.operand
         /\ Top.wants # "RAngle" => Opened = Len(frames) /\ Wanted = Top.wants
<1>1. Len(frames) \in Nat \ {0}
  BY ListIs DEF CallsTyped
<1>2. Top = frames[Len(frames)]
  BY DEF Top, Last
<1> QED
  BY <1>1, <1>2 DEF BuiltSoFar, Opened, Wanted

\* What is built when the innermost call is replaced.
LEMMA BuiltIsNext ==
  ASSUME CallsTyped, NEW call, SetTop(call), IsCall(call), call.wants \in {"Ident", "more", "length", "RSquare"}
  PROVE  /\ CallsTyped' /\ Top' = call /\ Opened' = Len(frames) /\ Wanted' = call.wants
         /\ \A k \in 1 .. Len(frames) - 1 : BuiltSoFar'[k] = BuiltSoFar[k]
         /\ BuiltSoFar'[Len(frames)] = call.expr
<1>1. /\ IsList(frames)' /\ Len(frames') = Len(frames) /\ Len(frames) \in Nat \ {0}
      /\ \A k \in 1 .. Len(frames') : IsCall(frames'[k])
      /\ \A k \in 1 .. Len(frames) - 1 : frames'[k] = frames[k]
      /\ frames'[Len(frames)] = call /\ Top' = call
  BY TopSet
<1>2. CallsTyped'
  BY <1>1 DEF CallsTyped
<1>3. Opened' = Len(frames) /\ Wanted' = call.wants
  BY <1>1 DEF Opened, Wanted
<1>4. \A k \in Nat : BuiltSoFar'[k] = IF k <= Len(frames') THEN frames'[k].expr ELSE Top'.operand
  BY DEF BuiltSoFar
<1>5. \A k \in 1 .. Len(frames) : BuiltSoFar[k] = frames[k].expr
  BY BuiltIs
<1>6. \A k \in 1 .. Len(frames) - 1 : BuiltSoFar'[k] = BuiltSoFar[k]
  BY <1>1, <1>4, <1>5
<1>7. BuiltSoFar'[Len(frames)] = call.expr
  BY <1>1, <1>4
<1> QED
  BY <1>1, <1>2, <1>3, <1>6, <1>7

\* The innermost call goes on.
LEMMA GoesOn ==
  ASSUME ParserInv, parsed = Running, UNCHANGED <<input, parsed>>, Take(Upcoming), Upcoming # NoToken,
         NEW call, SetTop(call), IsCall(call), call.wants \in {"Ident", "more", "length", "RSquare"},
         Open(Append(Accepted, Upcoming), Len(frames), BuiltSoFar', call.wants, call.operand)
  PROVE  ParserInv'
<1>1. ReadTyped /\ CallsTyped
  BY DEF ParserInv
<1>2. prev_token' = NoToken /\ ReadTyped' /\ Accepted' = Append(Accepted, Upcoming)
  BY <1>1, TakesOn
<1>3. CallsTyped' /\ Top' = call /\ Opened' = Len(frames) /\ Wanted' = call.wants
  BY <1>1, BuiltIsNext
<1>4. Open(Accepted', Opened', BuiltSoFar', Wanted', Top'.operand)
  BY <1>2, <1>3
<1>5. ReadSoFar'
  BY <1>2, <1>3, <1>4 DEF ReadSoFar
<1>6. parsed'.is = "running"
  BY DEF Running
<1> QED
  BY <1>2, <1>3, <1>5, <1>6 DEF ParserInv, ParsedAsWritten, RejectsFirstWrong, RejectedForGood

\* A token that no type can have there is an error.
LEMMA Rejects ==
  ASSUME ParserInv, parsed = Running, UNCHANGED input, Take(Upcoming), Upcoming # NoToken,
         NEW why \in {"UnknownChar", "UnexpectedToken"}, Fail(why),
         (why = "UnknownChar") = (Upcoming.kind = "unknown"),
         After(At(Opened - 1, Wanted), Upcoming) = Nowhere
  PROVE  ParserInv'
<1>1. ReadTyped /\ CallsTyped /\ Open(Accepted, Opened, BuiltSoFar, Wanted, Top.operand)
  BY DEF ParserInv, ReadSoFar
<1>2. /\ prev_token' = NoToken /\ ReadTyped' /\ taken' = Append(Accepted, Upcoming)
      /\ Upcoming \in Tokens(InputChars) /\ InputChars' = InputChars
  BY <1>1, TakesOn
<1>3. Accepted \in Seq(Tokens(InputChars))
  BY <1>1, AcceptedIs
<1>4. /\ Viable(Accepted) /\ ~Viable(Append(Accepted, Upcoming))
      /\ \A rest \in Seq(Tokens(InputChars)) : ~IsType(Append(Accepted, Upcoming) \o rest)
      /\ Front(Append(Accepted, Upcoming)) = Accepted /\ Last(Append(Accepted, Upcoming)) = Upcoming
  <2> DEFINE t == Accepted
             token == Upcoming
             m == Opened
             b == BuiltSoFar
             w == Wanted
             o == Top.operand
             chars == InputChars
  <2>1. t \in Seq(Tokens(chars)) /\ token \in Tokens(chars) /\ Open(t, m, b, w, o) /\ After(At(m - 1, w), token) = Nowhere
    BY <1>1, <1>2, <1>3
  <2> HIDE DEF t, token, m, b, w, o, chars
  <2>2. /\ Viable(t) /\ ~Viable(Append(t, token))
        /\ \A rest \in Seq(Tokens(chars)) : ~IsType(Append(t, token) \o rest)
        /\ Front(Append(t, token)) = t /\ Last(Append(t, token)) = token
    BY <2>1, RejectedBy
  <2> QED
    BY <2>2 DEF t, token, chars
<1>5. parsed' = [is |-> "error", why |-> why] /\ frames' = frames /\ input' = input
  BY DEF Fail, Err
<1>6. CallsTyped'
  BY <1>1, <1>5 DEF CallsTyped, Top
<1>7. RejectsFirstWrong'
  BY <1>2, <1>4, <1>5 DEF RejectsFirstWrong
<1>8. RejectedForGood'
  BY <1>2, <1>4, <1>5 DEF RejectedForGood
<1>9. ParsedAsWritten' /\ ReadSoFar'
  BY <1>5 DEF ParsedAsWritten, ReadSoFar, Running
<1> QED
  BY <1>2, <1>6, <1>7, <1>8, <1>9 DEF ParserInv

\* The name ends where a type has begun.
LEMMA EndsEarly ==
  ASSUME ParserInv, parsed = Running, UNCHANGED input, Take(Upcoming), Upcoming = NoToken,
         Fail("UnexpectedEof"), Opened # 1 \/ Wanted # "more"
  PROVE  ParserInv'
<1>1. ReadTyped /\ CallsTyped /\ Open(Accepted, Opened, BuiltSoFar, Wanted, Top.operand)
  BY DEF ParserInv, ReadSoFar
<1>2. /\ ReadTyped' /\ taken' = taken /\ Accepted = taken /\ NextToken'.token = NoToken
  BY <1>1, TakesOn
<1>3. Accepted \in Seq(Tokens(InputChars))
  BY <1>1, AcceptedIs
<1>4. Viable(Accepted) /\ ~IsType(Accepted)
  <2> DEFINE t == Accepted
             m == Opened
             b == BuiltSoFar
             w == Wanted
             o == Top.operand
             S == Tokens(InputChars)
  <2>1. t \in Seq(S) /\ Open(t, m, b, w, o) /\ (m # 1 \/ w # "more")
    BY <1>1, <1>3
  <2>2. Viable(t)
    <3> HIDE DEF t, m, b, w, o
    <3> QED
      BY <2>1, OpenIsViable
  <2> HIDE DEF t, m, b, w, o, S
  <2>3. m \in Nat \ {0} /\ \A st : Reading(st, t) => st[Len(t)] = At(m - 1, w)
    BY <2>1 DEF Open, Split
  <2>4. ~(m - 1 = 0 /\ w = "more")
    BY <2>1, <2>3
  <2>5. ~IsType(t)
    BY <2>1, <2>3, <2>4, OpenIsNoType
  <2> QED
    BY <2>2, <2>5 DEF t
<1>5. parsed' = [is |-> "error", why |-> "UnexpectedEof"] /\ frames' = frames /\ input' = input
  BY DEF Fail, Err
<1>6. CallsTyped'
  BY <1>1, <1>5 DEF CallsTyped, Top
<1>7. RejectsFirstWrong'
  BY <1>2, <1>4, <1>5 DEF RejectsFirstWrong
<1>8. RejectedForGood'
  BY <1>5 DEF RejectedForGood
<1>9. ParsedAsWritten' /\ ReadSoFar'
  BY <1>5 DEF ParsedAsWritten, ReadSoFar, Running
<1> QED
  BY <1>2, <1>6, <1>7, <1>8, <1>9 DEF ParserInv

\* A call that wants a token of certain kinds, and gets none of them.
LEMMA ExpectsWrong ==
  ASSUME ParserInv, parsed = Running, UNCHANGED input, Take(Upcoming), Opened # 1 \/ Wanted # "more",
         \/ Upcoming = NoToken /\ Fail("UnexpectedEof")
         \/ Upcoming.kind = "unknown" /\ Fail("UnknownChar")
         \/ Upcoming.kind \notin {"none", "unknown"} /\ Fail("UnexpectedToken"),
         After(At(Opened - 1, Wanted), Upcoming) = Nowhere
  PROVE  ParserInv'
<1>1. CASE Upcoming = NoToken /\ Fail("UnexpectedEof")
  BY <1>1, EndsEarly
<1>2. NoToken.kind = "none"
  BY DEF NoToken, Token
<1>3. CASE Upcoming.kind = "unknown" /\ Fail("UnknownChar")
  <2>1. Upcoming # NoToken /\ ("UnknownChar" = "UnknownChar") = (Upcoming.kind = "unknown")
    BY <1>2, <1>3
  <2> QED
    BY <1>3, <2>1, Rejects
<1>4. CASE Upcoming.kind \notin {"none", "unknown"} /\ Fail("UnexpectedToken")
  <2>1. Upcoming # NoToken /\ ("UnexpectedToken" = "UnknownChar") = (Upcoming.kind = "unknown")
    BY <1>2, <1>4
  <2> QED
    BY <1>4, <2>1, Rejects
<1> QED
  BY <1>1, <1>3, <1>4

\* What a token does where it is read is read of what the call wants.
LEMMA WrongIs ==
  ASSUME NEW d, NEW token
  PROVE  /\ token.kind # "Ident" => After(At(d, "Ident"), token) = Nowhere
         /\ Lengths(token) = {} => After(At(d, "length"), token) = Nowhere
         /\ token.kind # "RSquare" => After(At(d, "RSquare"), token) = Nowhere
         /\ token.kind \notin {"Asterisk", "LAngle", "RAngle", "LSquare"} => After(At(d, "more"), token) = Nowhere
<1>1. \A w : At(d, w).wants = w
  BY DEF At
<1> QED
  BY <1>1 DEF After

\* One lemma for each action.
LEMMA FirstKeeps ==
  ASSUME ParserInv, First
  PROVE  ParserInv'
<1>1. parsed = Running /\ Top.wants = "Ident" /\ UNCHANGED input /\ Take(Upcoming) /\ ReadTyped /\ CallsTyped
  BY DEF First, Asks, Expect, ParserInv
<1>2. Opened = Len(frames) /\ Wanted = "Ident" /\ Open(Accepted, Opened, BuiltSoFar, Wanted, Top.operand)
  BY <1>1, BuiltIs DEF ParserInv, ReadSoFar
<1> DEFINE call == [Top EXCEPT !.expr = Ident(Upcoming.text), !.wants = "more"]
<1>3. CASE Upcoming.kind = "Ident" /\ SetTop(call) /\ UNCHANGED parsed
  <2>1. IsCall(Top)
    BY <1>1, BuiltIs DEF CallsTyped, Top, Last
  <2>2. IsCall(call) /\ call.wants = "more" /\ call.expr = Ident(Upcoming.text)
    BY <2>1 DEF IsCall
  <2> HIDE DEF call
  <2>3. /\ \A k \in 1 .. Len(frames) - 1 : BuiltSoFar'[k] = BuiltSoFar[k]
        /\ BuiltSoFar'[Len(frames)] = Ident(Upcoming.text)
    BY <1>1, <1>3, <2>2, BuiltIsNext
  <2>4. Accepted \in Seq(Tokens(InputChars)) /\ Upcoming \in Tokens(InputChars)
    BY <1>1, AcceptedIs, TakesOn
  <2> DEFINE t == Accepted
             token == Upcoming
             m == Len(frames)
             b == BuiltSoFar
             c == BuiltSoFar'
             o == Top.operand
             S == Tokens(InputChars)
  <2>5. /\ t \in Seq(S) /\ token \in S /\ Open(t, m, b, "Ident", o) /\ token.kind = "Ident"
        /\ \A k \in 1 .. m - 1 : c[k] = b[k]
        /\ c[m] = Ident(token.text)
    BY <1>2, <1>3, <2>3, <2>4
  <2>6. Open(Append(t, token), m, c, "more", call.operand)
    <3> HIDE DEF t, token, m, b, c, o, S
    <3> QED
      BY <2>5, OpenNamed
  <2>7. Upcoming # NoToken
    BY <1>3 DEF NoToken, Token
  <2> QED
    BY <1>1, <1>3, <2>2, <2>6, <2>7, GoesOn
<1>4. CASE ~(Upcoming.kind = "Ident" /\ SetTop(call) /\ UNCHANGED parsed)
  <2>1. \/ Upcoming = NoToken /\ Fail("UnexpectedEof")
        \/ Upcoming.kind = "unknown" /\ Fail("UnknownChar")
        \/ Upcoming.kind \notin {"Ident", "none", "unknown"} /\ Fail("UnexpectedToken")
    BY <1>4 DEF First, Expect
  <2>2. Upcoming.kind # "Ident"
    BY <2>1 DEF NoToken, Token
  <2>3. After(At(Opened - 1, Wanted), Upcoming) = Nowhere
    BY <1>2, <2>2, WrongIs
  <2> QED
    BY <1>1, <1>2, <2>1, <2>3, ExpectsWrong
<1> QED
  BY <1>3, <1>4

LEMMA AsteriskKeeps ==
  ASSUME ParserInv, Asterisk
  PROVE  ParserInv'
<1> DEFINE call == [Top EXCEPT !.expr = Pointer(@)]
<1>1. /\ parsed = Running /\ Top.wants = "more" /\ UNCHANGED <<input, parsed>> /\ Take(Upcoming)
      /\ Upcoming.kind = "Asterisk" /\ SetTop(call) /\ ReadTyped /\ CallsTyped
  BY DEF Asterisk, Asks, ParserInv
<1>2. /\ Opened = Len(frames) /\ Wanted = "more" /\ Open(Accepted, Opened, BuiltSoFar, Wanted, Top.operand)
      /\ BuiltSoFar[Len(frames)] = Top.expr
  BY <1>1, BuiltIs DEF ParserInv, ReadSoFar
<1>3. IsCall(Top)
  BY <1>1, BuiltIs DEF CallsTyped, Top, Last
<1>4. IsCall(call) /\ call.wants = "more" /\ call.expr = Pointer(Top.expr)
  BY <1>1, <1>3 DEF IsCall
<1> HIDE DEF call
<1>5. /\ \A k \in 1 .. Len(frames) - 1 : BuiltSoFar'[k] = BuiltSoFar[k]
      /\ BuiltSoFar'[Len(frames)] = Pointer(BuiltSoFar[Len(frames)])
  BY <1>1, <1>2, <1>4, BuiltIsNext
<1>6. Accepted \in Seq(Tokens(InputChars)) /\ Upcoming \in Tokens(InputChars)
  BY <1>1, AcceptedIs, TakesOn
<1> DEFINE t == Accepted
           token == Upcoming
           m == Len(frames)
           b == BuiltSoFar
           c == BuiltSoFar'
           o == Top.operand
           S == Tokens(InputChars)
<1>7. /\ t \in Seq(S) /\ token \in S /\ Open(t, m, b, "more", o) /\ token.kind = "Asterisk"
      /\ \A k \in 1 .. m - 1 : c[k] = b[k]
      /\ c[m] = Pointer(b[m])
  BY <1>1, <1>2, <1>5, <1>6
<1>8. Open(Append(t, token), m, c, "more", call.operand)
  <2> HIDE DEF t, token, m, b, c, o, S
  <2> QED
    BY <1>7, OpenPointed
<1>9. Upcoming # NoToken
  BY <1>1 DEF NoToken, Token
<1> QED
  BY <1>1, <1>4, <1>8, <1>9, GoesOn

LEMMA OpenSquareKeeps ==
  ASSUME ParserInv, OpenSquare
  PROVE  ParserInv'
<1> DEFINE call == [Top EXCEPT !.wants = "length"]
<1>1. /\ parsed = Running /\ Top.wants = "more" /\ UNCHANGED <<input, parsed>> /\ Take(Upcoming)
      /\ Upcoming.kind = "LSquare" /\ SetTop(call) /\ ReadTyped /\ CallsTyped
  BY DEF OpenSquare, Asks, ParserInv
<1>2. /\ Opened = Len(frames) /\ Wanted = "more" /\ Open(Accepted, Opened, BuiltSoFar, Wanted, Top.operand)
      /\ BuiltSoFar[Len(frames)] = Top.expr /\ Len(frames) \in Nat \ {0}
  BY <1>1, BuiltIs DEF ParserInv, ReadSoFar
<1>3. IsCall(Top)
  BY <1>1, BuiltIs DEF CallsTyped, Top, Last
<1>4. IsCall(call) /\ call.wants = "length" /\ call.expr = Top.expr
  BY <1>1, <1>3 DEF IsCall
<1> HIDE DEF call
<1>5. /\ \A k \in 1 .. Len(frames) - 1 : BuiltSoFar'[k] = BuiltSoFar[k]
      /\ BuiltSoFar'[Len(frames)] = BuiltSoFar[Len(frames)]
  BY <1>1, <1>2, <1>4, BuiltIsNext
<1>6. Accepted \in Seq(Tokens(InputChars)) /\ Upcoming \in Tokens(InputChars)
  BY <1>1, AcceptedIs, TakesOn
<1> DEFINE t == Accepted
           token == Upcoming
           m == Len(frames)
           b == BuiltSoFar
           c == BuiltSoFar'
           o == Top.operand
           S == Tokens(InputChars)
<1>7. /\ t \in Seq(S) /\ token \in S /\ Open(t, m, b, "more", o) /\ token.kind = "LSquare"
      /\ \A k \in 1 .. m : c[k] = b[k]
  <2>1. \A k \in 1 .. m : k = m \/ k \in 1 .. m - 1
    BY <1>2
  <2> QED
    BY <1>1, <1>2, <1>5, <1>6, <2>1
<1>8. Open(Append(t, token), m, c, "length", call.operand)
  <2> HIDE DEF t, token, m, b, c, o, S
  <2> QED
    BY <1>7, OpenSquared
<1>9. Upcoming # NoToken
  BY <1>1 DEF NoToken, Token
<1> QED
  BY <1>1, <1>4, <1>8, <1>9, GoesOn

LEMMA LengthKeeps ==
  ASSUME ParserInv, Length
  PROVE  ParserInv'
<1> DEFINE len == IF Upcoming.kind = "Lit" THEN Num(Upcoming.text) ELSE Ident(Upcoming.text)
           call == [Top EXCEPT !.wants = "RSquare", !.operand = len]
<1>1. parsed = Running /\ Top.wants = "length" /\ UNCHANGED input /\ Take(Upcoming) /\ ReadTyped /\ CallsTyped
  BY DEF Length, Asks, Expect, ParserInv
<1>2. /\ Opened = Len(frames) /\ Wanted = "length" /\ Open(Accepted, Opened, BuiltSoFar, Wanted, Top.operand)
      /\ BuiltSoFar[Len(frames)] = Top.expr /\ Len(frames) \in Nat \ {0}
  BY <1>1, BuiltIs DEF ParserInv, ReadSoFar
<1>3. CASE /\ Upcoming.kind \in {"Ident", "Lit"} /\ ~(Upcoming.kind = "Lit" /\ ~FitsUsize(Upcoming.text))
           /\ SetTop(call) /\ UNCHANGED parsed
  <2>1. IsCall(Top)
    BY <1>1, BuiltIs DEF CallsTyped, Top, Last
  <2>2. len \in Lengths(Upcoming)
    BY <1>3 DEF Lengths
  <2> HIDE DEF len
  <2>3. IsCall(call) /\ call.wants = "RSquare" /\ call.expr = Top.expr /\ call.operand = len
    BY <2>1 DEF IsCall
  <2> HIDE DEF call
  <2>4. /\ \A k \in 1 .. Len(frames) - 1 : BuiltSoFar'[k] = BuiltSoFar[k]
        /\ BuiltSoFar'[Len(frames)] = BuiltSoFar[Len(frames)]
    BY <1>1, <1>2, <1>3, <2>3, BuiltIsNext
  <2>5. Accepted \in Seq(Tokens(InputChars)) /\ Upcoming \in Tokens(InputChars)
    BY <1>1, AcceptedIs, TakesOn
  <2> DEFINE t == Accepted
             token == Upcoming
             m == Len(frames)
             b == BuiltSoFar
             c == BuiltSoFar'
             o == Top.operand
             S == Tokens(InputChars)
  <2>6. /\ t \in Seq(S) /\ token \in S /\ Open(t, m, b, "length", o) /\ len \in Lengths(token)
        /\ \A k \in 1 .. m : c[k] = b[k]
    <3>1. \A k \in 1 .. m : k = m \/ k \in 1 .. m - 1
      BY <1>2
    <3> QED
      BY <1>2, <2>2, <2>4, <2>5, <3>1
  <2>7. Open(Append(t, token), m, c, "RSquare", len)
    <3> HIDE DEF t, token, m, b, c, o, S
    <3> QED
      BY <2>6, OpenLength
  <2>8. Upcoming # NoToken
    BY <1>3 DEF NoToken, Token
  <2> QED
    BY <1>1, <1>3, <2>3, <2>7, <2>8, GoesOn
<1>4. CASE Upcoming.kind = "Lit" /\ ~FitsUsize(Upcoming.text) /\ Fail("UnexpectedToken")
  <2>1. Lengths(Upcoming) = {}
    BY <1>4 DEF Lengths
  <2>2. After(At(Opened - 1, Wanted), Upcoming) = Nowhere
    BY <1>2, <2>1, WrongIs
  <2> QED
    BY <1>1, <1>2, <1>4, <2>2, ExpectsWrong
<1>5. CASE \/ Upcoming = NoToken /\ Fail("UnexpectedEof")
           \/ Upcoming.kind = "unknown" /\ Fail("UnknownChar")
           \/ Upcoming.kind \notin {"Ident", "Lit", "none", "unknown"} /\ Fail("UnexpectedToken")
  <2>1. Upcoming.kind \notin {"Ident", "Lit"}
    BY <1>5 DEF NoToken, Token
  <2>2. Lengths(Upcoming) = {}
    BY <2>1 DEF Lengths
  <2>3. After(At(Opened - 1, Wanted), Upcoming) = Nowhere
    BY <1>2, <2>2, WrongIs
  <2> QED
    BY <1>1, <1>2, <1>5, <2>3, ExpectsWrong
<1>6. \/ Upcoming.kind \in {"Ident", "Lit"} /\ (IF Upcoming.kind = "Lit" /\ ~FitsUsize(Upcoming.text)
                                                THEN Fail("UnexpectedToken")
                                                ELSE SetTop(call) /\ UNCHANGED parsed)
      \/ Upcoming = NoToken /\ Fail("UnexpectedEof")
      \/ Upcoming.kind = "unknown" /\ Fail("UnknownChar")
      \/ Upcoming.kind \notin {"Ident", "Lit"} \union {"none", "unknown"} /\ Fail("UnexpectedToken")
  BY DEF Length, Expect
<1> HIDE DEF call, len
<1> QED
  BY <1>3, <1>4, <1>5, <1>6

LEMMA CloseSquareKeeps ==
  ASSUME ParserInv, CloseSquare
  PROVE  ParserInv'
<1> DEFINE call == [expr |-> Array(Top.expr, Top.operand), operand |-> NoExpr, wants |-> "more"]
<1>1. parsed = Running /\ Top.wants = "RSquare" /\ UNCHANGED input /\ Take(Upcoming) /\ ReadTyped /\ CallsTyped
  BY DEF CloseSquare, Asks, Expect, ParserInv
<1>2. /\ Opened = Len(frames) /\ Wanted = "RSquare" /\ Open(Accepted, Opened, BuiltSoFar, Wanted, Top.operand)
      /\ BuiltSoFar[Len(frames)] = Top.expr
  BY <1>1, BuiltIs DEF ParserInv, ReadSoFar
<1>3. CASE Upcoming.kind = "RSquare" /\ SetTop(call) /\ UNCHANGED parsed
  <2>1. IsCall(call) /\ call.wants = "more" /\ call.expr = Array(Top.expr, Top.operand)
    BY DEF IsCall
  <2> HIDE DEF call
  <2>2. /\ \A k \in 1 .. Len(frames) - 1 : BuiltSoFar'[k] = BuiltSoFar[k]
        /\ BuiltSoFar'[Len(frames)] = Array(BuiltSoFar[Len(frames)], Top.operand)
    BY <1>1, <1>2, <1>3, <2>1, BuiltIsNext
  <2>3. Accepted \in Seq(Tokens(InputChars)) /\ Upcoming \in Tokens(InputChars)
    BY <1>1, AcceptedIs, TakesOn
  <2> DEFINE t == Accepted
             token == Upcoming
             m == Len(frames)
             b == BuiltSoFar
             c == BuiltSoFar'
             o == Top.operand
             S == Tokens(InputChars)
  <2>4. /\ t \in Seq(S) /\ token \in S /\ Open(t, m, b, "RSquare", o) /\ token.kind = "RSquare"
        /\ \A k \in 1 .. m - 1 : c[k] = b[k]
        /\ c[m] = Array(b[m], o)
    BY <1>2, <1>3, <2>2, <2>3
  <2>5. Open(Append(t, token), m, c, "more", call.operand)
    <3> HIDE DEF t, token, m, b, c, o, S
    <3> QED
      BY <2>4, OpenMeasured
  <2>6. Upcoming # NoToken
    BY <1>3 DEF NoToken, Token
  <2> QED
    BY <1>1, <1>3, <2>1, <2>5, <2>6, GoesOn
<1>4. CASE ~(Upcoming.kind = "RSquare" /\ SetTop(call) /\ UNCHANGED parsed)
  <2>1. \/ Upcoming = NoToken /\ Fail("UnexpectedEof")
        \/ Upcoming.kind = "unknown" /\ Fail("UnknownChar")
        \/ Upcoming.kind \notin {"RSquare", "none", "unknown"} /\ Fail("UnexpectedToken")
    BY <1>4 DEF CloseSquare, Expect
  <2>2. Upcoming.kind # "RSquare"
    BY <2>1 DEF NoToken, Token
  <2>3. After(At(Opened - 1, Wanted), Upcoming) = Nowhere
    BY <1>2, <2>2, WrongIs
  <2> QED
    BY <1>1, <1>2, <2>1, <2>3, ExpectsWrong
<1> QED
  BY <1>3, <1>4

LEMMA CloseAngleKeeps ==
  ASSUME ParserInv, CloseAngle
  PROVE  ParserInv'
<1> DEFINE call == [expr |-> Template(Top.expr, Top.operand), operand |-> NoExpr, wants |-> "more"]
<1>1. parsed = Running /\ Top.wants = "RAngle" /\ UNCHANGED input /\ Take(Upcoming) /\ ReadTyped /\ CallsTyped
  BY DEF CloseAngle, Asks, Expect, ParserInv
<1>2. /\ Len(frames) \in Nat \ {0} /\ Opened = Len(frames) + 1 /\ Wanted = "more"
      /\ Open(Accepted, Opened, BuiltSoFar, Wanted, Top.operand)
      /\ BuiltSoFar[Len(frames)] = Top.expr /\ BuiltSoFar[Len(frames) + 1] = Top.operand
  BY <1>1, BuiltIs DEF ParserInv, ReadSoFar, Wanted
<1>3. CASE Upcoming.kind = "RAngle" /\ SetTop(call) /\ UNCHANGED parsed
  <2>1. IsCall(call) /\ call.wants = "more" /\ call.expr = Template(Top.expr, Top.operand)
    BY DEF IsCall
  <2> HIDE DEF call
  <2>2. /\ \A k \in 1 .. Len(frames) - 1 : BuiltSoFar'[k] = BuiltSoFar[k]
        /\ BuiltSoFar'[Len(frames)] = Template(BuiltSoFar[Len(frames)], BuiltSoFar[Len(frames) + 1])
    BY <1>1, <1>2, <1>3, <2>1, BuiltIsNext
  <2>3. Accepted \in Seq(Tokens(InputChars)) /\ Upcoming \in Tokens(InputChars)
    BY <1>1, AcceptedIs, TakesOn
  <2> DEFINE t == Accepted
             token == Upcoming
             n == Len(frames)
             b == BuiltSoFar
             c == BuiltSoFar'
             o == Top.operand
             S == Tokens(InputChars)
  <2>4. /\ t \in Seq(S) /\ token \in S /\ n \in Nat \ {0} /\ Open(t, n + 1, b, "more", o) /\ token.kind = "RAngle"
        /\ \A k \in 1 .. n - 1 : c[k] = b[k]
        /\ c[n] = Template(b[n], b[n + 1])
    BY <1>2, <1>3, <2>2, <2>3
  <2>5. Open(Append(t, token), n, c, "more", call.operand)
    <3> HIDE DEF t, token, n, b, c, o, S
    <3> QED
      BY <2>4, OpenArgued
  <2>6. Upcoming # NoToken
    BY <1>3 DEF NoToken, Token
  <2> QED
    BY <1>1, <1>3, <2>1, <2>5, <2>6, GoesOn
<1>4. CASE ~(Upcoming.kind = "RAngle" /\ SetTop(call) /\ UNCHANGED parsed)
  <2>1. \/ Upcoming = NoToken /\ Fail("UnexpectedEof")
        \/ Upcoming.kind = "unknown" /\ Fail("UnknownChar")
        \/ Upcoming.kind \notin {"RAngle", "none", "unknown"} /\ Fail("UnexpectedToken")
    BY <1>4 DEF CloseAngle, Expect
  <2>2. Upcoming.kind # "RAngle" /\ NoToken.kind = "none"
    BY <2>1 DEF NoToken, Token
  <2>3. Upcoming = NoToken \/ Upcoming.kind \in {"RAngle", "RSquare"}
    BY <1>1 DEF ParserInv, ReadSoFar, ReadTyped, Upcoming
  <2>4. Upcoming.kind \notin {"Asterisk", "LAngle", "RAngle", "LSquare"}
    BY <2>2, <2>3
  <2>5. After(At(Opened - 1, Wanted), Upcoming) = Nowhere
    BY <1>2, <2>4, WrongIs
  <2>6. Opened # 1
    BY <1>2
  <2> QED
    BY <1>1, <2>1, <2>5, <2>6, ExpectsWrong
<1> QED
  BY <1>3, <1>4

LEMMA UnexpectedKeeps ==
  ASSUME ParserInv, Unexpected
  PROVE  ParserInv'
<1>1. /\ parsed = Running /\ Top.wants = "more" /\ UNCHANGED input /\ Take(Upcoming) /\ CallsTyped
      /\ \/ Upcoming.kind \in {"Ident", "Lit"} /\ Fail("UnexpectedToken")
         \/ Upcoming.kind = "unknown" /\ Fail("UnknownChar")
  BY DEF Unexpected, Asks, ParserInv
<1>2. Wanted = "more"
  BY <1>1 DEF Wanted
<1>3. Upcoming # NoToken /\ After(At(Opened - 1, Wanted), Upcoming) = Nowhere
  <2>1. Upcoming.kind \notin {"Asterisk", "LAngle", "RAngle", "LSquare"} /\ Upcoming # NoToken
    BY <1>1 DEF NoToken, Token
  <2> QED
    BY <1>2, <2>1, WrongIs
<1>4. CASE Upcoming.kind \in {"Ident", "Lit"} /\ Fail("UnexpectedToken")
  <2>1. ("UnexpectedToken" = "UnknownChar") = (Upcoming.kind = "unknown")
    BY <1>4
  <2> QED
    BY <1>1, <1>3, <1>4, <2>1, Rejects
<1>5. CASE Upcoming.kind = "unknown" /\ Fail("UnknownChar")
  <2>1. ("UnknownChar" = "UnknownChar") = (Upcoming.kind = "unknown")
    BY <1>5
  <2> QED
    BY <1>1, <1>3, <1>5, <2>1, Rejects
<1> QED
  BY <1>1, <1>4, <1>5

LEMMA OpenAngleKeeps ==
  ASSUME ParserInv, OpenAngle
  PROVE  ParserInv'
<1>1. /\ parsed = Running /\ Top.wants = "more" /\ UNCHANGED <<input, parsed>> /\ Take(Upcoming)
      /\ Upcoming.kind = "LAngle" /\ frames' = Append(frames, Call) /\ ReadTyped /\ CallsTyped
  BY DEF OpenAngle, Asks, ParserInv
<1>2. /\ Opened = Len(frames) /\ Wanted = "more" /\ Open(Accepted, Opened, BuiltSoFar, Wanted, Top.operand)
      /\ Len(frames) \in Nat \ {0}
      /\ \A k \in 1 .. Len(frames) : BuiltSoFar[k] = frames[k].expr
  BY <1>1, BuiltIs DEF ParserInv, ReadSoFar
<1>3. Upcoming # NoToken
  BY <1>1 DEF NoToken, Token
<1>4. /\ prev_token' = NoToken /\ ReadTyped' /\ Accepted' = Append(Accepted, Upcoming)
      /\ Upcoming \in Tokens(InputChars) /\ Accepted \in Seq(Tokens(InputChars))
  BY <1>1, <1>3, AcceptedIs, TakesOn
<1>5. /\ IsList(frames') /\ Len(frames') = Len(frames) + 1
      /\ \A k \in 1 .. Len(frames) : frames'[k] = frames[k]
      /\ frames'[Len(frames) + 1] = Call
  BY <1>1, ListAppended DEF CallsTyped
<1>6. IsCall(Call) /\ Call.wants = "Ident" /\ Top' = Call
  BY <1>5 DEF Call, IsCall, Top, Last
<1>7. CallsTyped'
  <2>1. \A k \in 1 .. Len(frames) : IsCall(frames[k])
    BY <1>1 DEF CallsTyped
  <2>2. \A k \in 1 .. Len(frames) + 1 : k = Len(frames) + 1 \/ k \in 1 .. Len(frames)
    BY <1>2
  <2>3. \A k \in 1 .. Len(frames') : IsCall(frames'[k])
    BY <1>5, <1>6, <2>1, <2>2
  <2>4. Len(frames') > 0
    BY <1>2, <1>5
  <2> QED
    BY <1>5, <1>6, <2>3, <2>4 DEF CallsTyped
<1>8. Opened' = Len(frames) + 1 /\ Wanted' = "Ident"
  BY <1>5, <1>6 DEF Opened, Wanted
<1>9. \A k \in 1 .. Len(frames) : BuiltSoFar'[k] = BuiltSoFar[k]
  BY <1>2, <1>5 DEF BuiltSoFar
<1> DEFINE t == Accepted
           token == Upcoming
           m == Len(frames)
           b == BuiltSoFar
           c == BuiltSoFar'
           o == Top.operand
           S == Tokens(InputChars)
           p == Top'.operand
<1>10. t \in Seq(S) /\ token \in S /\ Open(t, m, b, "more", o) /\ token.kind = "LAngle" /\ \A k \in 1 .. m : c[k] = b[k]
  BY <1>1, <1>2, <1>4, <1>9
<1>11. Open(Append(t, token), m + 1, c, "Ident", p)
  <2> HIDE DEF t, token, m, b, c, o, S, p
  <2> QED
    BY <1>10, OpenAngled
<1>12. Open(Accepted', Opened', BuiltSoFar', Wanted', Top'.operand)
  BY <1>4, <1>8, <1>11
<1>13. ReadSoFar'
  BY <1>4, <1>6, <1>12 DEF ReadSoFar
<1>14. parsed'.is = "running"
  BY <1>1 DEF Running
<1> QED
  BY <1>4, <1>7, <1>13, <1>14 DEF ParserInv, ParsedAsWritten, RejectsFirstWrong, RejectedForGood

\* A call that returns: the outermost one with what was read, an inner one to
\* its caller.
LEMMA Returns ==
  ASSUME ParserInv, parsed = Running, Top.wants = "more", UNCHANGED input, Return, ReadTyped',
         Accepted' = Accepted, taken' = Accepted \o GivenBack', prev_token' = NoToken => NextToken'.token = NoToken
  PROVE  ParserInv'
<1>1. ReadTyped /\ CallsTyped
  BY DEF ParserInv
<1>2. /\ Opened = Len(frames) /\ Wanted = "more" /\ Open(Accepted, Opened, BuiltSoFar, Wanted, Top.operand)
      /\ Len(frames) \in Nat \ {0} /\ BuiltSoFar[Len(frames)] = Top.expr
      /\ \A k \in 1 .. Len(frames) : BuiltSoFar[k] = frames[k].expr
  BY <1>1, BuiltIs DEF ParserInv, ReadSoFar
<1>3. Accepted \in Seq(Tokens(InputChars))
  BY <1>1, AcceptedIs
<1>4. CASE Len(frames) = 1
  <2>1. parsed' = [is |-> "ok", expr |-> Top.expr] /\ frames' = frames
    BY <1>4 DEF Return, Ok
  <2>2. Top.expr \in Types(Accepted)
    <3> DEFINE t == Accepted
               b == BuiltSoFar
               o == Top.operand
               S == Tokens(InputChars)
    <3>1. t \in Seq(S) /\ Open(t, 1, b, "more", o)
      BY <1>2, <1>3, <1>4
    <3>2. b[1] \in Types(t)
      <4> HIDE DEF t, b, o, S
      <4> QED
        BY <3>1, OpenIsType
    <3> QED
      BY <1>2, <1>4, <3>2
  <2>3. ParsedAsWritten'
    BY <2>1, <2>2 DEF ParsedAsWritten
  <2>4. CallsTyped'
    BY <1>1, <2>1 DEF CallsTyped, Top
  <2> QED
    BY <2>1, <2>3, <2>4 DEF ParserInv, ReadSoFar, Running, RejectsFirstWrong, RejectedForGood
<1>5. CASE Len(frames) # 1
  <2>1. PICK n \in Nat \ {0} : Len(frames) = n + 1 /\ Len(frames) - 1 = n
    <3>1. Len(frames) - 1 \in Nat \ {0} /\ Len(frames) = (Len(frames) - 1) + 1
      BY <1>2, <1>5
    <3> QED
      BY <3>1
  <2> DEFINE call == [frames[n] EXCEPT !.operand = Top.expr, !.wants = "RAngle"]
             S == {frames[k] : k \in DOMAIN frames} \union {call}
  <2>2. frames' = [i \in 1 .. n |-> IF i = n THEN call ELSE frames[i]] /\ parsed' = parsed
    BY <1>5, <2>1 DEF Return
  <2>3. IsCall(call) /\ call.operand = Top.expr /\ call.wants = "RAngle" /\ call.expr = frames[n].expr
    <3>1. IsCall(frames[n])
      BY <1>1, <2>1 DEF CallsTyped
    <3> QED
      BY <3>1 DEF IsCall
  <2>4. DOMAIN frames = 1 .. n + 1 /\ \A k \in 1 .. n : k \in 1 .. n + 1
    BY <1>1, <2>1, ListIs DEF CallsTyped
  <2>5. frames' \in [1 .. n -> S]
    BY <2>2, <2>4
  <2> HIDE DEF call, S
  <2>6. IsList(frames') /\ Len(frames') = n
    BY <2>5, ListMade
  <2>7. frames'[n] = call /\ \A k \in 1 .. n : k = n \/ frames'[k] = frames[k]
    BY <2>2
  <2>8. Top' = call
    BY <2>6, <2>7 DEF Top, Last
  <2>9. CallsTyped'
    <3>1. \A k \in 1 .. n : IsCall(frames[k])
      BY <1>1, <2>1, <2>4 DEF CallsTyped
    <3>2. \A k \in 1 .. n : IsCall(frames'[k])
      BY <2>3, <2>7, <3>1
    <3> QED
      BY <2>3, <2>6, <2>8, <3>2 DEF CallsTyped
  <2>10. Opened' = n + 1 /\ Wanted' = "more"
    BY <2>3, <2>6, <2>8 DEF Opened, Wanted
  <2>11. \A k \in 1 .. n + 1 : BuiltSoFar'[k] = BuiltSoFar[k]
    <3>1. \A k \in Nat : BuiltSoFar'[k] = IF k <= n THEN frames'[k].expr ELSE Top.expr
      BY <2>3, <2>6, <2>8 DEF BuiltSoFar
    <3>2. \A k \in 1 .. n : BuiltSoFar'[k] = frames[k].expr
      BY <2>3, <2>7, <3>1
    <3>3. \A k \in 1 .. n + 1 : k = n + 1 \/ k \in 1 .. n
      OBVIOUS
    <3>4. BuiltSoFar'[n + 1] = Top.expr
      BY <3>1
    <3> QED
      BY <1>2, <2>1, <3>2, <3>3, <3>4
  <2>12. Open(Accepted', Opened', BuiltSoFar', Wanted', Top'.operand)
    <3> DEFINE t == Accepted
               m == n + 1
               b == BuiltSoFar
               o == Top.operand
               c == BuiltSoFar'
               p == Top'.operand
    <3>1. Open(t, m, b, "more", o) /\ \A k \in 1 .. m : c[k] = b[k]
      BY <1>2, <2>1, <2>11
    <3>2. Open(t, m, c, "more", p)
      <4> HIDE DEF t, m, b, o, c, p
      <4> QED
        BY <3>1, OpenSame
    <3> QED
      BY <2>10, <3>2
  <2>13. ReadSoFar'
    BY <2>3, <2>8, <2>12 DEF ReadSoFar
  <2>14. parsed'.is = "running"
    BY <2>2 DEF Running
  <2> QED
    BY <2>9, <2>13, <2>14 DEF ParserInv, ParsedAsWritten, RejectsFirstWrong, RejectedForGood
<1> QED
  BY <1>4, <1>5

LEMMA EndOfInputKeeps ==
  ASSUME ParserInv, EndOfInput
  PROVE  ParserInv'
<1>1. /\ parsed = Running /\ Top.wants = "more" /\ UNCHANGED input /\ Take(NoToken) /\ Return /\ ReadTyped
      /\ prev_token = NoToken
  BY DEF EndOfInput, Asks, ParserInv, ReadSoFar
<1>2. Upcoming = NoToken
  BY <1>1 DEF Take, Upcoming
<1>3. /\ prev_token' = NoToken /\ ReadTyped' /\ Accepted' = taken' /\ taken' = taken /\ Accepted = taken
      /\ NextToken'.token = NoToken
  BY <1>1, <1>2, TakesOn
<1>4. taken' = Accepted \o GivenBack'
  <2>1. GivenBack' = <<>>
    BY <1>3 DEF GivenBack
  <2>2. Accepted \o <<>> = Accepted
    BY <1>1, AcceptedIs, ConcatEmptySeq
  <2> QED
    BY <1>3, <2>1, <2>2
<1> QED
  BY <1>1, <1>3, <1>4, Returns

LEMMA GiveBackKeeps ==
  ASSUME ParserInv, GiveBack
  PROVE  ParserInv'
<1>1. /\ parsed = Running /\ Top.wants = "more" /\ UNCHANGED input /\ prev_token = NoToken
      /\ NextToken.token.kind \in {"RAngle", "RSquare"} /\ offset' = NextToken.end
      /\ taken' = Append(taken, NextToken.token) /\ prev_token' = NextToken.token /\ Return /\ ReadTyped
  BY DEF GiveBack, Asks, ParserInv
<1> DEFINE token == NextToken.token
           S == Tokens(InputChars)
<1>2. token \in S /\ NextToken.end \in 1 .. Len(input) + 1 /\ taken \in Seq(S) /\ Accepted = taken
  BY <1>1, NextTokenIs, AcceptedIs DEF ReadTyped
<1>3. token # NoToken
  BY <1>1 DEF NoToken, Token
<1>4. InputChars' = InputChars
  BY <1>1 DEF InputChars
<1>5. input \in Seq(InputChars)
  BY <1>1 DEF ReadTyped
<1> HIDE DEF token, S
<1>6. taken' = Append(taken, token) /\ prev_token' = token
  BY <1>1 DEF token
<1>7. Append(taken, token) \in Seq(S) /\ Append(taken, token) = taken \o <<token>> /\ Append(taken, token) # <<>>
  <2>1. Len(Append(taken, token)) = Len(taken) + 1 /\ Append(taken, token) \in Seq(S) /\ Len(taken) \in Nat
    BY <1>2, AppendProperties, LenProperties
  <2>2. Len(<<>>) = 0
    BY EmptySeq
  <2>3. Append(taken, token) # <<>>
    BY <2>1, <2>2
  <2> QED
    BY <1>2, <2>1, <2>3, AppendIsConcat
<1>8. Front(Append(taken, token)) = taken /\ Last(Append(taken, token)) = token
  BY <1>2, FrontLastAppended
<1>9. ReadTyped'
  <2>1. Last(taken') = prev_token' /\ taken' # <<>> /\ prev_token'.kind \in {"RAngle", "RSquare"}
    BY <1>1, <1>6, <1>7, <1>8
  <2>2. taken' \in Seq(S)
    BY <1>6, <1>7
  <2>3. input' = input /\ offset' \in 1 .. Len(input) + 1
    BY <1>1, <1>2
  <2> QED
    BY <1>4, <1>5, <2>1, <2>2, <2>3 DEF ReadTyped, S, Tokens
<1>10. Accepted' = Accepted /\ taken' = Accepted \o GivenBack'
  BY <1>2, <1>3, <1>6, <1>7, <1>8 DEF Accepted, GivenBack
<1> QED
  BY <1>1, <1>3, <1>6, <1>9, <1>10, Returns

\* Only the input is there at the start.
LEMMA ParserStarts ==
  ASSUME VarTypesInit
  PROVE  ParserInv
<1>1. /\ input \in Inputs /\ offset = 1 /\ prev_token = NoToken /\ frames = <<Call>> /\ parsed = Running /\ taken = <<>>
  BY DEF VarTypesInit
<1>2. input \in Seq(InputChars) /\ Len(input) \in Nat
  <2>1. input \in Seq(InputChars)
    BY <1>1, VarTypesAssumption DEF InputChars
  <2> QED
    BY <2>1, LenProperties
<1>3. ReadTyped
  BY <1>1, <1>2, EmptySeq DEF ReadTyped
<1>4. /\ frames \in [1 .. 1 -> {Call}] /\ frames[1] = Call
  BY <1>1
<1>5. IsList(frames) /\ Len(frames) = 1
  BY <1>4, ListMade
<1>6. Top = Call /\ IsCall(Call) /\ Call.wants = "Ident"
  BY <1>4, <1>5 DEF Top, Last, Call, IsCall
<1>7. CallsTyped
  BY <1>4, <1>5, <1>6 DEF CallsTyped
<1>8. Opened = 1 /\ Wanted = "Ident" /\ Accepted = <<>>
  BY <1>1, <1>5, <1>6 DEF Opened, Wanted, Accepted
<1>9. Open(Accepted, Opened, BuiltSoFar, Wanted, Top.operand)
  BY <1>8, OpenNothing
<1>10. ReadSoFar
  BY <1>1, <1>6, <1>9 DEF ReadSoFar
<1>11. parsed.is = "running"
  BY <1>1 DEF Running
<1> QED
  BY <1>3, <1>7, <1>10, <1>11 DEF ParserInv, ParsedAsWritten, RejectsFirstWrong, RejectedForGood

\* Every step keeps it.
LEMMA ParserKeeps ==
  ASSUME ParserInv, [VarTypesNext]_varTypeVars
  PROVE  ParserInv'
<1>1. CASE UNCHANGED varTypeVars
  <2>1. /\ input' = input /\ offset' = offset /\ prev_token' = prev_token /\ frames' = frames
        /\ parsed' = parsed /\ taken' = taken
    BY <1>1 DEF varTypeVars
  <2>2. InputChars' = InputChars /\ Top' = Top /\ Accepted' = Accepted /\ GivenBack' = GivenBack
    BY <2>1 DEF InputChars, Top, Accepted, GivenBack
  <2>3. Opened' = Opened /\ BuiltSoFar' = BuiltSoFar /\ Wanted' = Wanted
    BY <2>1, <2>2 DEF Opened, BuiltSoFar, Wanted
  <2>4. NextToken' = NextToken
    BY <2>1 DEF NextToken, EatWhile
  <2>5. ReadTyped' /\ CallsTyped'
    BY <2>1, <2>2 DEF ParserInv, ReadTyped, CallsTyped
  <2>6. ReadSoFar'
    BY <2>1, <2>2, <2>3, <2>4 DEF ParserInv, ReadSoFar
  <2>7. ParsedAsWritten'
    BY <2>1, <2>2, <2>4 DEF ParserInv, ParsedAsWritten
  <2>8. RejectsFirstWrong' /\ RejectedForGood'
    BY <2>1, <2>2, <2>4 DEF ParserInv, RejectsFirstWrong, RejectedForGood
  <2> QED
    BY <2>5, <2>6, <2>7, <2>8 DEF ParserInv
<1>2. CASE VarTypesNext
  BY <1>2, FirstKeeps, EndOfInputKeeps, GiveBackKeeps, OpenAngleKeeps, OpenSquareKeeps, AsteriskKeeps,
    UnexpectedKeeps, LengthKeeps, CloseSquareKeeps, CloseAngleKeeps DEF VarTypesNext
<1> QED
  BY <1>1, <1>2

(* The parser of type names keeps the invariant, for all names, all classes of *)
(* characters and every width of usize (tokenizer.rs:98-130, parser.rs:47-111). *)
THEOREM ParserInvariant == VarTypesSpec => []ParserInv
<1>1. VarTypesInit => ParserInv
  BY ParserStarts
<1>2. ParserInv /\ [VarTypesNext]_varTypeVars => ParserInv'
  BY ParserKeeps
<1> QED
  BY <1>1, <1>2, PTL DEF VarTypesSpec

(* Every type that is parsed, however deep its templates, is what the grammar  *)
(* gives the tokens that were read; unread is at most a closing token that     *)
(* belongs to nothing, and what follows it (parser.rs:59-108).                 *)
THEOREM TypesParsedAsWritten == VarTypesSpec => []ParsedAsWritten
<1>1. ParserInv => ParsedAsWritten
  BY DEF ParserInv
<1> QED
  BY <1>1, ParserInvariant, PTL

(* A name is rejected at the first token at which no type goes on that way,    *)
(* and its end is called unexpected only where a type has begun that is none   *)
(* yet (parser.rs:47-57).                                                      *)
THEOREM TypesRejectFirstWrong == VarTypesSpec => []RejectsFirstWrong
<1>1. ParserInv => RejectsFirstWrong
  BY DEF ParserInv
<1> QED
  BY <1>1, ParserInvariant, PTL

(* Nothing that could have followed the rejected tokens would have made them   *)
(* a type: no name is rejected that the grammar has (parser.rs:47-57).         *)
THEOREM TypesRejectedForGood == VarTypesSpec => []RejectedForGood
<1>1. ParserInv => RejectedForGood
  BY DEF ParserInv
<1> QED
  BY <1>1, ParserInvariant, PTL
=============================================================================
