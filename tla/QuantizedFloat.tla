--------------------------- MODULE QuantizedFloat ---------------------------
(***************************************************************************)
(* Floats of a few bits: crates/haste_core/src/quantizedfloat.rs, as        *)
(* operators.                                                              *)
(*                                                                         *)
(* A number is an integer that counts units; there are Scale(bits) units to *)
(* one half, so that everything that is computed here in exact arithmetic   *)
(* is a whole number of them.  Rounding of f32 shows where the code depends *)
(* on it: a product that is a whole number may be cut off to the one below  *)
(* (Quantize), and what should be equal may differ (NewQuantized).          *)
(***************************************************************************)
LOCAL INSTANCE Integers

Steps(bits) == 2 ^ bits
Scale(bits) == Steps(bits) * (Steps(bits) - 1)

\* QFE_ROUNDDOWN, QFE_ROUNDUP, QFE_ENCODE_ZERO_EXACTLY, QFE_ENCODE_INTEGERS_EXACTLY
EncodeFlags == {"down", "up", "zero", "integers"}

\* compute_encode_flags: the flags of a range that may or may not touch zero.
DiscardZero(efs, low, high) ==
  IF (low = 0 /\ "down" \in efs) \/ (high = 0 /\ "up" \in efs) THEN efs \ {"zero"} ELSE efs

ZeroAtEnd(efs, end, flag) ==
  IF end = 0 /\ "zero" \in efs THEN (efs \union {flag}) \ {"zero"} ELSE efs

ComputeEncodeFlags(flags, low, high) ==
  LET discarded == DiscardZero(flags, low, high)
      switched  == ZeroAtEnd(ZeroAtEnd(discarded, low, "down"), high, "up")
      spanning  == IF low < 0 /\ high > 0 THEN switched ELSE switched \ {"zero"}
  IN  IF "integers" \in spanning THEN {"integers"} ELSE spanning

ContradictoryFlags(flags, low, high) ==
  {"down", "up"} \subseteq ComputeEncodeFlags(flags, low, high)

\* The bits of a count, num_bits_for_count.
NumBitsForCount(n) == CHOOSE k \in 0 .. n + 1 : 2 ^ k > n /\ \A j \in 0 .. k - 1 : 2 ^ j <= n

\* x as i32, for x in units: towards zero.
Truncated(x, one) == IF x >= 0 THEN x \div one ELSE -((-x) \div one)

\* Mutant of Ends: rounding up moves the low end out of the range.
EndsOutside(efs, bits, low, high) ==
  [low  |-> IF "up" \in efs THEN low - (high - low) \div Steps(bits) ELSE low, high |-> high]

\* The two ends between which the steps lie, once the flags are known.
Ends(efs, bits, low, high) ==
  LET offset == (high - low) \div Steps(bits)
      one    == 2 * Scale(bits)
      delta  == Truncated(low, one) - Truncated(high, one)
      range  == 2 ^ NumBitsForCount(IF delta > 1 THEN delta ELSE 1)
  IN  IF "integers" \in efs
      THEN [low |-> low, high |-> low + range * one - (range * one) \div Steps(bits)]
      ELSE [low  |-> IF "down" \notin efs /\ "up" \in efs THEN low + offset ELSE low,
            high |-> IF "down" \in efs THEN high - offset ELSE high]

\* Mutant of Quantize: every value is its own step.
QuantizeNothing(value, bits, ends) == {value}

\* quantize: what a value may be quantized to.  The multiplier is computed
\* with rounding, and made smaller when it is too large.
Quantize(value, bits, ends) ==
  LET top     == Steps(bits) - 1
      range   == ends.high - ends.low
      product == (value - ends.low) * top
      exact   == product \div range
      whole   == product % range = 0
      step(i) == ends.low + (range * i) \div top
  IN  IF value < ends.low \/ range = 0 THEN {ends.low}
      ELSE IF value > ends.high THEN {ends.high}
      ELSE {step(exact)} \union IF whole /\ exact > 0 THEN {step(exact - 1)} ELSE {}

\* QuantizedFloat::new, for a valid combination of flags: every set of flags
\* that may be left once those were removed that are not necessary.
NewQuantized(flags, bits, low, high) ==
  LET efs  == ComputeEncodeFlags(flags, low, high)
      ends == Ends(efs, bits, low, high)
      Removable(flag, value) == flag \in efs /\ value \in Quantize(value, bits, ends)
      must == IF "down" \in efs THEN {"down"} ELSE {}
      may  == {flag \in {"up", "zero"} :
                 Removable(flag, IF flag = "up" THEN ends.high ELSE 0)}
  IN  {[bits |-> bits, flags |-> efs \ (must \union removed), low |-> ends.low, high |-> ends.high] :
         removed \in SUBSET may}

\* decode: the exact value that a flag stands for, or a step of the range.
DecodeExact(qf, flag) ==
  CASE flag = "down" -> qf.low [] flag = "up" -> qf.high [] flag = "zero" -> 0
DecodeStep(qf, v) == qf.low + ((qf.high - qf.low) * v) \div (Steps(qf.bits) - 1)
Decodable(qf) ==
  {DecodeExact(qf, flag) : flag \in qf.flags \ {"integers"}}
    \union {DecodeStep(qf, v) : v \in 0 .. Steps(qf.bits) - 1}
=============================================================================
