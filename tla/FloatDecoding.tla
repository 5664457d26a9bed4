--------------------------- MODULE FloatDecoding ----------------------------
(***************************************************************************)
(* A field with a quantized float is announced with its flags and range,    *)
(* its decoder is built, and values are read with it                        *)
(* (crates/haste_core/src/fielddecoder.rs:209-234).                         *)
(***************************************************************************)
EXTENDS Integers, QuantizedFloat

CONSTANTS
  BitCounts,  \* numbers of bits
  Halves      \* the ends of ranges, as numbers of halves

\* Floats of no bits are not quantized (fielddecoder.rs:275).
ASSUME FloatAssumption == BitCounts \subseteq Nat \ {0} /\ Halves \subseteq Int

VARIABLES
  asked,      \* what the field's proto says
  quantized,  \* the decoder, or that it could not be built
  value       \* the last value that was read

floatVars == <<asked, quantized, value>>

Nothing == [is |-> "nothing"]
Read(x) == [is |-> "read", x |-> x]

FloatInit == asked = Nothing /\ quantized = Nothing /\ value = Nothing

Announce ==
  /\ asked = Nothing
  /\ \E bits \in BitCounts, flags \in SUBSET EncodeFlags, low \in Halves, high \in Halves :
       /\ low <= high
       /\ asked' = [is |-> "asked", bits |-> bits, flags |-> flags,
                    low |-> low * Scale(bits), high |-> high * Scale(bits)]
  /\ UNCHANGED <<quantized, value>>

Construct ==
  /\ asked # Nothing /\ quantized = Nothing
  /\ IF ContradictoryFlags(asked.flags, asked.low, asked.high)
     THEN quantized' = [is |-> "error"]
     ELSE \E qf \in NewQuantized(asked.flags, asked.bits, asked.low, asked.high) :
            quantized' = [is |-> "built", qf |-> qf]
  /\ UNCHANGED <<asked, value>>

DecodeValue ==
  /\ quantized.is = "built"
  /\ \E x \in Decodable(quantized.qf) : value' = Read(x)
  /\ UNCHANGED <<asked, quantized>>

FloatNext == Announce \/ Construct \/ DecodeValue

FloatSpec == FloatInit /\ [][FloatNext]_floatVars

-----------------------------------------------------------------------------
One == 2 * Scale(asked.bits)
CanRead(x) == x \in Decodable(quantized.qf)

(* Whatever the flags, what is read lies in the range that was asked for;    *)
(* with the flag for integers the range is replaced, and begins where the   *)
(* one that was asked for begins (quantizedfloat.rs:164-227, 241-257).      *)
ReadsInRange ==
  value.is = "read" =>
    /\ asked.low <= value.x
    /\ "integers" \notin asked.flags => value.x <= asked.high

(* Rounding down and up keep the end that they are named for exact, the flag  *)
(* for zero lets zero be read exactly out of a range around it, however the  *)
(* flags were combined, and whichever of them were found unnecessary.  With  *)
(* the flag for integers the whole steps from the low end on are read       *)
(* exactly, of which there are two, since the range is computed from low    *)
(* less high (quantizedfloat.rs:195, 216-227).                              *)
ExactValuesKept ==
  quantized.is = "built" =>
    IF "integers" \in asked.flags
    THEN CanRead(asked.low) /\ CanRead(asked.low + One)
    ELSE /\ "down" \in asked.flags => CanRead(asked.low)
         /\ "up" \in asked.flags => CanRead(asked.high)
         /\ ("zero" \in asked.flags /\ asked.low <= 0 /\ asked.high >= 0) => CanRead(0)
=============================================================================
