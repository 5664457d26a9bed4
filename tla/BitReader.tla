------------------------------ MODULE BitReader -------------------------------
(***************************************************************************)
(* The bits of a message: the encodings of numbers, coordinates and strings, *)
(* read one after the other without a look at where the data ends, and the  *)
(* check that follows when everything was read                              *)
(* (crates/haste_core/src/bitreader.rs).                                    *)
(*                                                                         *)
(* A number is the set of its bits that are one.  A coordinate is a number  *)
(* of 1/32, a component of a normal one of 1/2047, an angle one of 360/2^20.  *)
(* Memory behind the data, which reads that are out of bounds return, has   *)
(* some ones, then zeros.                                                   *)
(***************************************************************************)
EXTENDS Integers, Sequences, FiniteSetsExt

CONSTANTS
  Samples,        \* what may be sent: [kind, value]
  MaxReads,       \* bounds the values of a message
  Behind,         \* numbers of ones behind the data
  StringBufSize   \* buf.len()

VARIABLES
  message, written,   \* the values that are sent, and their bits
  available,          \* the bits of the data that is there
  behind,
  position, got,      \* where the reader is, and the values that it has read
  outcome

bitVars == <<message, written, available, behind, position, got, outcome>>

ShiftLeft(x, n)  == {i + n : i \in x}
ShiftRight(x, n) == {i - n : i \in x \ 0 .. n - 1}

\* The number whose first n bits are those of x.
NumberOf(x, n) ==
  LET sum[k \in 0 .. n] ==
        IF k = 0 THEN 0 ELSE sum[k - 1] + (IF k - 1 \in x THEN 2 ^ (k - 1) ELSE 0)
  IN  sum[n]

-----------------------------------------------------------------------------
(* Reading at a position: what is read, where it ends, and for a string     *)
(* whether the buffer took it.                                             *)

Result(value, end) == [value |-> value, end |-> end, fits |-> TRUE]

Bit(p) == IF p < available THEN p < Len(written) /\ written[p + 1]
          ELSE p < available + behind
Ubit64(p, n) == {i \in 0 .. n - 1 : Bit(p + i)}
Fixed(p, n) == Result(Ubit64(p, n), p + n)

\* Mutant of MoreBits: the two flags are taken for each other.
MoreBitsSwapped(ret) ==
  CASE ret \cap {4, 5} = {}  -> 0 [] ret \cap {4, 5} = {5}    -> 4
    [] ret \cap {4, 5} = {4} -> 8 [] ret \cap {4, 5} = {4, 5} -> 28

MoreBits(ret) ==
  CASE ret \cap {4, 5} = {}  -> 0 [] ret \cap {4, 5} = {4}    -> 4
    [] ret \cap {4, 5} = {5} -> 8 [] ret \cap {4, 5} = {4, 5} -> 28

Ubitvar(p) ==
  LET ret  == Ubit64(p, 6)
      more == MoreBits(ret)
  IN  Result((ret \cap 0 .. 3) \union ShiftLeft(Ubit64(p + 6, more), 4), p + 6 + more)

UbitvarfpBits == <<2, 4, 10, 17, 31>>
Ubitvarfp(p) ==
  LET flags == {k \in 1 .. 4 : Bit(p + k - 1)}
      class == Min(flags \union {5})
      start == p + Min({class, 4})
  IN  Fixed(start, UbitvarfpBits[class])

\* Groups of seven bits, as many as the number needs at most, and what does not
\* fit into its width is lost.
Groups(width) == (width + 6) \div 7
Uvarint(p, width) ==
  LET group(k) == Ubit64(p + 8 * k, 7)
      last == Min({k \in 0 .. Groups(width) - 1 :
                     k = Groups(width) - 1 \/ ~Bit(p + 8 * k + 7)})
  IN  Result((0 .. width - 1) \cap UNION {ShiftLeft(group(k), 7 * k) : k \in 0 .. last},
             p + 8 * (last + 1))

Varint(p, width) ==
  LET u == Uvarint(p, width)
      half == ShiftRight(u.value, 1)
  IN  Result(IF 0 \in u.value THEN (0 .. width - 1) \ half ELSE half, u.end)

Signed(negative, v) == IF negative THEN -v ELSE v

Bitcoord(p) ==
  LET has_intval == Bit(p)  has_fractval == Bit(p + 1)  signbit == Bit(p + 2)
      intval   == IF has_intval THEN NumberOf(Ubit64(p + 3, 14), 14) + 1 ELSE 0
      rest     == p + 3 + IF has_intval THEN 14 ELSE 0
      fractval == IF has_fractval THEN NumberOf(Ubit64(rest, 5), 5) ELSE 0
  IN  IF has_intval \/ has_fractval
      THEN Result(Signed(signbit, 32 * intval + fractval), rest + IF has_fractval THEN 5 ELSE 0)
      ELSE Result(0, p + 2)

Bitnormal(p) == Result(Signed(Bit(p), NumberOf(Ubit64(p + 1, 11), 11)), p + 12)

Vec3coord(p) ==
  LET x == IF Bit(p)     THEN Bitcoord(p + 3) ELSE Result(0, p + 3)
      y == IF Bit(p + 1) THEN Bitcoord(x.end) ELSE Result(0, x.end)
      z == IF Bit(p + 2) THEN Bitcoord(y.end) ELSE Result(0, y.end)
  IN  Result(<<x.value, y.value, z.value>>, z.end)

\* The third component: its sign, and what its square lacks to one.
Third(x, y, negative) ==
  [square |-> Max({0, 2047 * 2047 - x * x - y * y}), negative |-> negative]
Vec3normal(p) ==
  LET x == IF Bit(p)     THEN Bitnormal(p + 2) ELSE Result(0, p + 2)
      y == IF Bit(p + 1) THEN Bitnormal(x.end) ELSE Result(0, x.end)
  IN  Result(<<x.value, y.value, Third(x.value, y.value, Bit(y.end))>>, y.end + 1)

\* A string is read to its end, also where the buffer is too small for it.
NewLine == {1, 3}
String(p, line) ==
  LET char(k)  == Ubit64(p + 8 * k, 8)
      ends(k)  == char(k) = {} \/ (line /\ char(k) = NewLine)
      length   == Min({k \in 0 .. (available + behind) \div 8 + 1 : ends(k)})
      in_buf   == Min({length, StringBufSize - 1})
  IN  [value |-> [k \in 1 .. in_buf |-> char(k - 1)], end |-> p + 8 * (length + 1),
       fits |-> length < StringBufSize]

ReadAt(kind, p) ==
  CASE kind = "bool"       -> Fixed(p, 1)
    [] kind = "bitfloat"   -> Fixed(p, 32)
    [] kind = "fixed64"    -> Fixed(p, 64)
    [] kind = "ubitvar"    -> Ubitvar(p)
    [] kind = "ubitvarfp"  -> Ubitvarfp(p)
    [] kind = "bitangle"   -> Fixed(p, 20)
    [] kind = "uvarint32"  -> Uvarint(p, 32)
    [] kind = "varint32"   -> Varint(p, 32)
    [] kind = "uvarint64"  -> Uvarint(p, 64)
    [] kind = "varint64"   -> Varint(p, 64)
    [] kind = "bitcoord"   -> Bitcoord(p)
    [] kind = "vec3coord"  -> Vec3coord(p)
    [] kind = "vec3normal" -> Vec3normal(p)
    [] kind = "string"     -> String(p, FALSE)
    [] kind = "line"       -> String(p, TRUE)

-----------------------------------------------------------------------------
(* Writing: every sequence of bits that may stand for a value.              *)

BitsOf(x, n) == [i \in 1 .. n |-> i - 1 \in x]
NumberBits(v, n) == BitsOf({i \in 0 .. n - 1 : (v \div 2 ^ i) % 2 = 1}, n)
Abs(v) == IF v < 0 THEN -v ELSE v

UbitvarCodes(x) ==
  {BitsOf(x \cap 0 .. 3, 4) \o <<n \in {4, 28}, n \in {8, 28}>> \o BitsOf(ShiftRight(x, 4), n) :
     n \in {m \in {0, 4, 8, 28} : x \subseteq 0 .. m + 3}}
UbitvarfpCodes(x) ==
  {[i \in 1 .. Min({class, 4}) |-> i = class] \o BitsOf(x, UbitvarfpBits[class]) :
     class \in {c \in 1 .. 5 : x \subseteq 0 .. UbitvarfpBits[c] - 1}}
UvarintCodes(x, width) ==
  {[i \in 1 .. 8 * groups |->
      IF i % 8 = 0 THEN i < 8 * groups ELSE i - 1 - (i \div 8) \in x] :
     groups \in {g \in 1 .. Groups(width) : x \subseteq 0 .. 7 * g - 1}}
Zigzag(x, width) ==
  IF width - 1 \in x THEN {0} \union ShiftLeft((0 .. width - 1) \ x, 1) ELSE ShiftLeft(x, 1)
CoordCode(v) ==
  LET whole == Abs(v) \div 32  fract == Abs(v) % 32 IN
  <<whole > 0, fract > 0>>
    \o (IF v = 0 THEN <<>> ELSE <<v < 0>>)
    \o (IF whole > 0 THEN NumberBits(whole - 1, 14) ELSE <<>>)
    \o (IF fract > 0 THEN NumberBits(fract, 5) ELSE <<>>)
OptionalCoord(v) == IF v = 0 THEN <<>> ELSE CoordCode(v)
OptionalNormal(v) == IF v = 0 THEN <<>> ELSE <<v < 0>> \o NumberBits(Abs(v), 11)
CharCodesOf(text, end) ==
  [i \in 1 .. 8 * (Len(text) + 1) |->
     (i - 1) % 8 \in Append(text, end)[(i - 1) \div 8 + 1]]

CodesOf(kind, v) ==
  CASE kind = "bool"       -> {BitsOf(v, 1)}
    [] kind = "bitfloat"   -> {BitsOf(v, 32)}
    [] kind = "fixed64"    -> {BitsOf(v, 64)}
    [] kind = "ubitvar"    -> UbitvarCodes(v)
    [] kind = "ubitvarfp"  -> UbitvarfpCodes(v)
    [] kind = "bitangle"   -> {BitsOf(v, 20)}
    [] kind = "uvarint32"  -> UvarintCodes(v, 32)
    [] kind = "varint32"   -> UvarintCodes(Zigzag(v, 32), 32)
    [] kind = "uvarint64"  -> UvarintCodes(v, 64)
    [] kind = "varint64"   -> UvarintCodes(Zigzag(v, 64), 64)
    [] kind = "bitcoord"   -> {CoordCode(v)}
    [] kind = "vec3coord"  -> {<<v[1] # 0, v[2] # 0, v[3] # 0>>
                                 \o OptionalCoord(v[1]) \o OptionalCoord(v[2]) \o OptionalCoord(v[3])}
    [] kind = "vec3normal" -> {<<v[1] # 0, v[2] # 0>>
                                 \o OptionalNormal(v[1]) \o OptionalNormal(v[2]) \o <<v[3].negative>>}
    [] kind = "string"     -> {CharCodesOf(v, {})}
    [] kind = "line"       -> {CharCodesOf(v, end) : end \in {{}, NewLine}}

\* The values of each kind that have an encoding.
Coords  == {v \in Int : Abs(v) \div 32 <= 16384}
Normals == {v \in Int : Abs(v) <= 2047}
Encodable(kind, v) ==
  CASE kind = "bool"       -> v \subseteq 0 .. 0
    [] kind = "bitangle"   -> v \subseteq 0 .. 19
    [] kind = "ubitvarfp"  -> v \subseteq 0 .. 30
    [] kind \in {"bitfloat", "ubitvar", "uvarint32", "varint32"} -> v \subseteq 0 .. 31
    [] kind \in {"fixed64", "uvarint64", "varint64"}             -> v \subseteq 0 .. 63
    [] kind = "bitcoord"   -> v \in Coords
    [] kind = "vec3coord"  -> v \in [1 .. 3 -> Coords]
    [] kind = "vec3normal" ->
         /\ v[1] \in Normals /\ v[2] \in Normals /\ v[3].negative \in BOOLEAN
         /\ v = <<v[1], v[2], Third(v[1], v[2], v[3].negative)>>
    [] kind = "string"     -> v \in Seq((SUBSET (0 .. 7)) \ {{}})
    [] kind = "line"       -> v \in Seq((SUBSET (0 .. 7)) \ {{}, NewLine})
    [] OTHER               -> FALSE

ASSUME BitsAssumption ==
  /\ \A s \in Samples : Encodable(s.kind, s.value)
  /\ Behind \subseteq Nat /\ StringBufSize \in Nat \ {0}

-----------------------------------------------------------------------------
BitsInit ==
  /\ message = <<>> /\ written = <<>> /\ available = 0 /\ behind = 0
  /\ position = 0 /\ got = <<>> /\ outcome = "writing"

WriteValue(sample, code) ==
  /\ outcome = "writing" /\ Len(message) < MaxReads
  /\ message' = Append(message, sample)
  /\ written' = written \o code
  /\ UNCHANGED <<available, behind, position, got, outcome>>

\* BitReader::new: the bytes of the message, or fewer of them.
NewReader(bytes, ones) ==
  /\ outcome = "writing" /\ message # <<>>
  /\ bytes <= (Len(written) + 7) \div 8
  /\ available' = 8 * bytes /\ behind' = ones
  /\ outcome' = "reading"
  /\ UNCHANGED <<message, written, position, got>>

\* A string that does not fit into the buffer is an assertion that fails.
ReadValue ==
  /\ outcome = "reading" /\ Len(got) < Len(message)
  /\ LET r == ReadAt(message[Len(got) + 1].kind, position) IN
       /\ position' = r.end
       /\ IF r.fits THEN got' = Append(got, r.value) /\ outcome' = outcome
          ELSE outcome' = "panic" /\ got' = got
  /\ UNCHANGED <<message, written, available, behind>>

IsOverflowed ==
  /\ outcome = "reading"
  /\ outcome' = IF position > available THEN "overflowed" ELSE "ok"
  /\ UNCHANGED <<message, written, available, behind, position, got>>

BitsNext ==
  \/ \E sample \in Samples : \E code \in CodesOf(sample.kind, sample.value) : WriteValue(sample, code)
  \/ \E bytes \in 0 .. (Len(written) + 7) \div 8, ones \in Behind : NewReader(bytes, ones)
  \/ ReadValue
  \/ IsOverflowed

BitsSpec == BitsInit /\ [][BitsNext]_bitVars

-----------------------------------------------------------------------------
(* What was read is what was sent whenever the check that was put off finds   *)
(* no read out of bounds, whatever was read before it and whichever of its  *)
(* encodings a value had; and the check fails, or a string overruns its     *)
(* buffer, only where the message was broken off or the string is too long  *)
(* (bitreader.rs:31-43, 89-92, 290).                                    *)
CheckedReadsRight ==
  LET brokenOff == available < Len(written) IN
  /\ outcome = "ok" => \A k \in DOMAIN got : got[k] = message[k].value
  /\ outcome = "overflowed" => brokenOff
  /\ outcome = "panic" =>
       brokenOff \/ \E k \in DOMAIN message :
                      /\ message[k].kind \in {"string", "line"}
                      /\ Len(message[k].value) >= StringBufSize
=============================================================================
