------------------------ MODULE BroadcastBufferProofs ------------------------
(***************************************************************************)
(* Proofs about BroadcastBuffer, for every broadcast: what the buffers     *)
(* still hold before the read position is, command for command, what the   *)
(* consumer has not read yet.                                              *)
(*                                                                         *)
(* The argument is about the cells from the read position to the end of    *)
(* the buffer.  They are the cells of some commands, whole; reading takes  *)
(* the first of these commands, which it appends to those that passed, so  *)
(* that the two together do not change; a packet stored where they are     *)
(* used up makes them longer, or joins the commands behind the position.   *)
(***************************************************************************)
EXTENDS BroadcastBuffer, Induction

-----------------------------------------------------------------------------
(* FlattenSeq.                                                             *)

\* The function by which FlattenSeq is defined.
Flattens(h, ss, n) ==
    h = [i \in 1..n |-> IF i = 1 THEN ss[i] ELSE h[i - 1] \o ss[i]]

\* There is one for every length.
LEMMA FlattensExists ==
    ASSUME NEW ss
    PROVE  \A n \in Nat : \E h : Flattens(h, ss, n)
<1> DEFINE G == {n \in Nat : \E h : Flattens(h, ss, n)}
<1>1. 0 \in G
  <2>1. Flattens([i \in 1..0 |-> 0], ss, 0)
    BY DEF Flattens
  <2> QED
    BY <2>1
<1>2. ASSUME NEW n \in Nat, n \in G PROVE n + 1 \in G
  <2>1. PICK h : Flattens(h, ss, n)
    BY <1>2
  <2> DEFINE g == [i \in 1..(n + 1) |-> IF i = n + 1
                      THEN IF i = 1 THEN ss[i] ELSE h[i - 1] \o ss[i]
                      ELSE h[i]]
  <2>2. ASSUME NEW i \in 1..(n + 1)
        PROVE  g[i] = IF i = 1 THEN ss[i] ELSE g[i - 1] \o ss[i]
    <3>1. CASE i = n + 1
      <4>1. CASE i = 1 BY <3>1, <4>1
      <4>2. CASE i # 1
        <5>1. i - 1 \in 1..(n + 1) /\ i - 1 # n + 1
          BY <3>1, <4>2
        <5>2. g[i - 1] = h[i - 1]
          BY <5>1
        <5>3. g[i] = h[i - 1] \o ss[i]
          BY <3>1, <4>2
        <5> QED
          BY <4>2, <5>2, <5>3
      <4> QED BY <4>1, <4>2
    <3>2. CASE i # n + 1
      <4>1. i \in 1..n
        BY <3>2
      <4>2. g[i] = h[i]
        BY <3>2
      <4>3. h[i] = IF i = 1 THEN ss[i] ELSE h[i - 1] \o ss[i]
        BY <2>1, <4>1 DEF Flattens
      <4>4. i # 1 => g[i - 1] = h[i - 1]
        BY <4>1
      <4> QED
        BY <4>2, <4>3, <4>4
    <3> QED
      BY <3>1, <3>2
  <2>3. Flattens(g, ss, n + 1)
    <3> DEFINE k == [i \in 1..(n + 1) |-> IF i = 1 THEN ss[i] ELSE g[i - 1] \o ss[i]]
    <3>1. \A i \in 1..(n + 1) : g[i] = k[i]
      BY <2>2
    <3> QED
      BY <3>1 DEF Flattens
  <2> QED
    BY <2>3
<1>3. \A n \in Nat : n \in G
  <2> HIDE DEF G
  <2> QED
    BY <1>1, <1>2, NaturalInduction
<1> QED
  BY <1>3

\* FlattenSeq is its last value.
LEMMA FlattenDefined ==
    ASSUME NEW ss, Len(ss) \in Nat, Len(ss) # 0
    PROVE  \E h : Flattens(h, ss, Len(ss)) /\ FlattenSeq(ss) = h[Len(ss)]
<1> DEFINE h == CHOOSE f : f = [i \in 1..Len(ss) |-> IF i = 1 THEN ss[i] ELSE f[i - 1] \o ss[i]]
<1>1. Flattens(h, ss, Len(ss))
  BY FlattensExists DEF Flattens
<1>2. FlattenSeq(ss) = h[Len(ss)]
  BY DEF FlattenSeq
<1> QED
  BY <1>1, <1>2

Agree(g, h, n) == \A i \in 1..n : g[i] = h[i]

\* It is determined, and extends the one of a shorter sequence.
LEMMA FlattensAgree ==
    ASSUME NEW ss, NEW tt, NEW m \in Nat, NEW n \in Nat, m <= n,
           NEW g, NEW h, Flattens(g, ss, m), Flattens(h, tt, n),
           Agree(ss, tt, m)
    PROVE  Agree(g, h, m)
<1> DEFINE G == {k \in Nat : k \in 1..m => g[k] = h[k]}
<1>1. 0 \in G
  OBVIOUS
<1>2. ASSUME NEW k \in Nat, k \in G PROVE k + 1 \in G
  <2> SUFFICES ASSUME k + 1 \in 1..m PROVE g[k + 1] = h[k + 1]
    OBVIOUS
  <2>1. k + 1 \in 1..n
    OBVIOUS
  <2>2. /\ g[k + 1] = IF k + 1 = 1 THEN ss[k + 1] ELSE g[(k + 1) - 1] \o ss[k + 1]
        /\ h[k + 1] = IF k + 1 = 1 THEN tt[k + 1] ELSE h[(k + 1) - 1] \o tt[k + 1]
    BY <2>1 DEF Flattens
  <2>3. (k + 1) - 1 = k /\ (k + 1 # 1 => k \in 1..m)
    OBVIOUS
  <2>4. ss[k + 1] = tt[k + 1]
    BY DEF Agree
  <2> QED
    BY <1>2, <2>2, <2>3, <2>4
<1>3. \A k \in Nat : k \in G
  <2> HIDE DEF G
  <2> QED
    BY <1>1, <1>2, NaturalInduction
<1> QED
  BY <1>3 DEF Agree

\* So FlattenSeq is known from the sequence without its last element.
LEMMA FlattenAppend ==
    ASSUME NEW S, NEW ss \in Seq(Seq(S)), NEW s \in Seq(S)
    PROVE  FlattenSeq(Append(ss, s)) = IF ss = <<>> THEN s ELSE FlattenSeq(ss) \o s
<1> DEFINE tt == Append(ss, s)
           n == Len(ss)
<1>1. /\ n \in Nat /\ Len(tt) = n + 1 /\ tt[n + 1] = s
      /\ \A i \in 1..n : tt[i] = ss[i]
  BY LenProperties, AppendProperties
<1>2. PICK h : Flattens(h, tt, n + 1) /\ FlattenSeq(tt) = h[n + 1]
  <2> HIDE DEF tt
  <2>1. Len(tt) \in Nat /\ Len(tt) # 0
    BY <1>1
  <2> QED
    BY <1>1, <2>1, FlattenDefined
<1>3. h[n + 1] = IF n + 1 = 1 THEN s ELSE h[n] \o s
  <2> HIDE DEF tt
  <2>1. n + 1 \in 1..(n + 1) /\ (n + 1) - 1 = n
    BY <1>1
  <2>2. h[n + 1] = IF n + 1 = 1 THEN tt[n + 1] ELSE h[(n + 1) - 1] \o tt[n + 1]
    BY <1>2, <2>1 DEF Flattens
  <2> QED
    BY <1>1, <2>1, <2>2
<1>4. CASE ss = <<>>
  <2>1. n + 1 = 1
    BY <1>4
  <2> QED
    BY <1>2, <1>3, <1>4, <2>1
<1>5. CASE ss # <<>>
  <2>1. n # 0
    BY <1>5
  <2>2. PICK g : Flattens(g, ss, n) /\ FlattenSeq(ss) = g[n]
    BY <1>1, <2>1, FlattenDefined
  <2>3. g[n] = h[n]
    <3> HIDE DEF tt
    <3>1. n \in 1..n /\ n <= n + 1 /\ n + 1 \in Nat
      BY <1>1, <2>1
    <3>2. Agree(ss, tt, n)
      BY <1>1 DEF Agree
    <3>3. Agree(g, h, n)
      BY <1>1, <1>2, <2>2, <3>1, <3>2, FlattensAgree
    <3> QED
      BY <3>1, <3>3 DEF Agree
  <2> QED
    BY <1>1, <1>2, <1>3, <1>5, <2>1, <2>2, <2>3
<1> QED
  BY <1>4, <1>5

\* Nothing, flattened.
LEMMA FlattenEmpty == FlattenSeq(<<>>) = <<>>
  BY DEF FlattenSeq

\* It is a sequence,
LEMMA FlattenTyped ==
    ASSUME NEW S PROVE \A ss \in Seq(Seq(S)) : FlattenSeq(ss) \in Seq(S)
<1> DEFINE G == {ss \in Seq(Seq(S)) : FlattenSeq(ss) \in Seq(S)}
<1>1. <<>> \in G
  BY EmptySeq, FlattenEmpty
<1>2. ASSUME NEW ss \in Seq(Seq(S)), NEW s \in Seq(S), ss \in G
      PROVE  Append(ss, s) \in G
  <2>1. Append(ss, s) \in Seq(Seq(S))
    BY AppendProperties
  <2>2. FlattenSeq(ss) \o s \in Seq(S)
    BY <1>2, ConcatProperties
  <2> QED
    BY <2>1, <2>2, FlattenAppend
<1>3. \A ss \in Seq(Seq(S)) : ss \in G
  <2> HIDE DEF G
  <2> QED
    BY <1>1, <1>2, SequenceInduction
<1> QED
  BY <1>3

\* Append to the flattened sequence, whether it is empty or not.
LEMMA FlattenLast ==
    ASSUME NEW S, NEW ss \in Seq(Seq(S)), NEW s \in Seq(S)
    PROVE  FlattenSeq(Append(ss, s)) = FlattenSeq(ss) \o s
<1>1. <<>> \o s = s
  BY ConcatEmptySeq
<1> QED
  BY <1>1, FlattenAppend, FlattenEmpty

\* and goes through concatenation.
LEMMA FlattenConcat ==
    ASSUME NEW S, NEW ss \in Seq(Seq(S))
    PROVE  \A tt \in Seq(Seq(S)) :
               FlattenSeq(ss \o tt) = FlattenSeq(ss) \o FlattenSeq(tt)
<1> DEFINE G == {tt \in Seq(Seq(S)) :
                    FlattenSeq(ss \o tt) = FlattenSeq(ss) \o FlattenSeq(tt)}
<1>1. <<>> \in G
  <2>1. FlattenSeq(ss) \in Seq(S)
    BY FlattenTyped
  <2>2. ss \o <<>> = ss /\ FlattenSeq(ss) \o <<>> = FlattenSeq(ss)
    BY <2>1, ConcatEmptySeq
  <2> QED
    BY <2>2, FlattenEmpty, EmptySeq
<1>2. ASSUME NEW tt \in Seq(Seq(S)), NEW t \in Seq(S), tt \in G
      PROVE  Append(tt, t) \in G
  <2>1. ss \o Append(tt, t) = Append(ss \o tt, t)
    OBVIOUS
  <2>2. ss \o tt \in Seq(Seq(S)) /\ Append(tt, t) \in Seq(Seq(S))
    BY ConcatProperties, AppendProperties
  <2>3. FlattenSeq(Append(ss \o tt, t)) = FlattenSeq(ss \o tt) \o t
    BY <2>2, FlattenLast
  <2>4. FlattenSeq(Append(tt, t)) = FlattenSeq(tt) \o t
    BY FlattenLast
  <2>5. (FlattenSeq(ss) \o FlattenSeq(tt)) \o t = FlattenSeq(ss) \o (FlattenSeq(tt) \o t)
    BY FlattenTyped, ConcatAssociative
  <2> QED
    BY <1>2, <2>1, <2>2, <2>3, <2>4, <2>5
<1>3. \A tt \in Seq(Seq(S)) : tt \in G
  <2> HIDE DEF G
  <2> QED
    BY <1>1, <1>2, SequenceInduction
<1> QED
  BY <1>3

\* One sequence, flattened.
LEMMA FlattenOne ==
    ASSUME NEW S, NEW s \in Seq(S) PROVE FlattenSeq(<<s>>) = s
<1>1. <<s>> = Append(<<>>, s)
  OBVIOUS
<1> QED
  BY <1>1, FlattenAppend, EmptySeq

-----------------------------------------------------------------------------
(* Commands and their cells.                                               *)

Body(id) == CommandOf(id).body_size

\* What a command identifier stands for.
LEMMA CommandTyped ==
    ASSUME NEW id \in CommandId
    PROVE  /\ id = <<id[1], id[2]>>
           /\ id[1] \in 1..Len(Packets) /\ id[2] \in 1..Len(Packets[id[1]])
           /\ CommandOf(id).tick \in Int /\ Body(id) \in Nat
<1>1. PICK n \in 1..Len(Packets) : id \in {n} \X (1..Len(Packets[n]))
  BY DEF CommandId
<1>2. id = <<id[1], id[2]>> /\ id[1] = n /\ id[2] \in 1..Len(Packets[n])
  BY <1>1
<1>3. Packets[n] \in Seq(Commands)
  BY BufferAssumption, ElementOfSeq
<1>4. Packets[n][id[2]] \in Commands
  BY <1>2, <1>3, ElementOfSeq
<1> QED
  BY <1>2, <1>4 DEF CommandOf, Commands, Body

\* A command is a header cell, which names it, and as many cells as its body has.
LEMMA CellsTyped ==
    ASSUME NEW id \in CommandId
    PROVE  /\ CellsOf(id) \in Seq(Cell) /\ Len(CellsOf(id)) = 1 + Body(id)
           /\ CellsOf(id)[1].id = id
           /\ \A i \in 1..Len(CellsOf(id)) : CellsOf(id)[i].id = id
<1>1. Body(id) \in Nat
  BY CommandTyped
<1>2. 1 + Body(id) \in Nat /\ 1 \in 1..(1 + Body(id))
  BY <1>1
<1> DEFINE f == [i \in 1..(1 + Body(id)) |-> [id |-> id, part |-> i - 1]]
<1>3. CellsOf(id) = f
  BY DEF CellsOf, Body
<1>4. f \in [1..(1 + Body(id)) -> Cell]
  BY <1>1 DEF Cell
<1>5. f \in Seq(Cell) /\ Len(f) = 1 + Body(id)
  <2> HIDE DEF f
  <2>1. f \in Seq(Cell)
    BY <1>2, <1>4, SeqDef
  <2> QED
    BY <1>2, <1>4, <2>1, LenProperties
<1>6. \A i \in 1..(1 + Body(id)) : f[i].id = id
  OBVIOUS
<1> QED
  BY <1>2, <1>3, <1>5, <1>6

\* The commands of a packet.
LEMMA IdsTyped ==
    ASSUME NEW n \in 1..Len(Packets)
    PROVE  /\ Ids(n) \in Seq(CommandId) /\ Len(Ids(n)) = Len(Packets[n])
           /\ \A k \in 1..Len(Ids(n)) : Ids(n)[k] = <<n, k>>
<1>1. Packets[n] \in Seq(Commands)
  BY BufferAssumption, ElementOfSeq
<1> DEFINE l == Len(Packets[n])
<1>2. l \in Nat
  BY <1>1, LenProperties
<1> HIDE DEF l
<1>3. \A k \in 1..l : <<n, k>> \in CommandId
  BY DEF CommandId, l
<1>4. Ids(n) \in [1..l -> CommandId] /\ \A k \in 1..l : Ids(n)[k] = <<n, k>>
  BY <1>3 DEF Ids, l
<1>5. Ids(n) \in Seq(CommandId)
  BY <1>2, <1>4, SeqDef
<1>6. Len(Ids(n)) = l
  BY <1>2, <1>4, <1>5, LenProperties
<1> QED
  BY <1>4, <1>5, <1>6 DEF l

\* The cells of some commands.
Map(t) == [k \in 1..Len(t) |-> CellsOf(t[k])]
Encoded(t) == FlattenSeq(Map(t))

\* They are one sequence of cells for each command,
LEMMA MapTyped ==
    ASSUME NEW t \in Seq(CommandId)
    PROVE  /\ Map(t) \in Seq(Seq(Cell)) /\ Len(Map(t)) = Len(t)
           /\ \A k \in 1..Len(t) : Map(t)[k] = CellsOf(t[k])
<1>1. \A k \in 1..Len(t) : CellsOf(t[k]) \in Seq(Cell)
  BY CellsTyped, ElementOfSeq
<1>2. Map(t) \in [1..Len(t) -> Seq(Cell)] /\ Len(t) \in Nat
  BY <1>1, LenProperties DEF Map
<1>3. Map(t) \in Seq(Seq(Cell))
  BY <1>2, SeqDef
<1>4. Len(Map(t)) = Len(t)
  BY <1>2, <1>3, LenProperties
<1> QED
  BY <1>3, <1>4 DEF Map

\* and together one sequence of cells.
LEMMA EncodedTyped ==
    ASSUME NEW t \in Seq(CommandId) PROVE Encoded(t) \in Seq(Cell)
  BY MapTyped, FlattenTyped DEF Encoded

\* No commands have no cells.
LEMMA EncodedEmpty == Encoded(<<>>) = <<>>
<1>1. Map(<<>>) = <<>>
  <2>1. <<>> \in Seq(CommandId)
    BY EmptySeq
  <2>2. Map(<<>>) \in Seq(Seq(Cell)) /\ Len(Map(<<>>)) = 0
    BY <2>1, MapTyped, EmptySeq
  <2> QED
    BY <2>2, EmptySeq
<1> QED
  BY <1>1, FlattenEmpty DEF Encoded

\* The cells of two lists of commands follow each other.
LEMMA EncodedConcat ==
    ASSUME NEW s \in Seq(CommandId), NEW t \in Seq(CommandId)
    PROVE  Encoded(s \o t) = Encoded(s) \o Encoded(t)
<1>1. /\ s \o t \in Seq(CommandId) /\ Len(s \o t) = Len(s) + Len(t)
      /\ \A i \in 1..(Len(s) + Len(t)) :
           (s \o t)[i] = IF i <= Len(s) THEN s[i] ELSE t[i - Len(s)]
  BY ConcatProperties
<1>2. /\ Map(s) \o Map(t) \in Seq(Seq(Cell)) /\ Len(Map(s) \o Map(t)) = Len(s) + Len(t)
      /\ \A i \in 1..(Len(s) + Len(t)) :
           (Map(s) \o Map(t))[i] = IF i <= Len(s) THEN Map(s)[i] ELSE Map(t)[i - Len(s)]
  <2> DEFINE p == Map(s)
             q == Map(t)
  <2>1. /\ p \in Seq(Seq(Cell)) /\ q \in Seq(Seq(Cell))
        /\ Len(p) = Len(s) /\ Len(q) = Len(t)
    BY MapTyped
  <2> HIDE DEF p, q
  <2>2. /\ p \o q \in Seq(Seq(Cell)) /\ Len(p \o q) = Len(p) + Len(q)
        /\ \A i \in 1..(Len(p) + Len(q)) :
             (p \o q)[i] = IF i <= Len(p) THEN p[i] ELSE q[i - Len(p)]
    BY <2>1, ConcatProperties
  <2> QED
    BY <2>1, <2>2 DEF p, q
<1>3. Len(s) \in Nat /\ Len(t) \in Nat
  BY LenProperties
<1>4. ASSUME NEW i \in 1..(Len(s) + Len(t))
      PROVE  Map(s \o t)[i] = (Map(s) \o Map(t))[i]
  <2>1. Map(s \o t)[i] = CellsOf((s \o t)[i])
    BY <1>1, MapTyped
  <2>2. CASE i <= Len(s)
    <3>1. i \in 1..Len(s)
      BY <1>3, <2>2
    <3> QED
      BY <1>1, <1>2, <2>1, <2>2, <3>1, MapTyped
  <2>3. CASE ~(i <= Len(s))
    <3>1. i - Len(s) \in 1..Len(t)
      BY <1>3, <2>3
    <3> QED
      BY <1>1, <1>2, <2>1, <2>3, <3>1, MapTyped
  <2> QED
    BY <2>2, <2>3
<1>5. Map(s \o t) = Map(s) \o Map(t)
  <2>1. Map(s \o t) \in Seq(Seq(Cell)) /\ Len(Map(s \o t)) = Len(s) + Len(t)
    BY <1>1, MapTyped
  <2> QED
    BY <1>2, <1>4, <2>1, SeqEqual
<1> QED
  BY <1>5, MapTyped, FlattenConcat DEF Encoded

\* The cells of one command.
LEMMA EncodedOne ==
    ASSUME NEW id \in CommandId PROVE Encoded(<<id>>) = CellsOf(id)
<1>1. <<id>> \in Seq(CommandId) /\ Len(<<id>>) = 1 /\ <<id>>[1] = id
  OBVIOUS
<1>2. Map(<<id>>) \in Seq(Seq(Cell)) /\ Len(Map(<<id>>)) = 1 /\ Map(<<id>>)[1] = CellsOf(id)
  <2> DEFINE t == <<id>>
  <2>1. t \in Seq(CommandId) /\ Len(t) = 1 /\ t[1] = id
    BY <1>1
  <2> HIDE DEF t
  <2>2. 1 \in 1..Len(t)
    BY <2>1
  <2>3. Map(t) \in Seq(Seq(Cell)) /\ Len(Map(t)) = Len(t) /\ Map(t)[1] = CellsOf(t[1])
    BY <2>1, <2>2, MapTyped
  <2> QED
    BY <2>1, <2>3 DEF t
<1>3. Map(<<id>>) = <<CellsOf(id)>>
  BY <1>2
<1> QED
  BY <1>3, CellsTyped, FlattenOne DEF Encoded

\* The first command's cells come first.
LEMMA EncodedFirst ==
    ASSUME NEW t \in Seq(CommandId), t # <<>>
    PROVE  /\ Head(t) \in CommandId /\ Tail(t) \in Seq(CommandId)
           /\ t = <<Head(t)>> \o Tail(t)
           /\ Encoded(t) = CellsOf(Head(t)) \o Encoded(Tail(t))
<1>1. Head(t) \in CommandId /\ Tail(t) \in Seq(CommandId)
  BY HeadTailProperties
<1>2. t = <<Head(t)>> \o Tail(t)
  OBVIOUS
<1>3. <<Head(t)>> \in Seq(CommandId)
  BY <1>1
<1> QED
  BY <1>1, <1>2, <1>3, EncodedConcat, EncodedOne

\* A packet's cells are those of its commands.
LEMMA PacketEncoded ==
    ASSUME NEW n \in 1..Len(Packets)
    PROVE  PacketCells(n) = Encoded(Ids(n)) /\ PacketCells(n) \in Seq(Cell)
<1>1. Map(Ids(n)) = [k \in 1..Len(Packets[n]) |-> CellsOf(<<n, k>>)]
  BY IdsTyped DEF Map
<1> QED
  BY <1>1, IdsTyped, EncodedTyped DEF PacketCells, Encoded

\* The commands and the cells of the first m packets.
IdsUpTo(m) == FlattenSeq([n \in 1..m |-> Ids(n)])
CellsUpTo(m) == FlattenSeq([n \in 1..m |-> PacketCells(n)])

KnownUpTo(m) == {id \in CommandId : id[1] <= m}
CellUpTo(m) == [id : KnownUpTo(m), part : Nat]

\* The cells of commands come from no others.
LEMMA EncodedWithin ==
    ASSUME NEW m \in Nat, NEW t \in Seq(KnownUpTo(m))
    PROVE  t \in Seq(CommandId) /\ Encoded(t) \in Seq(CellUpTo(m))
<1>1. t \in Seq(CommandId)
  <2>1. KnownUpTo(m) \subseteq CommandId
    BY DEF KnownUpTo
  <2> QED
    BY <2>1, SeqMonotonic
<1>2. ASSUME NEW k \in 1..Len(t) PROVE CellsOf(t[k]) \in Seq(CellUpTo(m))
  <2>1. t[k] \in KnownUpTo(m) /\ t[k] \in CommandId
    BY <1>1, ElementOfSeq
  <2> DEFINE id == t[k]
             c == CellsOf(id)
  <2>2. c \in Seq(Cell) /\ \A i \in 1..Len(c) : c[i].id = id
    BY <2>1, CellsTyped
  <2>3. Len(c) \in Nat /\ DOMAIN c = 1..Len(c) /\ c \in [1..Len(c) -> Cell]
    BY <2>2, LenProperties
  <2> HIDE DEF c
  <2>4. \A i \in 1..Len(c) : c[i] \in CellUpTo(m)
    BY <2>1, <2>2, <2>3 DEF Cell, CellUpTo
  <2>5. c \in [1..Len(c) -> CellUpTo(m)]
    BY <2>3, <2>4
  <2>6. c \in Seq(CellUpTo(m))
    BY <2>3, <2>5, SeqDef
  <2> QED
    BY <2>6 DEF c
<1>3. Map(t) \in [1..Len(t) -> Seq(CellUpTo(m))] /\ Len(t) \in Nat
  BY <1>1, <1>2, LenProperties DEF Map
<1>4. Map(t) \in Seq(Seq(CellUpTo(m)))
  BY <1>3, SeqDef
<1> QED
  BY <1>1, <1>4, FlattenTyped DEF Encoded

\* The commands of a packet are known from that packet on.
LEMMA IdsKnown ==
    ASSUME NEW n \in 1..Len(Packets) PROVE Ids(n) \in Seq(KnownUpTo(n))
<1>1. Ids(n) \in Seq(CommandId) /\ \A k \in 1..Len(Ids(n)) : Ids(n)[k] = <<n, k>>
  BY IdsTyped
<1>2. Len(Ids(n)) \in Nat /\ Ids(n) \in [1..Len(Ids(n)) -> CommandId]
  BY <1>1, LenProperties
<1>3. n <= n
  OBVIOUS
<1>4. \A k \in 1..Len(Ids(n)) : Ids(n)[k] \in CommandId /\ Ids(n)[k][1] = n
  BY <1>1, <1>2
<1>5. Ids(n) \in [1..Len(Ids(n)) -> KnownUpTo(n)]
  BY <1>2, <1>3, <1>4 DEF KnownUpTo
<1> QED
  BY <1>2, <1>5, SeqDef

\* What is known after fewer packets is known after more.
LEMMA KnownGrows ==
    ASSUME NEW m \in Nat, NEW n \in Nat, m <= n
    PROVE  /\ Seq(KnownUpTo(m)) \subseteq Seq(KnownUpTo(n))
           /\ Seq(CellUpTo(m)) \subseteq Seq(CellUpTo(n))
           /\ Seq(CellUpTo(m)) \subseteq Seq(Cell)
<1>1. \A id \in CommandId : id[1] \in Nat
  BY CommandTyped
<1>2. KnownUpTo(m) \subseteq KnownUpTo(n) /\ KnownUpTo(m) \subseteq CommandId
  BY <1>1 DEF KnownUpTo
<1>3. CellUpTo(m) \subseteq CellUpTo(n) /\ CellUpTo(m) \subseteq Cell
  BY <1>2 DEF CellUpTo, Cell
<1> QED
  BY <1>2, <1>3, SeqMonotonic

\* One packet more.
LEMMA FlattenUpTo ==
    ASSUME NEW S, NEW m \in Nat, NEW f, \A n \in 1..(m + 1) : f[n] \in Seq(S)
    PROVE  /\ FlattenSeq([n \in 1..(m + 1) |-> f[n]])
                = FlattenSeq([n \in 1..m |-> f[n]]) \o f[m + 1]
           /\ FlattenSeq([n \in 1..m |-> f[n]]) \in Seq(S)
<1> DEFINE g == [n \in 1..m |-> f[n]]
           h == [n \in 1..(m + 1) |-> f[n]]
<1>1. g \in Seq(Seq(S)) /\ Len(g) = m /\ h \in Seq(Seq(S)) /\ Len(h) = m + 1
  <2>1. g \in [1..m -> Seq(S)] /\ h \in [1..(m + 1) -> Seq(S)] /\ m + 1 \in Nat
    OBVIOUS
  <2> HIDE DEF g, h
  <2>2. g \in Seq(Seq(S)) /\ h \in Seq(Seq(S))
    BY <2>1, SeqDef
  <2> QED
    BY <2>1, <2>2, LenProperties
<1>2. f[m + 1] \in Seq(S)
  OBVIOUS
<1>3. h = Append(g, f[m + 1])
  <2>1. /\ Append(g, f[m + 1]) \in Seq(Seq(S)) /\ Len(Append(g, f[m + 1])) = m + 1
        /\ \A n \in 1..m : Append(g, f[m + 1])[n] = g[n]
        /\ Append(g, f[m + 1])[m + 1] = f[m + 1]
    <3> HIDE DEF g
    <3> QED
      BY <1>1, <1>2, AppendProperties
  <2>2. \A n \in 1..(m + 1) : n \in 1..m \/ n = m + 1
    OBVIOUS
  <2>3. \A n \in 1..m : g[n] = h[n]
    OBVIOUS
  <2>4. h[m + 1] = f[m + 1]
    OBVIOUS
  <2>5. \A n \in 1..(m + 1) : Append(g, f[m + 1])[n] = h[n]
    <3> HIDE DEF g, h
    <3> QED
      BY <2>1, <2>2, <2>3, <2>4
  <2> HIDE DEF g, h
  <2> QED
    BY <1>1, <2>1, <2>5, SeqEqual
<1> HIDE DEF g, h
<1>4. FlattenSeq(h) = FlattenSeq(g) \o f[m + 1] /\ FlattenSeq(g) \in Seq(S)
  BY <1>1, <1>2, <1>3, FlattenLast, FlattenTyped
<1> QED
  BY <1>4 DEF g, h

\* No packets have no commands and no cells.
LEMMA UpToNone == IdsUpTo(0) = <<>> /\ CellsUpTo(0) = <<>>
<1>1. [n \in 1..0 |-> Ids(n)] = <<>> /\ [n \in 1..0 |-> PacketCells(n)] = <<>>
  OBVIOUS
<1> QED
  BY <1>1, FlattenEmpty DEF IdsUpTo, CellsUpTo

\* One packet adds its commands and its cells.
LEMMA UpToNext ==
    ASSUME NEW m \in Nat, m + 1 <= Len(Packets)
    PROVE  /\ IdsUpTo(m + 1) = IdsUpTo(m) \o Ids(m + 1)
           /\ CellsUpTo(m + 1) = CellsUpTo(m) \o PacketCells(m + 1)
           /\ IdsUpTo(m) \in Seq(CommandId) /\ CellsUpTo(m) \in Seq(Cell)
<1>0. \A n \in 1..(m + 1) : n \in 1..Len(Packets)
  BY BufferAssumption, LenProperties
<1> DEFINE f == [n \in 1..(m + 1) |-> Ids(n)]
           g == [n \in 1..(m + 1) |-> PacketCells(n)]
<1>1. \A n \in 1..(m + 1) : f[n] \in Seq(CommandId)
  BY <1>0, IdsTyped
<1>2. \A n \in 1..(m + 1) : g[n] \in Seq(Cell)
  BY <1>0, PacketEncoded
<1>3. /\ [n \in 1..(m + 1) |-> f[n]] = f /\ [n \in 1..m |-> f[n]] = [n \in 1..m |-> Ids(n)]
      /\ f[m + 1] = Ids(m + 1)
      /\ [n \in 1..(m + 1) |-> g[n]] = g /\ [n \in 1..m |-> g[n]] = [n \in 1..m |-> PacketCells(n)]
      /\ g[m + 1] = PacketCells(m + 1)
  OBVIOUS
<1>4. /\ IdsUpTo(m + 1) = FlattenSeq(f) /\ CellsUpTo(m + 1) = FlattenSeq(g)
      /\ IdsUpTo(m) = FlattenSeq([n \in 1..m |-> f[n]])
      /\ CellsUpTo(m) = FlattenSeq([n \in 1..m |-> g[n]])
  BY <1>3 DEF IdsUpTo, CellsUpTo
<1> HIDE DEF f, g
<1>5. /\ FlattenSeq([n \in 1..(m + 1) |-> f[n]]) = FlattenSeq([n \in 1..m |-> f[n]]) \o f[m + 1]
      /\ FlattenSeq([n \in 1..m |-> f[n]]) \in Seq(CommandId)
  BY <1>1, FlattenUpTo
<1>6. /\ FlattenSeq([n \in 1..(m + 1) |-> g[n]]) = FlattenSeq([n \in 1..m |-> g[n]]) \o g[m + 1]
      /\ FlattenSeq([n \in 1..m |-> g[n]]) \in Seq(Cell)
  BY <1>2, FlattenUpTo
<1> QED
  BY <1>3, <1>4, <1>5, <1>6

\* All packets' cells are the cells of all packets' commands.
LEMMA UpToEncoded ==
    ASSUME NEW m \in Nat, m <= Len(Packets)
    PROVE  IdsUpTo(m) \in Seq(CommandId) /\ CellsUpTo(m) = Encoded(IdsUpTo(m))
<1> DEFINE G == {n \in Nat : n <= Len(Packets) =>
                     IdsUpTo(n) \in Seq(CommandId) /\ CellsUpTo(n) = Encoded(IdsUpTo(n))}
<1>1. 0 \in G
  BY UpToNone, EncodedEmpty, EmptySeq
<1>2. ASSUME NEW n \in Nat, n \in G PROVE n + 1 \in G
  <2> SUFFICES ASSUME n + 1 <= Len(Packets)
               PROVE  /\ IdsUpTo(n + 1) \in Seq(CommandId)
                      /\ CellsUpTo(n + 1) = Encoded(IdsUpTo(n + 1))
    OBVIOUS
  <2>1. n <= Len(Packets) /\ n + 1 \in 1..Len(Packets)
    BY BufferAssumption, LenProperties
  <2>2. IdsUpTo(n) \in Seq(CommandId) /\ CellsUpTo(n) = Encoded(IdsUpTo(n))
    BY <1>2, <2>1
  <2>3. /\ IdsUpTo(n + 1) = IdsUpTo(n) \o Ids(n + 1)
        /\ CellsUpTo(n + 1) = CellsUpTo(n) \o PacketCells(n + 1)
    BY UpToNext
  <2>4. Ids(n + 1) \in Seq(CommandId) /\ PacketCells(n + 1) = Encoded(Ids(n + 1))
    BY <2>1, IdsTyped, PacketEncoded
  <2> QED
    BY <2>2, <2>3, <2>4, ConcatProperties, EncodedConcat
<1>3. \A n \in Nat : n \in G
  <2> HIDE DEF G
  <2> QED
    BY <1>1, <1>2, NaturalInduction
<1> QED
  BY <1>3

-----------------------------------------------------------------------------
(* The cells ahead of a position.                                          *)

Ahead(buf, p, t) == t \in Seq(CommandId) /\ SubSeq(buf, p + 1, Len(buf)) = Encoded(t)

\* The cells from a position to the end of the buffer.
LEMMA RestProperties ==
    ASSUME NEW buf \in Seq(Cell), NEW p \in 0..Len(buf)
    PROVE  /\ SubSeq(buf, p + 1, Len(buf)) \in Seq(Cell)
           /\ Len(SubSeq(buf, p + 1, Len(buf))) = Len(buf) - p
           /\ \A i \in 1..(Len(buf) - p) : SubSeq(buf, p + 1, Len(buf))[i] = buf[p + i]
<1>1. Len(buf) \in Nat /\ p \in Int /\ p + 1 \in Int
  BY LenProperties
<1>2. \A i \in (p + 1)..Len(buf) : buf[i] \in Cell
  BY <1>1, ElementOfSeq
<1> DEFINE r == SubSeq(buf, p + 1, Len(buf))
<1>3. /\ r \in Seq(Cell)
      /\ Len(r) = IF p + 1 <= Len(buf) THEN Len(buf) - (p + 1) + 1 ELSE 0
      /\ \A i \in 1..(Len(buf) - (p + 1) + 1) : r[i] = buf[(p + 1) + i - 1]
  BY <1>1, <1>2, SubSeqProperties
<1>4. Len(buf) - (p + 1) + 1 = Len(buf) - p
  BY <1>1
<1>5. \A i \in 1..(Len(buf) - p) : (p + 1) + i - 1 = p + i
  BY <1>1
<1> HIDE DEF r
<1>6. Len(r) = Len(buf) - p
  <2> DEFINE l == Len(buf)
             k == Len(r)
  <2>1. l \in Nat /\ p \in Int /\ p <= l
    BY <1>1
  <2>2. k = IF p + 1 <= l THEN l - (p + 1) + 1 ELSE 0
    BY <1>3
  <2> HIDE DEF l, k
  <2>3. k = l - p
    BY <2>1, <2>2
  <2> QED
    BY <2>3 DEF l, k
<1> QED
  BY <1>3, <1>4, <1>5, <1>6 DEF r

\* Nothing is ahead of the end,
LEMMA AheadOfEnd ==
    ASSUME NEW buf \in Seq(Cell)
    PROVE  Ahead(buf, Len(buf), <<>>)
<1>1. Len(buf) \in Nat
  BY LenProperties
<1>2. SubSeq(buf, Len(buf) + 1, Len(buf)) = <<>>
  BY <1>1, SubSeqEmpty
<1> QED
  BY <1>2, EncodedEmpty, EmptySeq DEF Ahead

\* and what is ahead of the end is nothing.
LEMMA EndIsReached ==
    ASSUME NEW buf \in Seq(Cell), NEW t, Ahead(buf, Len(buf), t) PROVE t = <<>>
<1>1. Len(buf) \in Nat
  BY LenProperties
<1>2. SubSeq(buf, Len(buf) + 1, Len(buf)) = <<>>
  BY <1>1, SubSeqEmpty
<1>3. Encoded(t) = <<>> /\ t \in Seq(CommandId)
  BY <1>2 DEF Ahead
<1>4. SUFFICES ASSUME t # <<>> PROVE FALSE
  OBVIOUS
<1>5. Head(t) \in CommandId /\ Encoded(Tail(t)) \in Seq(Cell)
  BY <1>3, <1>4, EncodedFirst, EncodedTyped
<1>6. CellsOf(Head(t)) \in Seq(Cell) /\ Len(CellsOf(Head(t))) = 1 + Body(Head(t)) /\ Body(Head(t)) \in Nat
  BY <1>5, CellsTyped, CommandTyped
<1>7. Encoded(t) = CellsOf(Head(t)) \o Encoded(Tail(t))
  BY <1>3, <1>4, EncodedFirst
<1>8. CellsOf(Head(t)) = <<>>
  BY <1>3, <1>5, <1>6, <1>7, ConcatEqualIffEmpty
<1> QED
  BY <1>6, <1>8, EmptySeq

\* All of a buffer is ahead of its beginning.
LEMMA AheadOfAll ==
    ASSUME NEW buf \in Seq(Cell), NEW t \in Seq(CommandId), buf = Encoded(t)
    PROVE  Ahead(buf, 0, t)
<1>1. SubSeq(buf, 0 + 1, Len(buf)) = buf
  BY SubSeqFull
<1> QED
  BY <1>1 DEF Ahead

\* Where a position is at the cells of some commands, reading takes the first of
\* them, whole, and leaves the position at the others.
LEMMA ReadsFirst ==
    ASSUME NEW buf \in Seq(Cell), NEW p \in 0..Len(buf), p # Len(buf),
           NEW t, Ahead(buf, p, t)
    PROVE  /\ t # <<>> /\ buf[p + 1].id = Head(t)
           /\ p + 1 + Body(Head(t)) \in 0..Len(buf)
           /\ SubSeq(buf, p + 1, p + Len(CellsOf(Head(t)))) = CellsOf(Head(t))
           /\ Ahead(buf, p + 1 + Body(Head(t)), Tail(t))
<1> DEFINE r == SubSeq(buf, p + 1, Len(buf))
           n == Len(buf) - p
<1>1. Len(buf) \in Nat /\ n \in Nat /\ n > 0 /\ p \in Nat
  BY LenProperties
<1>2. r \in Seq(Cell) /\ Len(r) = n /\ \A i \in 1..n : r[i] = buf[p + i]
  BY RestProperties
<1>3. r = Encoded(t) /\ t \in Seq(CommandId)
  BY DEF Ahead
<1> HIDE DEF r
<1>4. t # <<>>
  <2>1. r # <<>>
    BY <1>1, <1>2, EmptySeq
  <2> QED
    BY <1>3, <2>1, EncodedEmpty
<1> DEFINE h == Head(t)
           c == CellsOf(h)
           e == Encoded(Tail(t))
           b == 1 + Body(h)
<1>5. h \in CommandId /\ Tail(t) \in Seq(CommandId) /\ r = c \o e
  BY <1>3, <1>4, EncodedFirst
<1>6. c \in Seq(Cell) /\ Len(c) = b /\ c[1].id = h /\ Body(h) \in Nat /\ b \in Nat /\ b > 0
  <2>1. c \in Seq(Cell) /\ Len(c) = b /\ c[1].id = h
    BY <1>5, CellsTyped
  <2>2. Body(h) \in Nat
    BY <1>5, CommandTyped
  <2>3. b \in Nat /\ b > 0
    BY <2>2
  <2> QED
    BY <2>1, <2>2, <2>3
<1>7. e \in Seq(Cell) /\ Len(e) \in Nat
  BY <1>5, EncodedTyped, LenProperties
<1> HIDE DEF c, e, b
<1>8. /\ Len(c \o e) = Len(c) + Len(e)
      /\ \A i \in 1..(Len(c) + Len(e)) : (c \o e)[i] = IF i <= Len(c) THEN c[i] ELSE e[i - Len(c)]
  BY <1>6, <1>7, ConcatProperties
<1>9. n = b + Len(e)
  BY <1>2, <1>5, <1>6, <1>8
<1> HIDE DEF n
<1>10. \A i \in 1..n : buf[p + i] = IF i <= b THEN c[i] ELSE e[i - b]
  BY <1>2, <1>5, <1>6, <1>8, <1>9
<1>11. buf[p + 1].id = h
  <2>1. 1 \in 1..n /\ 1 <= b
    BY <1>1, <1>6
  <2>2. buf[p + 1] = c[1]
    BY <1>10, <2>1
  <2> QED
    BY <1>6, <2>2
<1>12. p + b \in 0..Len(buf)
  BY <1>1, <1>6, <1>7, <1>9 DEF n
<1>13. SubSeq(buf, p + 1, p + b) = c
  <2> DEFINE s == SubSeq(buf, p + 1, p + b)
  <2>1. \A i \in (p + 1)..(p + b) : buf[i] \in Cell
    BY <1>1, <1>6, <1>12, ElementOfSeq
  <2>2. p + 1 \in Int /\ p + b \in Int /\ p + 1 <= p + b /\ (p + b) - (p + 1) + 1 = b
    BY <1>1, <1>6
  <2>3. s \in Seq(Cell) /\ Len(s) = b /\ \A i \in 1..b : s[i] = buf[(p + 1) + i - 1]
    BY <2>1, <2>2, SubSeqProperties
  <2>4. \A i \in 1..b : (p + 1) + i - 1 = p + i /\ i \in 1..n /\ i <= b
    BY <1>1, <1>6, <1>7, <1>9
  <2> HIDE DEF s
  <2>5. \A i \in 1..b : s[i] = c[i]
    BY <1>10, <2>3, <2>4
  <2>6. s = c
    BY <1>6, <2>3, <2>5, SeqEqual
  <2> QED
    BY <2>6 DEF s
<1>14. SubSeq(buf, (p + b) + 1, Len(buf)) = e
  <2> DEFINE q == p + b
             s == SubSeq(buf, q + 1, Len(buf))
  <2>1. q \in 0..Len(buf)
    BY <1>12
  <2> HIDE DEF q
  <2>2. s \in Seq(Cell) /\ Len(s) = Len(buf) - q /\ \A i \in 1..(Len(buf) - q) : s[i] = buf[q + i]
    BY <2>1, RestProperties
  <2>3. Len(buf) - q = Len(e)
    BY <1>1, <1>6, <1>7, <1>9 DEF n, q
  <2>4. \A i \in 1..Len(e) : /\ b + i \in 1..n /\ ~(b + i <= b) /\ (b + i) - b = i
                             /\ p + (b + i) = q + i
    BY <1>1, <1>6, <1>7, <1>9 DEF q
  <2> HIDE DEF s
  <2>5. ASSUME NEW i \in 1..Len(e) PROVE s[i] = e[i]
    <3>1. buf[p + (b + i)] = e[(b + i) - b]
      BY <1>10, <2>4
    <3> QED
      BY <2>2, <2>3, <2>4, <3>1
  <2>6. s = e
    BY <1>7, <2>2, <2>3, <2>5, SeqEqual
  <2> QED
    BY <2>6 DEF s, q
<1>15. p + 1 + Body(h) = p + b
  BY <1>1, <1>6 DEF b
<1> QED
  BY <1>4, <1>5, <1>6, <1>11, <1>12, <1>13, <1>14, <1>15 DEF Ahead, c, e

-----------------------------------------------------------------------------
(* Storing a packet.                                                       *)

Written(buf, p, cells) ==
    SubSeq(buf, 1, p) \o cells \o SubSeq(buf, p + Len(cells) + 1, Len(buf))

\* Writing anywhere keeps what the buffer is made of, and makes it no shorter;
LEMMA WrittenTyped ==
    ASSUME NEW S, NEW buf \in Seq(S), NEW cells \in Seq(S), NEW p \in 0..Len(buf)
    PROVE  /\ Written(buf, p, cells) \in Seq(S)
           /\ p + Len(cells) \in 0..Len(Written(buf, p, cells))
           /\ Len(buf) <= Len(Written(buf, p, cells))
<1> DEFINE l == Len(buf)
           c == Len(cells)
           q == p + c + 1
           a == SubSeq(buf, 1, p)
           z == SubSeq(buf, q, l)
<1>1. l \in Nat /\ c \in Nat /\ p \in Nat /\ p <= l
  BY LenProperties
<1>2. q \in Int /\ q >= 1
  BY <1>1
<1>3. (\A i \in 1..p : buf[i] \in S) /\ (\A i \in q..l : buf[i] \in S)
  <2>1. (\A i \in 1..p : i \in 1..l) /\ (\A i \in q..l : i \in 1..l)
    BY <1>1, <1>2
  <2> HIDE DEF q
  <2> QED
    BY <2>1, ElementOfSeq
<1>4. a \in Seq(S) /\ Len(a) = IF 1 <= p THEN p - 1 + 1 ELSE 0
  BY <1>1, <1>3, SubSeqProperties
<1>5. z \in Seq(S) /\ Len(z) = IF q <= l THEN l - q + 1 ELSE 0
  <2> HIDE DEF q
  <2> QED
    BY <1>1, <1>2, <1>3, SubSeqProperties
<1> HIDE DEF a, z
<1>6. (a \o cells) \o z \in Seq(S) /\ Len((a \o cells) \o z) = Len(a) + c + Len(z)
  <2> DEFINE d == a \o cells
  <2>1. d \in Seq(S) /\ Len(d) = Len(a) + c
    BY <1>4, ConcatProperties
  <2> HIDE DEF d
  <2>2. d \o z \in Seq(S) /\ Len(d \o z) = Len(d) + Len(z)
    BY <1>5, <2>1, ConcatProperties
  <2> QED
    BY <2>1, <2>2 DEF d
<1>7. Len(a) = p
  <2> DEFINE k == Len(a)
  <2>1. k = IF 1 <= p THEN p - 1 + 1 ELSE 0
    BY <1>4
  <2> HIDE DEF k
  <2>2. k = p
    BY <1>1, <2>1
  <2> QED
    BY <2>2 DEF k
<1> DEFINE k == Len(z)
           w == Len((a \o cells) \o z)
<1>8. k \in Nat /\ k = IF q <= l THEN l - q + 1 ELSE 0
  BY <1>5, LenProperties
<1>9. w = p + c + k
  BY <1>6, <1>7
<1> HIDE DEF k, w, l, c
<1>10. p + c \in 0..w /\ l <= w
  BY <1>1, <1>8, <1>9
<1> QED
  BY <1>6, <1>10 DEF Written, a, z, w, l, c

\* at the end it appends.
LEMMA WrittenAtEnd ==
    ASSUME NEW S, NEW buf \in Seq(S), NEW cells \in Seq(S)
    PROVE  /\ Written(buf, Len(buf), cells) = buf \o cells
           /\ Len(Written(buf, Len(buf), cells)) = Len(buf) + Len(cells)
<1>1. Len(buf) \in Nat /\ Len(cells) \in Nat
  BY LenProperties
<1>2. SubSeq(buf, 1, Len(buf)) = buf
  BY SubSeqFull
<1>3. SubSeq(buf, Len(buf) + Len(cells) + 1, Len(buf)) = <<>>
  BY <1>1, SubSeqEmpty
<1>4. buf \o cells \in Seq(S) /\ Len(buf \o cells) = Len(buf) + Len(cells)
  BY ConcatProperties
<1>5. (buf \o cells) \o <<>> = buf \o cells
  BY <1>4, ConcatEmptySeq
<1> QED
  BY <1>2, <1>3, <1>4, <1>5 DEF Written

-----------------------------------------------------------------------------
(* The inductive invariant.                                                *)

\* What the type invariant says, and that only the seekable buffer is sought or
\* scanned.
TypeInv ==
    /\ received \in Seq(Source!Packet) /\ Len(received) <= Len(Packets)
    /\ ended \in {"no", "none", "error"}
    /\ stream_buffer \in Buffers /\ drains \in BOOLEAN
    /\ buffer \in Seq(CellUpTo(Len(received)))
    /\ position \in 0..Len(buffer)
    /\ total_ticks \in Seq(Int) /\ Len(total_ticks) <= 1
    /\ mode \in {"idle", "run_to_end", "run_to_tick", "scan", "garbled", "panic"}
    /\ target_tick \in Int /\ last_tick \in Int
    /\ backup \in 0..Len(buffer)
    /\ passed \in Seq(KnownUpTo(Len(received)))
    /\ stored \in BOOLEAN
    /\ stream_buffer = "Last" => mode # "scan" /\ backup = 0

\* Where the reader goes on after a scan.
Resume == IF mode = "scan" THEN backup ELSE position

\* For a consumer that drains: the position is at whole commands, and those that
\* passed and those still ahead are all the commands there are.
OrderInv ==
    drains =>
        /\ mode # "garbled"
        /\ stream_buffer = "Seekable" => buffer = AllCells
        /\ \E t \in Seq(CommandId) : Ahead(buffer, position, t)
        /\ \E t \in Seq(CommandId) :
               /\ Ahead(buffer, Resume, t)
               /\ ~stored => passed \o t = AllIds

Ascending(s) ==
    \A i, j \in 1..Len(s) :
        i < j => \/ s[i][1] < s[j][1]
                 \/ s[i][1] = s[j][1] /\ s[i][2] < s[j][2]

\* For any consumer of the last packet's buffer: the commands ahead are later
\* than those that passed.
LastInv ==
    stream_buffer = "Last" =>
        \E t \in Seq(CommandId) : Ahead(buffer, position, t) /\ Ascending(passed \o t)

IInv == TypeInv /\ OrderInv /\ LastInv

\* It has the type invariant in it.
LEMMA InvariantTyped == ASSUME TypeInv PROVE TypeOK
<1>1. Len(received) \in Nat
  BY LenProperties DEF TypeInv
<1>2. ASSUME NEW i \in 1..Len(buffer) PROVE buffer[i].id[1] <= Len(received)
  <2>1. buffer[i] \in CellUpTo(Len(received))
    BY ElementOfSeq DEF TypeInv
  <2> QED
    BY <2>1 DEF CellUpTo, KnownUpTo
<1>3. ASSUME NEW i \in 1..Len(passed) PROVE passed[i][1] <= Len(received)
  <2>1. passed[i] \in KnownUpTo(Len(received))
    BY ElementOfSeq DEF TypeInv
  <2> QED
    BY <2>1 DEF KnownUpTo
<1>4. buffer \in Seq(Cell) /\ passed \in Seq(CommandId)
  <2>1. passed \in Seq(CommandId)
    BY <1>1, EncodedWithin DEF TypeInv
  <2>2. buffer \in Seq(Cell)
    BY <1>1, KnownGrows DEF TypeInv
  <2> QED
    BY <2>1, <2>2
<1> QED
  BY <1>2, <1>3, <1>4 DEF TypeOK, TypeInv

\* What the buffer, and those that passed, are made of.
LEMMA StateTyped ==
    ASSUME TypeInv
    PROVE  /\ Len(received) \in Nat /\ Len(buffer) \in Nat
           /\ buffer \in Seq(Cell) /\ passed \in Seq(CommandId)
           /\ stream_buffer \in {"Last", "Seekable"}
           /\ AllIds = IdsUpTo(Len(received)) /\ AllIds \in Seq(CommandId)
           /\ AllCells = Encoded(AllIds)
<1>1. Len(received) \in Nat
  BY LenProperties DEF TypeInv
<1>2. buffer \in Seq(Cell) /\ passed \in Seq(CommandId) /\ Len(buffer) \in Nat
  <2>1. passed \in Seq(CommandId)
    BY <1>1, EncodedWithin DEF TypeInv
  <2>2. buffer \in Seq(Cell)
    BY <1>1, KnownGrows DEF TypeInv
  <2> QED
    BY <2>1, <2>2, LenProperties
<1>3. stream_buffer \in {"Last", "Seekable"}
  BY BufferAssumption DEF TypeInv
<1>4. AllIds = IdsUpTo(Len(received)) /\ AllCells = CellsUpTo(Len(received))
  BY DEF AllIds, AllCells, IdsUpTo, CellsUpTo
<1>5. Len(received) <= Len(Packets)
  BY DEF TypeInv
<1> QED
  BY <1>1, <1>2, <1>3, <1>4, <1>5, UpToEncoded

\* What a packet adds.
LEMMA Delivered ==
    ASSUME TypeInv, NextPacket, NEW n, n = Len(received) + 1
    PROVE  /\ n \in 1..Len(Packets) /\ Len(received') = n
           /\ received' \in Seq(Source!Packet) /\ ended' = ended
           /\ PacketCells(n) = Encoded(Ids(n))
           /\ PacketCells(n) \in Seq(CellUpTo(n)) /\ Ids(n) \in Seq(KnownUpTo(n))
           /\ PacketCells(n) \in Seq(Cell) /\ Ids(n) \in Seq(CommandId)
           /\ AllIds' = AllIds \o Ids(n)
           /\ AllCells' = AllCells \o PacketCells(n)
<1>1. Len(received) \in Nat /\ received \in Seq(Source!Packet)
  BY LenProperties DEF TypeInv
<1>2. n \in 1..Len(Packets)
  <2>1. Len(received) < Len(Packets) /\ Len(Packets) \in Nat
    BY BufferAssumption, LenProperties DEF NextPacket
  <2> QED
    BY <1>1, <2>1
<1>3. Source!Expected(n) \in Source!Packet
  <2>1. n \in Nat /\ (n # 1 /\ n # 2 => First + (n - 3) \in Nat)
    BY <1>2, BufferAssumption
  <2> QED
    BY <2>1, BufferAssumption DEF Source!Expected, Source!Packet
<1>4. received' = Append(received, Source!Expected(n)) /\ ended' = ended
  BY DEF NextPacket, Source!Deliver
<1>5. received' \in Seq(Source!Packet) /\ Len(received') = n
  BY <1>1, <1>3, <1>4, AppendProperties
<1>6. Ids(n) \in Seq(KnownUpTo(n)) /\ n \in Nat
  BY <1>2, IdsKnown
<1>7. PacketCells(n) = Encoded(Ids(n)) /\ PacketCells(n) \in Seq(CellUpTo(n)) /\ Ids(n) \in Seq(CommandId)
  BY <1>2, <1>6, EncodedWithin, PacketEncoded
<1>8. AllIds' = IdsUpTo(n) /\ AllCells' = CellsUpTo(n)
  BY <1>5 DEF AllIds, AllCells, IdsUpTo, CellsUpTo
<1>9. AllIds = IdsUpTo(Len(received)) /\ AllCells = CellsUpTo(Len(received))
  BY DEF AllIds, AllCells, IdsUpTo, CellsUpTo
<1>10. AllIds' = AllIds \o Ids(n) /\ AllCells' = AllCells \o PacketCells(n)
  <2>1. Len(received) + 1 <= Len(Packets)
    BY <1>2
  <2> QED
    BY <1>1, <1>8, <1>9, <2>1, UpToNext
<1> QED
  BY <1>2, <1>4, <1>5, <1>6, <1>7, <1>10, PacketEncoded

\* What is stored, and where the position is then.
LEMMA Stored ==
    ASSUME TypeInv, NextPacket, NEW n, n = Len(received) + 1
    PROVE  /\ stream_buffer = "Last" => buffer' = PacketCells(n) /\ position' = 0
           /\ stream_buffer = "Seekable" =>
                /\ buffer' = Written(buffer, position, PacketCells(n))
                /\ position' = position + Len(PacketCells(n))
                /\ stored' = TRUE
           /\ total_ticks' \in {total_ticks, None} /\ stored' \in {stored, TRUE}
           /\ UNCHANGED <<stream_buffer, drains, mode, target_tick, backup, last_tick, passed>>
  BY BufferAssumption DEF TypeInv, NextPacket, Store, WriteAll, Written, setup, scan

-----------------------------------------------------------------------------
(* The type invariant.                                                     *)

\* A command that is read whole ends within the buffer.
LEMMA ReadWithin ==
    ASSUME TypeInv, ReadCmd
    PROVE  /\ Here \in KnownUpTo(Len(received)) /\ Here \in CommandId
           /\ position' \in 0..Len(buffer) /\ position' = position + 1 + Body(Here)
<1>1. Len(buffer) \in Nat /\ position \in 0..Len(buffer) /\ position # Len(buffer)
  BY LenProperties DEF TypeInv, ReadCmd, AtEof
<1>2. position + 1 \in 1..Len(buffer)
  BY <1>1
<1>3. buffer[position + 1] \in CellUpTo(Len(received))
  BY <1>2, ElementOfSeq DEF TypeInv
<1>4. Here \in KnownUpTo(Len(received)) /\ Here \in CommandId
  BY <1>3 DEF Here, CellUpTo, KnownUpTo
<1>5. Body(Here) \in Nat /\ Len(CellsOf(Here)) = 1 + Body(Here)
  BY <1>4, CellsTyped, CommandTyped
<1>6. position + Len(CellsOf(Here)) <= Len(buffer)
  BY DEF ReadCmd, Whole
<1>7. position' = position + 1 + Body(Here)
  BY DEF ReadCmd, Body
<1> DEFINE b == Body(Here)
           l == Len(buffer)
<1>8. l \in Nat /\ b \in Nat /\ position \in 0..l /\ position + (1 + b) <= l
  BY <1>1, <1>5, <1>6
<1>9. position' = position + 1 + b
  BY <1>7
<1> HIDE DEF b, l
<1>10. position' \in 0..l
  BY <1>8, <1>9
<1> QED
  BY <1>4, <1>7, <1>10 DEF l

\* A packet keeps the types.
LEMMA PacketKeepsTypes == ASSUME TypeInv, NextPacket PROVE TypeInv'
<1> DEFINE n == Len(received) + 1
           cells == PacketCells(n)
           m == Len(received)
<1>1. /\ m \in Nat /\ n \in Nat /\ m <= n
      /\ n \in 1..Len(Packets) /\ Len(received') = n
      /\ received' \in Seq(Source!Packet) /\ ended' = ended
      /\ cells \in Seq(CellUpTo(n))
  BY StateTyped, Delivered
<1>2. /\ stream_buffer = "Last" => buffer' = cells /\ position' = 0
      /\ stream_buffer = "Seekable" =>
           buffer' = Written(buffer, position, cells) /\ position' = position + Len(cells)
      /\ total_ticks' \in {total_ticks, None} /\ stored' \in {stored, TRUE}
      /\ UNCHANGED <<stream_buffer, drains, mode, target_tick, backup, last_tick, passed>>
  BY Stored
<1> HIDE DEF n, cells, m
<1>3. buffer \in Seq(CellUpTo(n)) /\ passed' \in Seq(KnownUpTo(n))
  BY <1>1, <1>2, KnownGrows DEF TypeInv, m
<1>4. /\ buffer' \in Seq(CellUpTo(n)) /\ position' \in 0..Len(buffer')
      /\ backup' \in 0..Len(buffer')
  <2>1. CASE stream_buffer = "Last"
    <3>1. Len(cells) \in Nat
      BY <1>1, LenProperties
    <3>2. backup = 0
      BY <2>1 DEF TypeInv
    <3> QED
      BY <1>1, <1>2, <2>1, <3>1, <3>2
  <2>2. CASE stream_buffer = "Seekable"
    <3>1. position \in 0..Len(buffer) /\ backup \in 0..Len(buffer) /\ Len(buffer) \in Nat
      BY StateTyped DEF TypeInv
    <3>2. /\ buffer' \in Seq(CellUpTo(n)) /\ position' \in 0..Len(buffer')
          /\ Len(buffer) <= Len(buffer')
      BY <1>1, <1>2, <1>3, <2>2, <3>1, WrittenTyped
    <3>3. Len(buffer') \in Nat
      BY <3>2, LenProperties
    <3>4. backup \in 0..Len(buffer')
      BY <3>1, <3>2, <3>3
    <3> QED
      BY <1>2, <3>2, <3>4
  <2> QED
    BY <2>1, <2>2, StateTyped
<1>5. n <= Len(Packets)
  BY <1>1, BufferAssumption, LenProperties
<1>6. None \in Seq(Int) /\ Len(None) <= 1
  BY EmptySeq DEF None
<1> QED
  BY <1>1, <1>2, <1>3, <1>4, <1>5, <1>6 DEF TypeInv, n

\* Every step does.
LEMMA TypeStep == ASSUME TypeInv, [Next]_vars PROVE TypeInv'
<1>1. CASE NextPacket
  BY <1>1, PacketKeepsTypes
<1>2. CASE StreamEnds
  BY <1>2 DEF TypeInv, StreamEnds, Source!End, setup, scan, history
<1>3. CASE CallRunToEnd
  BY <1>3 DEF TypeInv, CallRunToEnd, setup, scan, history
<1>4. ASSUME NEW target \in Targets, CallRunToTick(target) PROVE TypeInv'
  <2>1. target \in Int /\ 0 \in 0..Len(buffer)
    BY BufferAssumption, StateTyped
  <2>2. <<>> \in Seq(KnownUpTo(Len(received)))
    BY EmptySeq
  <2> QED
    BY <1>4, <2>1, <2>2 DEF TypeInv, CallRunToTick, NotSeekable, setup, scan
<1>5. CASE CallTotalTicks
  BY <1>5 DEF TypeInv, CallTotalTicks, NotSeekable, setup, history
<1>6. CASE Misuse
  BY <1>6 DEF TypeInv, Misuse, Panic, setup, scan, history
<1>7. CASE ReadCmd
  <2>1. Here \in KnownUpTo(Len(received)) /\ Here \in CommandId /\ position' \in 0..Len(buffer)
    BY <1>7, ReadWithin
  <2>2. CommandOf(Here).tick \in Int
    BY <2>1, CommandTyped
  <2>3. Append(passed, Here) \in Seq(KnownUpTo(Len(received)))
    BY <2>1, AppendProperties DEF TypeInv
  <2>4. last_tick' \in Int /\ passed' \in Seq(KnownUpTo(Len(received)))
    BY <1>7, <2>2, <2>3 DEF TypeInv, ReadCmd
  <2>5. UNCHANGED <<received, ended, stream_buffer, drains, buffer, total_ticks, mode,
                    target_tick, backup, stored>>
    BY <1>7 DEF ReadCmd, setup
  <2> QED
    BY <2>1, <2>4, <2>5 DEF TypeInv
<1>8. CASE StopAtTarget
  BY <1>8 DEF TypeInv, StopAtTarget, setup, scan, history
<1>9. CASE ReadGarbage
  BY <1>9 DEF TypeInv, ReadGarbage, setup, scan, history
<1>10. CASE EndOfRun
  BY <1>10 DEF TypeInv, EndOfRun, setup, scan, history
<1>11. CASE EndOfScan
  <2>1. <<last_tick>> \in Seq(Int) /\ Len(<<last_tick>>) = 1
    BY DEF TypeInv
  <2> QED
    BY <1>11, <2>1 DEF TypeInv, EndOfScan, Some, setup, scan, history
<1>12. CASE UNCHANGED vars
  BY <1>12 DEF TypeInv, vars, setup, scan, history
<1> QED
  BY <1>1, <1>2, <1>3, <1>4, <1>5, <1>6, <1>7, <1>8, <1>9, <1>10, <1>11, <1>12
  DEF Next, Consumer

-----------------------------------------------------------------------------
(* Whole commands in order.                                                *)

\* Reading a command moves it from those ahead to those that passed.
LEMMA PassOne ==
    ASSUME NEW s \in Seq(CommandId), NEW t \in Seq(CommandId), t # <<>>
    PROVE  Append(s, Head(t)) \o Tail(t) = s \o t
<1>1. Head(t) \in CommandId /\ Tail(t) \in Seq(CommandId) /\ t = <<Head(t)>> \o Tail(t)
  BY EncodedFirst
<1>2. <<Head(t)>> \in Seq(CommandId) /\ Append(s, Head(t)) = s \o <<Head(t)>>
  BY <1>1, AppendIsConcat
<1>3. (s \o <<Head(t)>>) \o Tail(t) = s \o (<<Head(t)>> \o Tail(t))
  BY <1>1, <1>2, ConcatAssociative
<1> QED
  BY <1>1, <1>2, <1>3

\* At whole commands, the one at the position is read.
LEMMA ReadsNext ==
    ASSUME TypeInv, ~AtEof, NEW t \in Seq(CommandId), Ahead(buffer, position, t)
    PROVE  /\ Whole /\ t # <<>> /\ Here = Head(t)
           /\ ReadCmd => Ahead(buffer', position', Tail(t)) /\ Tail(t) \in Seq(CommandId)
<1>1. buffer \in Seq(Cell) /\ position \in 0..Len(buffer) /\ position # Len(buffer)
  BY StateTyped DEF TypeInv, AtEof
<1>2. /\ t # <<>> /\ Here = Head(t)
      /\ position + 1 + Body(Here) \in 0..Len(buffer)
      /\ SubSeq(buffer, position + 1, position + Len(CellsOf(Here))) = CellsOf(Here)
      /\ Ahead(buffer, position + 1 + Body(Here), Tail(t))
  BY <1>1, ReadsFirst DEF Here
<1>3. Here \in CommandId /\ Tail(t) \in Seq(CommandId)
  BY <1>2, EncodedFirst
<1>4. Body(Here) \in Nat /\ Len(CellsOf(Here)) = 1 + Body(Here)
  BY <1>3, CellsTyped, CommandTyped
<1>5. position + Len(CellsOf(Here)) <= Len(buffer)
  <2> DEFINE b == Body(Here)
             l == Len(buffer)
  <2>1. b \in Nat /\ l \in Nat /\ position \in Nat /\ position + 1 + b <= l
    BY <1>1, <1>2, <1>4, StateTyped
  <2> HIDE DEF b, l
  <2>2. position + (1 + b) <= l
    BY <2>1
  <2> QED
    BY <1>4, <2>2 DEF b, l
<1>6. Whole
  BY <1>2, <1>5 DEF Whole
<1>7. ReadCmd => buffer' = buffer /\ position' = position + 1 + Body(Here)
  BY DEF ReadCmd, Body
<1> QED
  BY <1>2, <1>3, <1>6, <1>7

\* A packet that is stored when all was read leaves its commands ahead, or, behind the
\* cursor, nothing.
LEMMA PacketKeepsOrder == ASSUME TypeInv, OrderInv, NextPacket PROVE OrderInv'
<1> DEFINE n == Len(received) + 1
           cells == PacketCells(n)
<1>1. /\ n \in 1..Len(Packets)
      /\ cells = Encoded(Ids(n)) /\ cells \in Seq(Cell) /\ Ids(n) \in Seq(CommandId)
      /\ AllIds' = AllIds \o Ids(n) /\ AllCells' = AllCells \o cells
  BY Delivered
<1>2. /\ stream_buffer = "Last" => buffer' = cells /\ position' = 0
      /\ stream_buffer = "Seekable" =>
           /\ buffer' = Written(buffer, position, cells) /\ position' = position + Len(cells)
           /\ stored' = TRUE
      /\ stored' \in {stored, TRUE}
      /\ UNCHANGED <<stream_buffer, drains, mode, passed>>
  BY Stored
<1>3. /\ buffer \in Seq(Cell) /\ passed \in Seq(CommandId)
      /\ stream_buffer \in {"Last", "Seekable"}
  BY StateTyped
<1> SUFFICES ASSUME drains
             PROVE  /\ mode # "garbled"
                    /\ stream_buffer = "Seekable" => buffer' = AllCells'
                    /\ \E t \in Seq(CommandId) : Ahead(buffer', position', t)
                    /\ \E t \in Seq(CommandId) :
                           /\ Ahead(buffer', Resume', t)
                           /\ ~stored' => passed \o t = AllIds'
  BY <1>2 DEF OrderInv
<1>4. mode = "idle" /\ position = Len(buffer) /\ Resume = position /\ Resume' = position'
  BY <1>2 DEF NextPacket, AtEof, Resume
<1>5. ~stored => passed = AllIds
  <2>1. PICK t \in Seq(CommandId) : Ahead(buffer, position, t) /\ (~stored => passed \o t = AllIds)
    BY <1>4 DEF OrderInv
  <2>2. t = <<>>
    BY <1>3, <1>4, <2>1, EndIsReached
  <2>3. passed \o <<>> = passed
    BY <1>3, ConcatEmptySeq
  <2> QED
    BY <2>1, <2>2, <2>3
<1> HIDE DEF n, cells
<1>6. CASE stream_buffer = "Last"
  <2>1. Ahead(buffer', position', Ids(n))
    BY <1>1, <1>2, <1>6, AheadOfAll
  <2>2. ASSUME ~stored' PROVE passed \o Ids(n) = AllIds'
    <3>1. ~stored
      BY <1>2, <2>2
    <3> QED
      BY <1>1, <1>5, <3>1
  <2> QED
    BY <1>1, <1>4, <1>6, <2>1, <2>2
<1>7. CASE stream_buffer = "Seekable"
  <2>1. buffer' = buffer \o cells /\ Len(buffer') = Len(buffer) + Len(cells)
    BY <1>1, <1>2, <1>3, <1>4, <1>7, WrittenAtEnd
  <2>2. buffer = AllCells
    BY <1>7 DEF OrderInv
  <2>3. buffer' \in Seq(Cell) /\ position' = Len(buffer')
    BY <1>1, <1>2, <1>3, <1>4, <1>7, <2>1, ConcatProperties
  <2>4. Ahead(buffer', position', <<>>) /\ <<>> \in Seq(CommandId)
    BY <2>3, AheadOfEnd, EmptySeq
  <2> QED
    BY <1>1, <1>2, <1>4, <1>7, <2>1, <2>2, <2>4
<1> QED
  BY <1>3, <1>6, <1>7

\* Reading, also within a scan, keeps the order.
LEMMA ReadKeepsOrder == ASSUME TypeInv, OrderInv, ReadCmd PROVE OrderInv'
<1>1. /\ UNCHANGED <<received, stream_buffer, drains, buffer, mode, backup, stored>>
      /\ IF mode = "scan" THEN passed' = passed ELSE passed' = Append(passed, Here)
      /\ ~AtEof /\ mode # "garbled"
  BY DEF ReadCmd, Reading, setup
<1>2. AllIds' = AllIds /\ AllCells' = AllCells
  BY <1>1 DEF AllIds, AllCells
<1> SUFFICES ASSUME drains
             PROVE  /\ \E t \in Seq(CommandId) : Ahead(buffer', position', t)
                    /\ \E t \in Seq(CommandId) :
                           /\ Ahead(buffer', Resume', t)
                           /\ ~stored => passed' \o t = AllIds
  BY <1>1, <1>2 DEF OrderInv
<1>3. CASE mode = "scan"
  <2>1. PICK t \in Seq(CommandId) : Ahead(buffer, position, t)
    BY DEF OrderInv
  <2>2. Ahead(buffer', position', Tail(t)) /\ Tail(t) \in Seq(CommandId)
    BY <1>1, <2>1, ReadsNext
  <2>3. Resume' = Resume /\ passed' = passed /\ buffer' = buffer
    BY <1>1, <1>3 DEF Resume
  <2>4. PICK u \in Seq(CommandId) : Ahead(buffer, Resume, u) /\ (~stored => passed \o u = AllIds)
    BY DEF OrderInv
  <2>5. Ahead(buffer', Resume', u) /\ (~stored => passed' \o u = AllIds)
    BY <2>3, <2>4
  <2> QED
    BY <2>2, <2>5
<1>4. CASE mode # "scan"
  <2>1. Resume = position /\ Resume' = position'
    BY <1>1, <1>4 DEF Resume
  <2>2. PICK t \in Seq(CommandId) : Ahead(buffer, position, t) /\ (~stored => passed \o t = AllIds)
    BY <2>1 DEF OrderInv
  <2>3. /\ Ahead(buffer', position', Tail(t)) /\ Tail(t) \in Seq(CommandId)
        /\ t # <<>> /\ Here = Head(t)
    BY <1>1, <2>2, ReadsNext
  <2>4. passed' \o Tail(t) = passed \o t
    BY <1>1, <1>4, <2>3, StateTyped, PassOne
  <2> QED
    BY <2>1, <2>2, <2>3, <2>4
<1> QED
  BY <1>3, <1>4

\* Other steps that leave the buffer and the position alone keep the order.
LEMMA QuietKeepsOrder ==
    ASSUME OrderInv, UNCHANGED <<received, stream_buffer, drains, buffer, position, backup, passed, stored>>,
           mode' # "garbled", mode = "scan" <=> mode' = "scan"
    PROVE  OrderInv'
<1>1. AllIds' = AllIds /\ AllCells' = AllCells /\ Resume' = Resume
  BY DEF AllIds, AllCells, Resume
<1> QED
  BY <1>1 DEF OrderInv

\* Every step keeps the order.
LEMMA OrderStep == ASSUME TypeInv, OrderInv, [Next]_vars PROVE OrderInv'
<1>1. CASE NextPacket
  BY <1>1, PacketKeepsOrder
<1>2. CASE StreamEnds
  BY <1>2, QuietKeepsOrder DEF StreamEnds, Source!End, setup, scan, history
<1>3. CASE CallRunToEnd
  BY <1>3, QuietKeepsOrder DEF CallRunToEnd, setup, scan, history
<1>4. ASSUME NEW target \in Targets, CallRunToTick(target) PROVE OrderInv'
  <2>1. /\ UNCHANGED <<received, stream_buffer, drains, buffer>> /\ stream_buffer = "Seekable"
        /\ mode' = "run_to_tick" /\ position' = 0 /\ passed' = <<>>
    BY <1>4, StateTyped DEF CallRunToTick, NotSeekable, setup
  <2>2. AllIds' = AllIds /\ AllCells' = AllCells /\ Resume' = 0
    BY <2>1 DEF AllIds, AllCells, Resume
  <2>3. ASSUME drains PROVE Ahead(buffer, 0, AllIds)
    <3>1. buffer = AllCells
      BY <2>1, <2>3 DEF OrderInv
    <3> QED
      BY <3>1, StateTyped, AheadOfAll
  <2>4. AllIds \in Seq(CommandId) /\ <<>> \o AllIds = AllIds
    BY StateTyped, ConcatEmptySeq
  <2> QED
    BY <2>1, <2>2, <2>3, <2>4 DEF OrderInv
<1>5. CASE CallTotalTicks
  <2>1. /\ UNCHANGED <<received, stream_buffer, drains, buffer, position, passed, stored>>
        /\ mode = "idle" /\ mode' = "scan" /\ backup' = position
    BY <1>5 DEF CallTotalTicks, setup, history
  <2>2. AllIds' = AllIds /\ AllCells' = AllCells /\ Resume' = position /\ Resume = position
    BY <2>1 DEF AllIds, AllCells, Resume
  <2> QED
    BY <2>1, <2>2 DEF OrderInv
<1>6. CASE Misuse
  BY <1>6, QuietKeepsOrder DEF Misuse, Panic, setup, scan, history
<1>7. CASE ReadCmd
  BY <1>7, ReadKeepsOrder
<1>8. CASE StopAtTarget
  BY <1>8, QuietKeepsOrder DEF StopAtTarget, ReadsTooFar, setup, scan, history
<1>9. CASE ReadGarbage
  <2>1. drains => Whole
    <3>1. ASSUME drains PROVE Whole
      <4>1. PICK t \in Seq(CommandId) : Ahead(buffer, position, t)
        BY <3>1 DEF OrderInv
      <4>2. ~AtEof
        BY <1>9 DEF ReadGarbage
      <4> QED
        BY <4>1, <4>2, ReadsNext
    <3> QED
      BY <3>1
  <2>2. ~drains /\ drains' = drains
    BY <1>9, <2>1 DEF ReadGarbage, setup
  <2> QED
    BY <2>2 DEF OrderInv
<1>10. CASE EndOfRun
  BY <1>10, QuietKeepsOrder DEF EndOfRun, setup, scan, history
<1>11. CASE EndOfScan
  <2>1. /\ UNCHANGED <<received, stream_buffer, drains, buffer, passed, stored>>
        /\ mode = "scan" /\ mode' = "idle" /\ position' = backup
    BY <1>11 DEF EndOfScan, setup, history
  <2>2. AllIds' = AllIds /\ AllCells' = AllCells /\ Resume' = backup /\ Resume = backup
    BY <2>1 DEF AllIds, AllCells, Resume
  <2> QED
    BY <2>1, <2>2 DEF OrderInv
<1>12. CASE UNCHANGED vars
  <2>1. UNCHANGED <<received, stream_buffer, drains, buffer, position, mode, backup, passed, stored>>
    BY <1>12 DEF vars, setup, scan, history
  <2>2. AllIds' = AllIds /\ AllCells' = AllCells /\ Resume' = Resume
    BY <2>1 DEF AllIds, AllCells, Resume
  <2> QED
    BY <2>1, <2>2 DEF OrderInv
<1> QED
  BY <1>1, <1>2, <1>3, <1>4, <1>5, <1>6, <1>7, <1>8, <1>9, <1>10, <1>11, <1>12
  DEF Next, Consumer

-----------------------------------------------------------------------------
(* Never backwards.                                                        *)

\* The commands of a later packet come after those that passed.
LEMMA LaterAscends ==
    ASSUME NEW m \in Nat, NEW s \in Seq(KnownUpTo(m)), Ascending(s),
           m + 1 \in 1..Len(Packets)
    PROVE  Ascending(s \o Ids(m + 1))
<1> DEFINE t == Ids(m + 1)
           r == s \o t
<1>1. t \in Seq(CommandId) /\ \A k \in 1..Len(t) : t[k] = <<m + 1, k>>
  BY IdsTyped
<1>2. s \in Seq(CommandId)
  BY EncodedWithin
<1>3. Len(s) \in Nat /\ Len(t) \in Nat
  BY <1>1, <1>2, LenProperties
<1>4. ASSUME NEW i \in 1..Len(s) PROVE s[i][1] \in Nat /\ s[i][1] <= m
  <2>1. s[i] \in KnownUpTo(m)
    BY ElementOfSeq
  <2> QED
    BY <2>1, CommandTyped DEF KnownUpTo
<1> HIDE DEF t
<1>5. /\ Len(r) = Len(s) + Len(t)
      /\ \A i \in 1..(Len(s) + Len(t)) : r[i] = IF i <= Len(s) THEN s[i] ELSE t[i - Len(s)]
  BY <1>1, <1>2, ConcatProperties
<1> HIDE DEF r
<1>6. ASSUME NEW i \in 1..Len(r), NEW j \in 1..Len(r), i < j
      PROVE  r[i][1] < r[j][1] \/ (r[i][1] = r[j][1] /\ r[i][2] < r[j][2])
  <2>1. CASE j <= Len(s)
    <3>1. i \in 1..Len(s) /\ j \in 1..Len(s) /\ i <= Len(s)
      BY <1>3, <1>5, <1>6, <2>1
    <3>2. r[i] = s[i] /\ r[j] = s[j]
      BY <1>5, <2>1, <3>1
    <3> QED
      BY <1>6, <3>1, <3>2 DEF Ascending
  <2>2. CASE i <= Len(s) /\ ~(j <= Len(s))
    <3>1. i \in 1..Len(s) /\ j - Len(s) \in 1..Len(t)
      BY <1>3, <1>5, <1>6, <2>2
    <3>2. r[i] = s[i] /\ r[j] = <<m + 1, j - Len(s)>>
      BY <1>1, <1>5, <2>2, <3>1
    <3>3. r[j][1] = m + 1
      BY <3>2
    <3> QED
      BY <1>4, <3>1, <3>2, <3>3
  <2>3. CASE ~(i <= Len(s))
    <3>1. /\ i - Len(s) \in 1..Len(t) /\ j - Len(s) \in 1..Len(t) /\ ~(j <= Len(s))
          /\ i - Len(s) < j - Len(s)
      BY <1>3, <1>5, <1>6, <2>3
    <3>2. r[i] = <<m + 1, i - Len(s)>> /\ r[j] = <<m + 1, j - Len(s)>>
      BY <1>1, <1>5, <2>3, <3>1
    <3>3. /\ r[i][1] = m + 1 /\ r[j][1] = m + 1
          /\ r[i][2] = i - Len(s) /\ r[j][2] = j - Len(s)
      BY <3>2
    <3> QED
      BY <3>1, <3>3
  <2> QED
    BY <2>1, <2>2, <2>3
<1> QED
  BY <1>6 DEF Ascending, r, t

\* A part of an ascending list ascends.
LEMMA AscendingPrefix ==
    ASSUME NEW s \in Seq(CommandId), NEW t \in Seq(CommandId), Ascending(s \o t)
    PROVE  Ascending(s)
<1>1. /\ Len(s) \in Nat /\ Len(t) \in Nat /\ Len(s \o t) = Len(s) + Len(t)
      /\ \A i \in 1..(Len(s) + Len(t)) :
           (s \o t)[i] = IF i <= Len(s) THEN s[i] ELSE t[i - Len(s)]
  BY ConcatProperties, LenProperties
<1>2. \A i \in 1..Len(s) : i \in 1..Len(s \o t) /\ i \in 1..(Len(s) + Len(t)) /\ i <= Len(s)
  BY <1>1
<1>3. \A i \in 1..Len(s) : (s \o t)[i] = s[i] /\ i \in 1..Len(s \o t)
  BY <1>1, <1>2
<1> QED
  BY <1>3 DEF Ascending

\* Every step of the last packet's buffer keeps what is ahead of it later than
\* what passed.
LEMMA LastStep == ASSUME TypeInv, LastInv, [Next]_vars PROVE LastInv'
<1> SUFFICES ASSUME stream_buffer = "Last", stream_buffer' = stream_buffer
             PROVE  \E t \in Seq(CommandId) :
                        Ahead(buffer', position', t) /\ Ascending(passed' \o t)
  <2>1. stream_buffer' = stream_buffer
    BY DEF Next, Consumer, NextPacket, StreamEnds, CallRunToEnd, CallRunToTick,
           CallTotalTicks, Misuse, Panic, ReadCmd, StopAtTarget, ReadGarbage,
           EndOfRun, EndOfScan, vars, setup
  <2> QED
    BY <2>1 DEF LastInv
<1>1. PICK t \in Seq(CommandId) : Ahead(buffer, position, t) /\ Ascending(passed \o t)
  BY DEF LastInv
<1>2. CASE NextPacket
  <2> DEFINE n == Len(received) + 1
  <2>1. /\ n \in 1..Len(Packets) /\ PacketCells(n) = Encoded(Ids(n))
        /\ PacketCells(n) \in Seq(Cell) /\ Ids(n) \in Seq(CommandId)
    BY <1>2, Delivered
  <2>2. buffer' = PacketCells(n) /\ position' = 0 /\ passed' = passed
    BY <1>2, Stored
  <2>3. Ahead(buffer', position', Ids(n))
    BY <2>1, <2>2, AheadOfAll
  <2>4. Len(received) \in Nat /\ passed \in Seq(CommandId)
        /\ passed \in Seq(KnownUpTo(Len(received)))
    BY StateTyped DEF TypeInv
  <2>5. Ascending(passed)
    BY <1>1, <2>4, AscendingPrefix
  <2>6. Ascending(passed \o Ids(n))
    BY <2>1, <2>4, <2>5, LaterAscends
  <2> QED
    BY <2>1, <2>2, <2>3, <2>6
<1>3. CASE ReadCmd
  <2>1. mode # "scan" /\ ~AtEof
    BY <1>3 DEF TypeInv, ReadCmd
  <2>2. /\ Ahead(buffer', position', Tail(t)) /\ Tail(t) \in Seq(CommandId)
        /\ t # <<>> /\ Here = Head(t)
    BY <1>1, <1>3, <2>1, ReadsNext
  <2>3. passed' = Append(passed, Here)
    BY <1>3, <2>1 DEF ReadCmd
  <2>4. passed' \o Tail(t) = passed \o t
    BY <2>2, <2>3, StateTyped, PassOne
  <2> QED
    BY <1>1, <2>2, <2>4
<1>4. CASE ~NextPacket /\ ~ReadCmd
  <2>1. UNCHANGED <<buffer, position, passed>>
    <3>1. ~CallTotalTicks /\ ~EndOfScan /\ \A target \in Targets : ~CallRunToTick(target)
      BY DEF TypeInv, CallTotalTicks, EndOfScan, CallRunToTick, NotSeekable
    <3> QED
      BY <1>4, <3>1 DEF Next, Consumer, StreamEnds, CallRunToEnd, Misuse, Panic,
         StopAtTarget, ReadGarbage, EndOfRun, vars, history
  <2> QED
    BY <1>1, <2>1
<1> QED
  BY <1>2, <1>3, <1>4

-----------------------------------------------------------------------------
(* The theorems.                                                           *)

\* The invariant holds at first.
LEMMA InitInvariant == Init => IInv
<1> SUFFICES ASSUME Init PROVE IInv
  OBVIOUS
<1>1. /\ received = <<>> /\ ended = "no" /\ buffer = <<>> /\ position = 0 /\ backup = 0
      /\ total_ticks = <<>> /\ mode = "idle" /\ passed = <<>>
  BY DEF Init, Source!Init, None
<1>2. /\ Len(received) = 0 /\ received \in Seq(Source!Packet)
      /\ buffer \in Seq(CellUpTo(0)) /\ buffer \in Seq(Cell) /\ Len(buffer) = 0
      /\ passed \in Seq(KnownUpTo(0)) /\ passed \in Seq(CommandId)
      /\ total_ticks \in Seq(Int) /\ Len(total_ticks) = 0
  BY <1>1, EmptySeq
<1>3. 0 <= Len(Packets)
  BY BufferAssumption, LenProperties
<1>4. TypeInv
  <2>1. /\ stream_buffer \in Buffers /\ drains \in BOOLEAN /\ target_tick = -1 /\ last_tick = -1
        /\ stored = FALSE
    BY DEF Init
  <2>2. position \in 0..Len(buffer) /\ backup \in 0..Len(buffer)
    BY <1>1, <1>2
  <2>3. buffer \in Seq(CellUpTo(Len(received))) /\ passed \in Seq(KnownUpTo(Len(received)))
    BY <1>2
  <2>4. Len(received) <= Len(Packets) /\ Len(total_ticks) <= 1
    BY <1>2, <1>3
  <2>5. ended \in {"no", "none", "error"} /\ stored \in BOOLEAN
        /\ mode \in {"idle", "run_to_end", "run_to_tick", "scan", "garbled", "panic"}
        /\ (stream_buffer = "Last" => mode # "scan" /\ backup = 0)
    BY <1>1, <2>1
  <2>6. target_tick \in Int /\ last_tick \in Int
    BY <2>1
  <2> QED
    BY <1>2, <2>1, <2>2, <2>3, <2>4, <2>5, <2>6 DEF TypeInv
<1>5. Ahead(buffer, 0, <<>>) /\ <<>> \in Seq(CommandId)
  BY <1>1, <1>2, AheadOfEnd, EmptySeq
<1>6. AllIds = <<>> /\ AllCells = <<>>
  BY <1>2, UpToNone DEF AllIds, AllCells, IdsUpTo, CellsUpTo
<1>7. passed \o <<>> = <<>> /\ Len(<<>>) = 0
  BY <1>1, <1>5, ConcatEmptySeq
<1>8. OrderInv
  BY <1>1, <1>5, <1>6, <1>7 DEF OrderInv, Resume
<1>9. LastInv
  <2>1. Ascending(<<>>)
    BY DEF Ascending
  <2> QED
    BY <1>1, <1>5, <1>7, <2>1 DEF LastInv
<1> QED
  BY <1>4, <1>8, <1>9 DEF IInv

\* The inductive invariant: the buffers' types, the commands ahead of a consumer
\* that drains, and those ahead of any consumer of the last packet.
THEOREM BufferInvariant == Spec => []IInv
<1>1. Init => IInv
  BY InitInvariant
<1>2. IInv /\ [Next]_vars => IInv'
  BY TypeStep, OrderStep, LastStep DEF IInv
<1> QED
  BY <1>1, <1>2, PTL DEF Spec

\* The buffer holds cells of packets that were received, and all positions,
\* also the one that a scan put by, lie within it.
THEOREM BufferTypeOK == Spec => []TypeOK
<1>1. IInv => TypeOK
  BY InvariantTyped DEF IInv
<1> QED
  BY <1>1, BufferInvariant, PTL

\* A list is a prefix of any longer one.
LEMMA PrefixOfAll ==
    ASSUME NEW s \in Seq(CommandId), NEW t \in Seq(CommandId)
    PROVE  IsPrefix(s, s \o t)
<1>1. Len(s) \in Nat /\ Len(t) \in Nat /\ Len(s \o t) = Len(s) + Len(t)
  BY ConcatProperties, LenProperties
<1>2. SubSeq(s, 1, Len(s)) = SubSeq(s \o t, 1, Len(s))
  <2>1. CASE Len(s) = 0
    BY <2>1, SubSeqEmpty
  <2>2. CASE Len(s) # 0
    <3>1. 1 \in 1..Len(s) /\ Len(s) \in 1..Len(s)
      BY <1>1, <2>2
    <3> QED
      BY <3>1, SubSeqOfConcat1
  <2> QED
    BY <2>1, <2>2
<1> QED
  BY <1>1, <1>2 DEF IsPrefix

\* A consumer that drains the buffer reads whole commands, each once and in
\* order, and is given the end only behind the last of them: always with the last
\* packet's buffer, with the cursor from a seek until the next packet.
THEOREM BufferReadsInOrder == Spec => []ReadsInOrder
<1>1. ASSUME IInv PROVE ReadsInOrder
  <2> SUFFICES ASSUME drains
               PROVE  /\ mode # "garbled"
                      /\ ~stored =>
                           /\ IsPrefix(passed, AllIds)
                           /\ mode \in {"idle", "run_to_end"} /\ AtEof => passed = AllIds
    BY DEF ReadsInOrder
  <2>1. PICK t \in Seq(CommandId) : Ahead(buffer, Resume, t) /\ (~stored => passed \o t = AllIds)
    BY <1>1 DEF IInv, OrderInv
  <2>2. buffer \in Seq(Cell) /\ passed \in Seq(CommandId)
    BY <1>1, StateTyped DEF IInv
  <2>3. ~stored => IsPrefix(passed, AllIds)
    BY <2>1, <2>2, PrefixOfAll
  <2>4. ASSUME ~stored, mode \in {"idle", "run_to_end"}, AtEof PROVE passed = AllIds
    <3>1. Resume = Len(buffer)
      BY <2>4 DEF Resume, AtEof
    <3>2. t = <<>>
      BY <2>1, <2>2, <3>1, EndIsReached
    <3>3. passed \o <<>> = passed
      BY <2>2, ConcatEmptySeq
    <3> QED
      BY <2>1, <2>4, <3>2, <3>3
  <2>5. mode # "garbled"
    BY <1>1 DEF IInv, OrderInv
  <2> QED
    BY <2>3, <2>4, <2>5
<1> QED
  BY <1>1, BufferInvariant, PTL

\* The cursor holds every packet, in order, for a consumer that drains it,
\* however it seeks and scans.
THEOREM BufferHoldsAll == Spec => []BuffersAll
<1>1. IInv => BuffersAll
  BY DEF IInv, OrderInv, BuffersAll
<1> QED
  BY <1>1, BufferInvariant, PTL

\* No consumer of the last packet's buffer reads a command twice, or one after a
\* later one, whenever it asks for packets.
THEOREM BufferNeverBackwards == Spec => []NeverBackwards
<1>1. ASSUME IInv PROVE NeverBackwards
  <2>1. passed \in Seq(CommandId)
    BY <1>1, StateTyped DEF IInv
  <2>2. stream_buffer = "Last" => Ascending(passed)
    BY <1>1, <2>1, AscendingPrefix DEF IInv, LastInv
  <2> QED
    BY <2>2 DEF NeverBackwards, Ascending
<1> QED
  BY <1>1, BufferInvariant, PTL
=============================================================================
