-------------------------- MODULE FieldPathsProofs --------------------------
(***************************************************************************)
(* Proofs about FieldPaths, for components of any width, paths of any      *)
(* length and any numbers: the path is well-typed, and every topographical *)
(* operation moves it forward.                                             *)
(*                                                                         *)
(* The argument is one about moves.  A topographical operation either adds *)
(* something to the component it ends up at, which is then the first one   *)
(* to differ from the path before, and greater; or it adds nothing, pops   *)
(* nothing and pushes, so that the path before is a prefix of the new one. *)
(*                                                                         *)
(* Of the tree it is shown first that it is a code, whatever the weights,  *)
(* and then, for the weights there are, how long the codes are.            *)
(***************************************************************************)
EXTENDS FieldPaths, Induction

\* What there is to know of the path between two steps.
PathInv ==
    /\ fp \in FieldPath /\ i \in Nat
    /\ i = 0 => fp = Default

\* What there is to know of a move.
Move(m) == m[1] \in Nat /\ m[2] \in Int /\ m[3] \in Seq(Nat)
Forward(m) == m[2] > 0 \/ (m[2] = 0 /\ m[1] = 0 /\ Len(m[3]) > 0)

-----------------------------------------------------------------------------
(* The moves of the operations.                                            *)

\* Lists of numbers are sequences of the length they are said to have.
LEMMA ValuesTyped ==
    ASSUME NEW n \in Nat, NEW vs \in Values(n)
    PROVE  vs \in Seq(Nat) /\ Len(vs) = n
<1>1. vs \in [1..n -> Nat]
  BY FieldPathAssumption DEF Values
<1>2. vs \in Seq(Nat)
  BY <1>1, SeqDef
<1> QED
  BY <1>1, <1>2, LenProperties

\* A list of one number.
LEMMA OneTyped == ASSUME NEW n \in Nat PROVE <<n>> \in Seq(Nat) /\ Len(<<n>>) = 1
  OBVIOUS

\* Whoever adds and does not push moves forward.
LEMMA AddingForward ==
    ASSUME NEW P \in SUBSET Nat, NEW A \in SUBSET (Nat \ {0}),
           NEW m \in P \X A \X NoPush
    PROVE  Move(m) /\ Forward(m)
<1>1. m[1] \in P /\ m[2] \in A /\ m[3] \in NoPush
  OBVIOUS
<1>2. m[3] \in Seq(Nat)
  BY <1>1, EmptySeq DEF NoPush
<1>3. m[1] \in Nat
  BY <1>1
<1>4. m[2] \in Int /\ m[2] > 0
  <2>1. m[2] \in Nat \ {0}
    BY <1>1
  <2> QED
    BY <2>1
<1> QED
  BY <1>2, <1>3, <1>4 DEF Move, Forward

\* Whoever pops nothing and pushes moves forward, too.
LEMMA PushingForward ==
    ASSUME NEW A \in SUBSET Nat, NEW L,
           \A vs \in L : vs \in Seq(Nat) /\ Len(vs) > 0,
           NEW m \in {0} \X A \X L
    PROVE  Move(m) /\ Forward(m)
<1>1. m[1] \in {0} /\ m[2] \in A /\ m[3] \in L
  OBVIOUS
<1>2. m[1] \in Nat /\ m[1] = 0
  BY <1>1
<1>3. m[2] \in Int /\ m[2] >= 0
  <2>1. m[2] \in Nat
    BY <1>1
  <2> QED
    BY <2>1
<1>4. m[3] \in Seq(Nat) /\ Len(m[3]) > 0
  BY <1>1
<1> QED
  BY <1>2, <1>3, <1>4 DEF Move, Forward

\* The five operations that add to the last component.
LEMMA PlusForward ==
    ASSUME NEW o \in DOMAIN PlusMoves, NEW m \in PlusMoves[o]
    PROVE  Move(m) /\ Forward(m)
<1>0. {0} \in SUBSET Nat
  OBVIOUS
<1>1. Up(5) \in SUBSET (Nat \ {0})
  BY FieldPathAssumption DEF Up
<1>2. \E P \in SUBSET Nat, A \in SUBSET (Nat \ {0}) : m \in P \X A \X NoPush
  <2>1. o \in {"PlusOne", "PlusTwo", "PlusThree", "PlusFour", "PlusN"}
    BY DEF PlusMoves
  <2>2. CASE o = "PlusOne"   BY <2>2, <1>0, {1} \in SUBSET (Nat \ {0}) DEF PlusMoves
  <2>3. CASE o = "PlusTwo"   BY <2>3, <1>0, {2} \in SUBSET (Nat \ {0}) DEF PlusMoves
  <2>4. CASE o = "PlusThree" BY <2>4, <1>0, {3} \in SUBSET (Nat \ {0}) DEF PlusMoves
  <2>5. CASE o = "PlusFour"  BY <2>5, <1>0, {4} \in SUBSET (Nat \ {0}) DEF PlusMoves
  <2>6. CASE o = "PlusN"     BY <2>6, <1>0, <1>1 DEF PlusMoves
  <2> QED
    BY <2>1, <2>2, <2>3, <2>4, <2>5, <2>6
<1> QED
  BY <1>2, AddingForward

\* The seven operations that pop and then add.
LEMMA PopForward ==
    ASSUME fp \in FieldPath, NEW o \in DOMAIN PopMoves, NEW m \in PopMoves[o]
    PROVE  Move(m) /\ Forward(m)
<1>1. Up(1) \in SUBSET (Nat \ {0}) /\ {1} \in SUBSET (Nat \ {0})
  BY FieldPathAssumption DEF Up
<1>2. {fp.last} \in SUBSET Nat /\ {1} \in SUBSET Nat /\ Numbers \in SUBSET Nat
  BY FieldPathAssumption DEF FieldPath, Index
<1>3. \E P \in SUBSET Nat, A \in SUBSET (Nat \ {0}) : m \in P \X A \X NoPush
  <2>1. CASE o = "PopOnePlusOne"
    BY <2>1, <1>1, <1>2 DEF PopMoves
  <2>2. CASE o = "PopOnePlusN"
    BY <2>2, <1>1, <1>2 DEF PopMoves
  <2>3. CASE o = "PopAllButOnePlusOne"
    BY <2>3, <1>1, <1>2 DEF PopMoves
  <2>4. CASE o = "PopAllButOnePlusN"
    BY <2>4, <1>1, <1>2 DEF PopMoves
  <2>5. CASE o = "PopAllButOnePlusNPack3Bits"
    BY <2>5, <1>1, <1>2 DEF PopMoves
  <2>6. CASE o = "PopAllButOnePlusNPack6Bits"
    BY <2>6, <1>1, <1>2 DEF PopMoves
  <2>7. CASE o = "PopNPlusOne"
    BY <2>7, <1>1, <1>2 DEF PopMoves
  <2> QED
    BY <2>1, <2>2, <2>3, <2>4, <2>5, <2>6, <2>7 DEF PopMoves
<1> QED
  BY <1>3, AddingForward

\* What the operations that push may push.
Ones == {<<v>> : v \in Up(1)}
Pushed == {Zero, Values(1), Values(2), Values(3), Ones}
Added == {{0}, {1}, Up(0), Up(2)}

\* All of it moves the path forward.
LEMMA PushedForward ==
    ASSUME NEW A \in Added, NEW L \in Pushed, NEW m \in {0} \X A \X L
    PROVE  Move(m) /\ Forward(m)
<1>1. A \in SUBSET Nat
  BY FieldPathAssumption DEF Added, Up
<1>2. ASSUME NEW vs \in L PROVE vs \in Seq(Nat) /\ Len(vs) > 0
  <2>1. CASE L \in {Values(1), Values(2), Values(3)}
    BY <2>1, ValuesTyped
  <2>2. CASE L = Zero
    <3>1. vs = <<0>> /\ 0 \in Nat
      BY <2>2 DEF Zero
    <3> QED
      BY <3>1, OneTyped
  <2>3. CASE L = Ones
    <3>1. PICK v \in Up(1) : vs = <<v>>
      BY <2>3 DEF Ones
    <3>2. v \in Nat
      BY FieldPathAssumption DEF Up
    <3> QED
      BY <3>1, <3>2, OneTyped
  <2> QED
    BY <2>1, <2>2, <2>3 DEF Pushed
<1> QED
  BY <1>1, <1>2, PushingForward

\* The eight operations that push one component.
LEMMA PushOneForward ==
    ASSUME NEW o \in DOMAIN PushOneMoves, NEW m \in PushOneMoves[o]
    PROVE  Move(m) /\ Forward(m)
<1>1. \E A \in Added, L \in Pushed : m \in {0} \X A \X L
  <2> USE DEF Added, Pushed, Ones
  <2>1. CASE o = "PushOneLeftDeltaZeroRightZero"
    BY <2>1 DEF PushOneMoves
  <2>2. CASE o = "PushOneLeftDeltaZeroRightNonZero"
    BY <2>2 DEF PushOneMoves
  <2>3. CASE o = "PushOneLeftDeltaOneRightZero"
    BY <2>3 DEF PushOneMoves
  <2>4. CASE o = "PushOneLeftDeltaOneRightNonZero"
    BY <2>4 DEF PushOneMoves
  <2>5. CASE o = "PushOneLeftDeltaNRightZero"
    BY <2>5 DEF PushOneMoves
  <2>6. CASE o = "PushOneLeftDeltaNRightNonZero"
    BY <2>6 DEF PushOneMoves
  <2>7. CASE o = "PushOneLeftDeltaNRightNonZeroPack6Bits"
    BY <2>7 DEF PushOneMoves
  <2>8. CASE o = "PushOneLeftDeltaNRightNonZeroPack8Bits"
    BY <2>8 DEF PushOneMoves
  <2> QED
    BY <2>1, <2>2, <2>3, <2>4, <2>5, <2>6, <2>7, <2>8 DEF PushOneMoves
<1> QED
  BY <1>1, PushedForward

\* The twelve operations that push two or three components.
LEMMA PushMoreForward ==
    ASSUME NEW o \in DOMAIN PushMoreMoves, NEW m \in PushMoreMoves[o]
    PROVE  Move(m) /\ Forward(m)
<1>1. \E A \in Added, L \in Pushed : m \in {0} \X A \X L
  <2> USE DEF Added, Pushed
  <2>1. CASE o = "PushTwoLeftDeltaZero"
    BY <2>1 DEF PushMoreMoves
  <2>2. CASE o = "PushTwoLeftDeltaOne"
    BY <2>2 DEF PushMoreMoves
  <2>3. CASE o = "PushTwoLeftDeltaN"
    BY <2>3 DEF PushMoreMoves
  <2>4. CASE o = "PushTwoPack5LeftDeltaZero"
    BY <2>4 DEF PushMoreMoves
  <2>5. CASE o = "PushTwoPack5LeftDeltaOne"
    BY <2>5 DEF PushMoreMoves
  <2>6. CASE o = "PushTwoPack5LeftDeltaN"
    BY <2>6 DEF PushMoreMoves
  <2>7. CASE o = "PushThreeLeftDeltaZero"
    BY <2>7 DEF PushMoreMoves
  <2>8. CASE o = "PushThreeLeftDeltaOne"
    BY <2>8 DEF PushMoreMoves
  <2>9. CASE o = "PushThreeLeftDeltaN"
    BY <2>9 DEF PushMoreMoves
  <2>10. CASE o = "PushThreePack5LeftDeltaZero"
    BY <2>10 DEF PushMoreMoves
  <2>11. CASE o = "PushThreePack5LeftDeltaOne"
    BY <2>11 DEF PushMoreMoves
  <2>12. CASE o = "PushThreePack5LeftDeltaN"
    BY <2>12 DEF PushMoreMoves
  <2> QED
    BY <2>1, <2>2, <2>3, <2>4, <2>5, <2>6, <2>7, <2>8, <2>9, <2>10, <2>11, <2>12 DEF PushMoreMoves
<1> QED
  BY <1>1, PushedForward

-----------------------------------------------------------------------------
(* Moving a path.                                                          *)

\* Shortening, changing and lengthening a path leaves it a path.
LEMMA PopTyped ==
    ASSUME NEW p \in FieldPath, NEW n \in 0..p.last
    PROVE  /\ Pop(p, n) \in FieldPath
           /\ Pop(p, n).last = p.last - n
           /\ \A k \in 0..(p.last - n) : Pop(p, n).data[k] = p.data[k]
  BY FieldPathAssumption DEF Pop, FieldPath, Index

\* Every number is cut to a component.
LEMMA ByteTyped == ASSUME NEW v \in Int PROVE v % Base \in 0..(Base - 1)
  BY FieldPathAssumption

\* A component is not cut, and -1 counts as Base - 1.
LEMMA ByteKept ==
    ASSUME NEW v \in 0..(Base - 1) PROVE v % Base = v /\ (Base + v) % Base = v
  BY FieldPathAssumption

\* Adding to the last component changes that component only.
LEMMA IncLastTyped ==
    ASSUME NEW p \in FieldPath, NEW v \in Int
    PROVE  /\ IncLast(p, v) \in FieldPath
           /\ IncLast(p, v).last = p.last
           /\ IncLast(p, v).data[p.last] = (p.data[p.last] + v) % Base
           /\ \A k \in Index \ {p.last} : IncLast(p, v).data[k] = p.data[k]
<1>1. p.last \in Index /\ p.data \in [Index -> 0..(Base - 1)]
  BY DEF FieldPath
<1>2. (p.data[p.last] + v) % Base \in 0..(Base - 1)
  BY <1>1, ByteTyped, FieldPathAssumption
<1> DEFINE data == [p.data EXCEPT ![p.last] = (@ + v) % Base]
<1>3. IncLast(p, v) = [p EXCEPT !.data = data]
  BY DEF IncLast
<1>4. data \in [Index -> 0..(Base - 1)]
  BY <1>1, <1>2
<1>5. /\ data[p.last] = (p.data[p.last] + v) % Base
      /\ \A k \in Index \ {p.last} : data[k] = p.data[k]
  BY <1>1
<1> HIDE DEF data
<1> QED
  BY <1>1, <1>3, <1>4, <1>5 DEF FieldPath

\* Pushing keeps the components there are.
LEMMA PushTyped ==
    ASSUME NEW p \in FieldPath, NEW vs \in Seq(Int), p.last + Len(vs) \in Index
    PROVE  /\ Push(p, vs) \in FieldPath
           /\ Push(p, vs).last = p.last + Len(vs)
           /\ \A k \in 0..p.last : Push(p, vs).data[k] = p.data[k]
<1>1. p.last \in Index /\ p.data \in [Index -> 0..(Base - 1)] /\ Len(vs) \in Nat
  BY DEF FieldPath
<1>2. ASSUME NEW k \in Index, k \in (p.last + 1)..(p.last + Len(vs))
      PROVE  vs[k - p.last] % Base \in 0..(Base - 1)
  <2>a. p.last \in Int /\ Len(vs) \in Int
    BY <1>1, FieldPathAssumption DEF Index
  <2>1. k - p.last \in 1..Len(vs)
    BY <2>a, <1>2
  <2>2. vs[k - p.last] \in Int
    BY <2>1
  <2> QED
    BY <2>2, ByteTyped
<1>3. Push(p, vs).data \in [Index -> 0..(Base - 1)]
  BY <1>1, <1>2 DEF Push
<1>4. \A k \in 0..p.last : Push(p, vs).data[k] = p.data[k]
  BY <1>1, FieldPathAssumption DEF Push, Index
<1> QED
  BY <1>3, <1>4 DEF Push, FieldPath

\* Adding to several components leaves a path of the same length.
LEMMA IncTyped ==
    ASSUME NEW p \in FieldPath, NEW increments,
           \A k \in Index \cap DOMAIN increments : increments[k] \in Int
    PROVE  Inc(p, increments) \in FieldPath /\ Inc(p, increments).last = p.last
<1> DEFINE data == [k \in Index |->
                       IF k \in DOMAIN increments
                       THEN (p.data[k] + increments[k]) % Base ELSE p.data[k]]
<1>1. p.data \in [Index -> 0..(Base - 1)]
  BY DEF FieldPath
<1>2. ASSUME NEW k \in Index, k \in DOMAIN increments
      PROVE  (p.data[k] + increments[k]) % Base \in 0..(Base - 1)
  BY <1>1, <1>2, ByteTyped, FieldPathAssumption
<1>3. data \in [Index -> 0..(Base - 1)]
  BY <1>1, <1>2
<1>4. Inc(p, increments) = [p EXCEPT !.data = data]
  BY DEF Inc
<1> HIDE DEF data
<1> QED
  BY <1>3, <1>4 DEF FieldPath

\* A legal move leads to a path whose components up to the one that is added
\* to are the ones before, that one increased.
LEMMA MovedTyped ==
    ASSUME PathInv, NEW m, Move(m), LegalMove(m)
    PROVE  /\ Moved(m) \in FieldPath
           /\ fp.last - m[1] \in 0..fp.last
           /\ Moved(m).last = fp.last - m[1] + Len(m[3])
           /\ \A k \in 0..(fp.last - m[1] - 1) : Moved(m).data[k] = Component(fp, k)
           /\ Moved(m).data[fp.last - m[1]] = Component(fp, fp.last - m[1]) + m[2]
<1> DEFINE k == fp.last - m[1]
           popped == Pop(fp, m[1])
           added == IncLast(popped, m[2])
<1>1. /\ fp \in FieldPath /\ fp.last \in Index /\ m[1] \in 0..fp.last /\ m[2] \in Int
      /\ m[3] \in Seq(Int) /\ Len(m[3]) \in Nat /\ k + Len(m[3]) \in Index
      /\ k \in 0..fp.last /\ k \in Index /\ k \in Nat
  <2>1. fp \in FieldPath /\ fp.last \in 0..(Components - 1)
    BY DEF PathInv, FieldPath, Index
  <2>2. m[1] \in Nat /\ m[1] <= fp.last /\ m[2] \in Int
    BY DEF Move, LegalMove
  <2>3. m[3] \in Seq(Int) /\ Len(m[3]) \in Nat
    BY DEF Move
  <2>4. k + Len(m[3]) \in Index
    BY DEF LegalMove
  <2>5. fp.last \in Nat /\ fp.last < Components /\ Components \in Nat
    BY <2>1, FieldPathAssumption
  <2>6. m[1] \in 0..fp.last /\ k \in 0..fp.last /\ k \in 0..(Components - 1) /\ k \in Nat
    BY <2>2, <2>5
  <2> QED
    BY <2>1, <2>2, <2>3, <2>4, <2>6 DEF Index
<1>2. /\ popped \in FieldPath /\ popped.last = k
      /\ \A j \in 0..k : popped.data[j] = fp.data[j]
  BY <1>1, PopTyped
<1>3. /\ added \in FieldPath /\ added.last = k
      /\ added.data[k] = (popped.data[k] + m[2]) % Base
      /\ \A j \in Index \ {k} : added.data[j] = popped.data[j]
  <2> HIDE DEF k, popped
  <2> QED
    BY <1>1, <1>2, IncLastTyped
<1>4. /\ Moved(m) \in FieldPath /\ Moved(m).last = k + Len(m[3])
      /\ \A j \in 0..k : Moved(m).data[j] = added.data[j]
  <2>1. Moved(m) = Push(added, m[3])
    BY DEF Moved
  <2> HIDE DEF k, popped, added
  <2> QED
    BY <1>1, <1>3, <2>1, PushTyped
<1>5. i = 0 => k = 0 /\ fp.data[0] = Base - 1
  BY <1>1, FieldPathAssumption DEF PathInv, Default, Index
<1>6. fp.data[k] \in 0..(Base - 1) /\ Component(fp, k) + m[2] \in 0..(Base - 1)
  BY <1>1 DEF LegalMove, FieldPath
<1>7. Moved(m).data[k] = (fp.data[k] + m[2]) % Base
  BY <1>1, <1>2, <1>3, <1>4
<1>8. Moved(m).data[k] = Component(fp, k) + m[2]
  <2> DEFINE d == m[2]
  <2>a. d \in Int /\ Base \in Int /\ fp.data[k] \in Int
    BY <1>1, <1>6, FieldPathAssumption
  <2>b. /\ Component(fp, k) + d \in 0..(Base - 1)
        /\ Moved(m).data[k] = (fp.data[k] + d) % Base
    BY <1>6, <1>7
  <2>1. CASE i = 0 /\ k = 0
    <3>1. fp.data[k] = Base - 1 /\ Component(fp, k) = -1
      BY <2>1, <1>5 DEF Component
    <3> HIDE DEF k, d
    <3>2. d - 1 \in 0..(Base - 1) /\ fp.data[k] + d = Base + (d - 1)
      BY <3>1, <2>a, <2>b
    <3>3. (Base + (d - 1)) % Base = d - 1
      BY <3>2, ByteKept
    <3> QED
      BY <3>1, <3>2, <3>3, <2>a, <2>b DEF d
  <2>2. CASE ~(i = 0 /\ k = 0)
    <3>1. Component(fp, k) = fp.data[k]
      BY <2>2 DEF Component
    <3> HIDE DEF k, d
    <3> QED
      BY <3>1, <2>b, ByteKept DEF d
  <2> QED
    BY <2>1, <2>2
<1>9. \A j \in 0..(k - 1) : Moved(m).data[j] = Component(fp, j)
  <2> SUFFICES ASSUME NEW j \in 0..(k - 1) PROVE Moved(m).data[j] = Component(fp, j)
    OBVIOUS
  <2>1. j \in 0..k /\ j # k /\ j \in Index /\ i # 0
    <3>1. k \in Nat /\ k \in 0..(Components - 1) /\ j \in 0..(k - 1)
      BY <1>1 DEF Index
    <3> HIDE DEF k
    <3> QED
      BY <3>1, <1>5, FieldPathAssumption DEF Index
  <2>2. Component(fp, j) = fp.data[j]
    BY <2>1 DEF Component
  <2> HIDE DEF k, popped, added
  <2> QED
    BY <2>1, <2>2, <1>2, <1>3, <1>4
<1> QED
  BY <1>1, <1>4, <1>8, <1>9

\* A legal move that is a forward one leads to a later path.
LEMMA MovedForward ==
    ASSUME PathInv, NEW m, Move(m), Forward(m), LegalMove(m),
           fp' = Moved(m), i' = i + 1
    PROVE  Less(Path, Path')
<1> DEFINE k == fp.last - m[1]
<1>1. /\ fp.last \in Nat /\ m[1] \in Nat /\ m[2] \in Int /\ Len(m[3]) \in Nat
      /\ i \in Nat /\ i' # 0 /\ k \in 0..fp.last
      /\ Component(fp, k) + m[2] \in Int /\ Component(fp, k) \in Int
  <2>1. k \in Index
    BY MovedTyped, FieldPathAssumption DEF PathInv, FieldPath, Index
  <2>2. fp.data[k] \in Int
    BY <2>1, FieldPathAssumption DEF PathInv, FieldPath
  <2>3. Component(fp, k) \in Int /\ m[2] \in Int
    BY <2>2 DEF Component, Move
  <2>4. fp.last \in Nat /\ m[1] \in Nat /\ Len(m[3]) \in Nat
    BY FieldPathAssumption DEF PathInv, Move, FieldPath, Index
  <2>5. i \in Nat /\ i' # 0
    BY DEF PathInv
  <2> QED
    BY <2>3, <2>4, <2>5, MovedTyped
<1>2. /\ fp'.last = k + Len(m[3])
      /\ \A j \in 0..(k - 1) : fp'.data[j] = Component(fp, j)
      /\ fp'.data[k] = Component(fp, k) + m[2]
  BY MovedTyped
<1>3. /\ Len(Path) = fp.last + 1
      /\ \A j \in 1..(fp.last + 1) : Path[j] = Component(fp, j - 1)
  BY <1>1 DEF Path
<1>4. /\ Len(Path') = fp'.last + 1
      /\ \A j \in 1..(fp'.last + 1) : Path'[j] = fp'.data[j - 1]
  BY <1>1, <1>2 DEF Path, Component
<1> USE <1>1
<1>a. m[1] = 0 => k = fp.last
  OBVIOUS
<1> HIDE DEF k
<1>5. \A j \in 1..k : Path[j] = Path'[j]
  <2> SUFFICES ASSUME NEW j \in 1..k PROVE Path[j] = Path'[j]
    OBVIOUS
  <2>0. j \in 1..(fp.last + 1) /\ j \in 1..(fp'.last + 1)
    BY <1>2
  <2>1. Path[j] = Component(fp, j - 1) /\ Path'[j] = fp'.data[j - 1]
    BY <2>0, <1>3, <1>4
  <2>2. j - 1 \in 0..(k - 1)
    OBVIOUS
  <2> QED
    BY <2>1, <2>2, <1>2
<1>b. Path[k + 1] = Component(fp, k) /\ Path'[k + 1] = fp'.data[k]
  <2>1. k + 1 \in 1..(fp.last + 1) /\ k + 1 \in 1..(fp'.last + 1) /\ (k + 1) - 1 = k
    BY <1>2
  <2>2. Path[k + 1] = Component(fp, (k + 1) - 1) /\ Path'[k + 1] = fp'.data[(k + 1) - 1]
    BY <2>1, <1>3, <1>4
  <2> QED
    BY <2>1, <2>2
<1>6. CASE m[2] > 0
  <2>1. Path[k + 1] < Path'[k + 1]
    BY <1>b, <1>2, <1>6
  <2>2. k + 1 \in 1..Len(Path')
    BY <1>1, <1>2, <1>4
  <2> QED
    <3>1. \A j \in 1..((k + 1) - 1) : j <= Len(Path) /\ Path[j] = Path'[j]
      BY <1>3, <1>5
    <3> QED
      BY <2>1, <2>2, <3>1 DEF Less
<1>7. CASE m[2] = 0 /\ m[1] = 0 /\ Len(m[3]) > 0
  <2>1. k = fp.last
    BY <1>a, <1>7
  <2>2. Path[k + 1] = Path'[k + 1]
    BY <1>b, <1>2, <1>7
  <2>3. k + 2 \in 1..Len(Path') /\ k + 2 > Len(Path)
    BY <1>1, <1>2, <1>3, <1>4, <1>7, <2>1
  <2> QED
    <3>1. \A j \in 1..((k + 2) - 1) : j <= Len(Path) /\ Path[j] = Path'[j]
      BY <2>1, <2>2, <1>3, <1>5
    <3> QED
      BY <2>3, <3>1 DEF Less
<1> QED
  BY <1>6, <1>7 DEF Forward

-----------------------------------------------------------------------------
(* The steps.                                                              *)

\* The path that every update starts with.
LEMMA DefaultTyped == Default \in FieldPath
  BY FieldPathAssumption DEF Default, FieldPath, Index

\* The first state satisfies the invariant.
LEMMA InitInv == Init => PathInv
  BY DefaultTyped DEF Init, PathInv

\* What is pushed is a sequence of numbers.
LEMMA ListsTyped == \A vs \in Lists \cup NoPush : vs \in Seq(Nat)
<1>1. \A vs \in Lists : vs \in Seq(Nat)
  BY ValuesTyped, FieldPathAssumption DEF Lists, Index
<1>2. \A vs \in NoPush : vs \in Seq(Nat)
  BY EmptySeq DEF NoPush
<1> QED
  BY <1>1, <1>2

\* PushN and PopNPlusN are moves, if not always forward.
LEMMA LooseTyped ==
    ASSUME NEW o \in DOMAIN LooseMoves, NEW m \in LooseMoves[o]
    PROVE  Move(m)
<1>1. CASE o = "PushN"
  <2>1. m \in {0} \X Up(0) \X Lists
    BY <1>1 DEF LooseMoves
  <2>2. m[1] \in {0} /\ m[2] \in Up(0) /\ m[3] \in Lists
    BY <2>1
  <2>3. m[2] \in Int
    BY <2>2, FieldPathAssumption DEF Up
  <2>4. m[3] \in Seq(Nat)
    BY <2>2, ListsTyped
  <2>5. m[1] \in Nat
    BY <2>2
  <2> QED
    BY <2>3, <2>4, <2>5 DEF Move
<1>2. CASE o = "PopNPlusN"
  <2>1. m \in Numbers \X Varints \X NoPush
    BY <1>2 DEF LooseMoves
  <2>2. m[1] \in Numbers /\ m[2] \in Varints /\ m[3] \in NoPush
    BY <2>1
  <2>3. m[1] \in Nat /\ m[2] \in Int
    BY <2>2, FieldPathAssumption
  <2>4. m[3] \in Seq(Nat)
    BY <2>2, ListsTyped
  <2> QED
    BY <2>3, <2>4 DEF Move
<1> QED
  BY <1>1, <1>2 DEF LooseMoves

\* What is stored is a path if it is one.
LEMMA Stored ==
    ASSUME PathInv, NEW p \in FieldPath, NEW o, Store(p, o)
    PROVE  PathInv'
  BY DEF PathInv, Store

\* An operation is applied by one of its moves.
LEMMA Applied ==
    ASSUME NEW moves, Apply(moves)
    PROVE  \E o \in DOMAIN moves : \E m \in moves[o] :
               LegalMove(m) /\ Store(Moved(m), o)
  BY DEF Apply

\* Whatever is applied leads to a path.
LEMMA AppliedInv ==
    ASSUME PathInv, NEW moves, Apply(moves),
           \A o \in DOMAIN moves : \A m \in moves[o] : Move(m)
    PROVE  PathInv'
<1>1. PICK o \in DOMAIN moves : \E m \in moves[o] : LegalMove(m) /\ Store(Moved(m), o)
  BY Applied
<1>a. PICK m \in moves[o] : LegalMove(m) /\ Store(Moved(m), o)
  BY <1>1
<1>2. Moved(m) \in FieldPath
  BY <1>a, MovedTyped
<1> QED
  BY <1>a, <1>2, Stored

\* A shift by integers leads to a path.
LEMMA ShiftedTyped ==
    ASSUME PathInv, NEW n \in Nat, NEW increments, NEW values \in Seq(Nat),
           LegalShift(n, increments, values),
           \A k \in Index \cap DOMAIN increments : increments[k] \in Int
    PROVE  Shifted(n, increments, values) \in FieldPath
<1> DEFINE popped == Pop(fp, n)
           added == Inc(popped, increments)
<1>1. fp \in FieldPath /\ fp.last \in Nat /\ n \in 0..fp.last
  BY FieldPathAssumption DEF PathInv, FieldPath, Index, LegalShift
<1>2. popped \in FieldPath /\ popped.last = fp.last - n
  BY <1>1, PopTyped
<1>3. added \in FieldPath /\ added.last = fp.last - n
  <2> HIDE DEF popped
  <2> QED
    BY <1>2, IncTyped
<1>4. values \in Seq(Int) /\ fp.last - n + Len(values) \in Index
  BY DEF LegalShift
<1>5. Shifted(n, increments, values) = Push(added, values)
  BY DEF Shifted
<1> HIDE DEF popped, added
<1> QED
  BY <1>3, <1>4, <1>5, PushTyped

\* So do the operations that add to any component,
LEMMA NonTopoInv == ASSUME PathInv, ApplyNonTopo PROVE PathInv'
<1>1. PICK o \in Reached \cap DOMAIN NonTopoMoves :
         \E n \in NonTopoMoves[o].pops \cap 0..fp.last,
            values \in NonTopoMoves[o].pushes :
         \E increments \in [0..(fp.last - n) -> NonTopoMoves[o].adds \cup {0}] :
             /\ LegalShift(n, increments, values)
             /\ Store(Shifted(n, increments, values), o)
  BY DEF ApplyNonTopo
<1>n. PICK n \in NonTopoMoves[o].pops \cap 0..fp.last,
           values \in NonTopoMoves[o].pushes :
         \E increments \in [0..(fp.last - n) -> NonTopoMoves[o].adds \cup {0}] :
             /\ LegalShift(n, increments, values)
             /\ Store(Shifted(n, increments, values), o)
  BY <1>1
<1>2. PICK increments \in [0..(fp.last - n) -> NonTopoMoves[o].adds \cup {0}] :
             /\ LegalShift(n, increments, values)
             /\ Store(Shifted(n, increments, values), o)
  BY <1>n
<1>3. fp.last \in Nat /\ n \in Nat
  BY FieldPathAssumption DEF PathInv, FieldPath, Index
<1>4. /\ NonTopoMoves[o].adds \subseteq Int
      /\ NonTopoMoves[o].pushes \in {Lists, NoPush}
  BY FieldPathAssumption DEF NonTopoMoves
<1>5. values \in Seq(Nat)
  BY <1>4, ListsTyped
<1>6. \A k \in Index \cap DOMAIN increments : increments[k] \in Int
  BY <1>4
<1>7. Shifted(n, increments, values) \in FieldPath
  BY <1>2, <1>3, <1>5, <1>6, ShiftedTyped
<1> QED
  BY <1>2, <1>7, Stored

\* and the one that adds to the last but one.
LEMMA PenultimateInv == ASSUME PathInv, ApplyPenultimate PROVE PathInv'
<1> DEFINE increments == [k \in {fp.last - 1} |-> 1]
<1>1. Store(Inc(fp, increments), "NonTopoPenultimatePluseOne")
  BY DEF ApplyPenultimate
<1>2. \A k \in Index \cap DOMAIN increments : increments[k] \in Int
  OBVIOUS
<1>3. fp \in FieldPath
  BY DEF PathInv
<1> HIDE DEF increments
<1> QED
  BY <1>1, <1>2, <1>3, IncTyped, Stored

\* Every step leaves the path a path.
LEMMA NextInv == PathInv /\ [Next]_vars => PathInv'
<1> SUFFICES ASSUME PathInv, [Next]_vars PROVE PathInv'
  OBVIOUS
<1>1. CASE UNCHANGED <<fp, i>>
  BY <1>1 DEF PathInv
<1>2. CASE Begin \/ Finish
  BY <1>2, DefaultTyped DEF PathInv, Begin, Finish
<1>3. CASE Apply(PlusMoves)
  BY <1>3, AppliedInv, PlusForward
<1>4. CASE Apply(PushOneMoves)
  BY <1>4, AppliedInv, PushOneForward
<1>5. CASE Apply(PushMoreMoves)
  BY <1>5, AppliedInv, PushMoreForward
<1>6. CASE Apply(PopMoves)
  <2>1. \A o \in DOMAIN PopMoves : \A m \in PopMoves[o] : Move(m)
    BY PopForward DEF PathInv
  <2> QED
    BY <1>6, <2>1, AppliedInv
<1>7. CASE Apply(LooseMoves)
  BY <1>7, AppliedInv, LooseTyped
<1>8. CASE ApplyNonTopo \/ ApplyPenultimate
  BY <1>8, NonTopoInv, PenultimateInv
<1>9. CASE Join \/ WalkOn \/ Overfull \/ UNCHANGED vars
  BY <1>9, <1>1 DEF Join, WalkOn, Overfull, vars
<1> QED
  BY <1>2, <1>3, <1>4, <1>5, <1>6, <1>7, <1>8, <1>9 DEF Next

\* The path that read_field_paths changes always has components of its width,
\* and no more of them than it has room for.
THEOREM PathAlwaysTyped == Spec => [](fp \in FieldPath /\ i \in Nat)
<1>1. PathInv => fp \in FieldPath /\ i \in Nat
  BY DEF PathInv
<1> QED
  BY InitInv, NextInv, <1>1, PTL DEF Spec

-----------------------------------------------------------------------------
(* Topographical operations.                                               *)

\* An operation all of whose moves are forward ones leads to a later path.
LEMMA AppliedForward ==
    ASSUME PathInv, NEW moves, Apply(moves),
           \A o \in DOMAIN moves : \A m \in moves[o] : Move(m) /\ Forward(m)
    PROVE  Less(Path, Path')
<1>1. PICK o \in DOMAIN moves : \E m \in moves[o] : LegalMove(m) /\ Store(Moved(m), o)
  BY Applied
<1>a. PICK m \in moves[o] : LegalMove(m) /\ Store(Moved(m), o)
  BY <1>1
<1>2. fp' = Moved(m) /\ i' = i + 1
  BY <1>a DEF Store
<1> QED
  BY <1>a, <1>2, MovedForward

\* The other operations are not called topographical.
LEMMA LooseNotTopographical ==
    ASSUME \/ Apply(LooseMoves) \/ ApplyNonTopo \/ ApplyPenultimate
    PROVE  op' \notin Topographical
<1>1. CASE Apply(LooseMoves)
  <2>1. op' \in DOMAIN LooseMoves
    BY <1>1 DEF Apply, Store
  <2> QED
    BY <2>1 DEF LooseMoves, Topographical, PlusMoves, PushOneMoves, PushMoreMoves,
                PopMoves
<1>2. CASE ApplyNonTopo
  <2>1. op' \in DOMAIN NonTopoMoves
    BY <1>2 DEF ApplyNonTopo, Store
  <2> QED
    BY <2>1 DEF NonTopoMoves, Topographical, PlusMoves, PushOneMoves, PushMoreMoves,
                PopMoves
<1>3. CASE ApplyPenultimate
  BY <1>3 DEF ApplyPenultimate, Store, Topographical, PlusMoves, PushOneMoves,
              PushMoreMoves, PopMoves
<1> QED
  BY <1>1, <1>2, <1>3

\* Every topographical operation moves the path forward.
LEMMA StepForward ==
    PathInv /\ [Next]_vars =>
        [i' > i /\ op' \in Topographical => Less(Path, Path')]_vars
<1> SUFFICES ASSUME PathInv, Next, i' > i, op' \in Topographical
             PROVE  Less(Path, Path')
  OBVIOUS
<1>1. i \in Nat
  BY DEF PathInv
<1>2. CASE Apply(PlusMoves)
  BY <1>2, AppliedForward, PlusForward
<1>3. CASE Apply(PushOneMoves)
  BY <1>3, AppliedForward, PushOneForward
<1>4. CASE Apply(PushMoreMoves)
  BY <1>4, AppliedForward, PushMoreForward
<1>5. CASE Apply(PopMoves)
  <2>1. \A o \in DOMAIN PopMoves : \A m \in PopMoves[o] : Move(m) /\ Forward(m)
    BY PopForward DEF PathInv
  <2> QED
    BY <1>5, <2>1, AppliedForward
<1>6. CASE Apply(LooseMoves) \/ ApplyNonTopo \/ ApplyPenultimate
  BY <1>6, LooseNotTopographical
<1>7. CASE Join \/ Begin \/ WalkOn \/ Finish \/ Overfull
  BY <1>1, <1>7 DEF Join, Begin, WalkOn, Finish, Overfull
<1> QED
  BY <1>2, <1>3, <1>4, <1>5, <1>6, <1>7 DEF Next

\* No update names a field twice, or an earlier one, unless an operation says
\* so that is made for it.
THEOREM PathsMoveForward == Spec => MovesForward
  BY InitInv, NextInv, StepForward, PTL DEF Spec, MovesForward

-----------------------------------------------------------------------------
(* The tree.  Its leaves come first, and every join puts a node behind its *)
(* two children, which then have their parent: so a walk goes down from the *)
(* last node, always finds two ways to go, and there is one way to each     *)
(* operation.                                                              *)

Joined == (1..Len(nodes)) \ Leaves
ChildrenOf(n) == {nodes[n].left, nodes[n].right}

\* What there is to know of the tree while it is built, and ever after.
TreeInv ==
    /\ nodes \in Seq([weight : Nat, left : Nat, right : Nat])
    /\ Len(nodes) \in Nat /\ Leaves \subseteq 1..Len(nodes)
    /\ heap \subseteq 1..Len(nodes) /\ Top \in heap
    /\ Top \in Leaves => heap = Leaves
    /\ \A n \in Joined : ChildrenOf(n) \subseteq (1..(n - 1)) \ heap
    /\ \A n \in Joined : nodes[n].left # nodes[n].right
    /\ \A c \in (1..Len(nodes)) \ heap : \E n \in Joined : c \in ChildrenOf(n)
    /\ \A m, n \in Joined : m # n => ChildrenOf(m) \cap ChildrenOf(n) = {}

OpNames == {FIELDOP_DESCRIPTORS[n].op : n \in Leaves} \cup {"none"}

\* The walk is at a node that has children.
WalkInv ==
    /\ mode \in {"idle", "reading", "panic"}
    /\ mode = "reading" => Built /\ root \in Joined
    /\ root \in 0..Len(nodes)
    /\ i \in 0..Capacity
    /\ op \in OpNames

\* The operations' table, of which only its length and types matter.
LEMMA Descriptors ==
    /\ Leaves = 1..40
    /\ \A n \in Leaves : FIELDOP_DESCRIPTORS[n].weight \in Nat
<1>1. Len(FIELDOP_DESCRIPTORS) = 40
  BY DEF FIELDOP_DESCRIPTORS
<1>2. \A n \in 1..40 : FIELDOP_DESCRIPTORS[n].weight \in Nat
  BY DEF FIELDOP_DESCRIPTORS, D
<1> QED
  BY <1>1, <1>2 DEF Leaves

\* The heap's first: among the lightest nodes the one that came last.
LEMMA PopHeapIn ==
    ASSUME TreeInv, NEW h \in SUBSET (1..Len(nodes)), h # {}
    PROVE  PopHeap(h) \in h
<1> DEFINE W == {nodes[n].weight : n \in h}
<1>1. \A n \in 1..Len(nodes) : nodes[n].weight \in Nat
  <2> TAKE n \in 1..Len(nodes)
  <2>1. nodes[n] \in [weight : Nat, left : Nat, right : Nat]
    BY ElementOfSeq DEF TreeInv
  <2> QED
    BY <2>1
<1>2. PICK w \in W : \A v \in W : w <= v
  <2>1. W \in SUBSET Nat /\ W # {}
    BY <1>1
  <2> QED
    BY <2>1, LeastNatural
<1> DEFINE L == {n \in h : nodes[n].weight = w}
           B == {Len(nodes) - n : n \in L}
<1>3. PICK b \in B : \A c \in B : b <= c
  <2>1. L # {} /\ \A n \in L : Len(nodes) - n \in Nat
    BY <1>2 DEF TreeInv
  <2>2. B \in SUBSET Nat /\ B # {}
    BY <2>1
  <2> QED
    BY <2>2, LeastNatural
<1>4. PICK n \in L : b = Len(nodes) - n
  BY <1>3
<1>5. \A m \in h \ {n} : Before(n, m)
  <2> TAKE m \in h \ {n}
  <2>1. nodes[n].weight = w /\ w <= nodes[m].weight /\ w \in Nat /\ nodes[m].weight \in Nat
    BY <1>1, <1>2, <1>4
  <2>2. CASE nodes[m].weight = w
    <3>1. Len(nodes) - n <= Len(nodes) - m
      BY <1>3, <1>4, <2>2
    <3>2. n > m
      BY <3>1 DEF TreeInv
    <3> QED
      BY <2>1, <2>2, <3>2 DEF Before
  <2> QED
    BY <2>1, <2>2 DEF Before
<1> QED
  BY <1>4, <1>5 DEF PopHeap

\* The leaves are a tree none of whose nodes were joined.
LEMMA TreeInit == Init => TreeInv /\ WalkInv
<1> SUFFICES ASSUME Init PROVE TreeInv /\ WalkInv
  OBVIOUS
<1> DEFINE Node == [weight : Nat, left : Nat, right : Nat]
<1>1. nodes \in [1..40 -> Node]
  BY Descriptors DEF Init, Leaf
<1>2. nodes \in Seq(Node) /\ Len(nodes) = 40
  <2> HIDE DEF Node
  <2>1. nodes \in Seq(Node)
    BY <1>1, SeqDef
  <2> QED
    BY <1>1, <2>1, LenProperties
<1>3. heap = 1..40 /\ Leaves = 1..40 /\ Joined = {}
  BY <1>2, Descriptors DEF Init, Joined
<1>4. TreeInv
  BY <1>2, <1>3 DEF TreeInv, Top
<1>5. WalkInv
  BY <1>2, FieldPathAssumption DEF WalkInv, Init, OpNames
<1> QED
  BY <1>4, <1>5

\* Two nodes that have no parent get one.
LEMMA JoinKeepsTree == ASSUME TreeInv, Join PROVE TreeInv'
<1> DEFINE Node == [weight : Nat, left : Nat, right : Nat]
           l == PopHeap(heap)
           r == PopHeap(heap \ {l})
           e == [weight |-> nodes[l].weight + nodes[r].weight, left |-> l, right |-> r]
<1>n. PICK N \in Nat : N = Len(nodes)
  BY DEF TreeInv
<1>1. nodes' = Append(nodes, e) /\ heap' = (heap \ {l, r}) \cup {N + 1}
  BY <1>n DEF Join
<1>2. l \in heap /\ r \in heap /\ l # r
  <2>1. heap # {} /\ heap # {Top} /\ heap \in SUBSET (1..N)
    BY <1>n DEF TreeInv, Join, Built
  <2>2. l \in heap
    BY <1>n, <2>1, PopHeapIn
  <2>3. heap \ {l} # {} /\ heap \ {l} \in SUBSET (1..N)
    BY <1>n, <2>1, <2>2 DEF TreeInv
  <2>4. r \in heap \ {l}
    <3> HIDE DEF l
    <3> QED
      BY <1>n, <2>3, PopHeapIn
  <2> QED
    BY <2>2, <2>4
<1> HIDE DEF l, r
<1>3. l \in 1..N /\ r \in 1..N /\ N \in Nat /\ nodes \in Seq(Node)
  BY <1>n, <1>2 DEF TreeInv
<1>4. e \in Node
  <2>1. nodes[l] \in Node /\ nodes[r] \in Node
    <3> HIDE DEF Node
    <3> QED
      BY <1>n, <1>3, ElementOfSeq
  <2>2. nodes[l].weight \in Nat /\ nodes[r].weight \in Nat
    BY <2>1
  <2>3. nodes[l].weight + nodes[r].weight \in Nat
    <3> DEFINE a == nodes[l].weight
               b == nodes[r].weight
    <3>1. a \in Nat /\ b \in Nat
      BY <2>2
    <3> HIDE DEF a, b
    <3>2. a + b \in Nat
      BY <3>1
    <3> QED
      BY <3>2 DEF a, b
  <2>4. l \in Nat /\ r \in Nat
    BY <1>3
  <2> QED
    BY <2>3, <2>4
<1>e. e.left = l /\ e.right = r
  OBVIOUS
<1> HIDE DEF e, Node
<1>5. /\ nodes' \in Seq(Node) /\ Len(nodes') = N + 1
      /\ \A n \in 1..N : nodes'[n] = nodes[n]
      /\ nodes'[N + 1] = e
  BY <1>n, <1>1, <1>3, <1>4, AppendProperties
<1>6. Joined' = Joined \cup {N + 1} /\ N + 1 \notin Joined /\ N + 1 \notin Leaves /\ Joined \subseteq 1..N
  <2>1. N = Len(nodes) /\ Leaves \subseteq 1..N
    BY <1>n DEF TreeInv
  <2> QED
    BY <1>3, <1>5, <2>1 DEF Joined
<1>7. ChildrenOf(N + 1)' = {l, r} /\ \A n \in Joined : ChildrenOf(n)' = ChildrenOf(n)
  BY <1>5, <1>6, <1>e DEF ChildrenOf
<1>8. heap' \subseteq 1..(N + 1) /\ N + 1 \in heap' /\ l \notin heap' /\ r \notin heap'
  <2>1. heap \subseteq 1..N
    BY <1>n DEF TreeInv
  <2> QED
    BY <1>1, <1>3, <2>1
<1>9. \A n \in Joined : ChildrenOf(n) \subseteq (1..(n - 1)) \ heap
  BY DEF TreeInv
<1>10. \A n \in Joined' : ChildrenOf(n)' \subseteq (1..(n - 1)) \ heap'
  <2>1. ASSUME NEW n \in Joined, NEW c \in ChildrenOf(n) PROVE c \in (1..(n - 1)) \ heap'
    <3>1. c \in (1..(n - 1)) \ heap /\ n \in 1..N
      BY <1>6, <1>9, <2>1
    <3>2. c # N + 1
      BY <1>3, <3>1
    <3> QED
      BY <1>1, <3>1, <3>2
  <2>2. {l, r} \subseteq (1..((N + 1) - 1)) \ heap'
    BY <1>3, <1>8
  <2> QED
    BY <1>6, <1>7, <2>1, <2>2
<1>11. \A n \in Joined' : nodes'[n].left # nodes'[n].right
  BY <1>2, <1>5, <1>6, <1>e DEF TreeInv
<1>12. \A c \in (1..(N + 1)) \ heap' : \E n \in Joined' : c \in ChildrenOf(n)'
  <2> TAKE c \in (1..(N + 1)) \ heap'
  <2>1. CASE c \in {l, r}
    BY <1>6, <1>7, <2>1
  <2>2. CASE c \notin {l, r}
    <3>1. c \in (1..N) \ heap
      BY <1>1, <1>3, <1>8, <2>2
    <3>2. PICK n \in Joined : c \in ChildrenOf(n)
      BY <1>n, <3>1 DEF TreeInv
    <3> QED
      BY <1>6, <1>7, <3>2
  <2> QED
    BY <2>1, <2>2
<1>13. \A m, n \in Joined' : m # n => ChildrenOf(m)' \cap ChildrenOf(n)' = {}
  <2>1. \A n \in Joined : ChildrenOf(n) \cap {l, r} = {}
    BY <1>2, <1>9
  <2>2. \A m, n \in Joined : m # n => ChildrenOf(m) \cap ChildrenOf(n) = {}
    BY DEF TreeInv
  <2> QED
    BY <1>6, <1>7, <2>1, <2>2
<1>14. (Top \in Leaves => heap = Leaves)'
  BY <1>5, <1>6 DEF Top, Leaves
<1>15. (Leaves \subseteq 1..Len(nodes))'
  BY <1>n, <1>3, <1>5 DEF TreeInv, Leaves
<1>16. N + 1 \in Nat
  BY <1>3
<1> QED
  BY <1>5, <1>8, <1>10, <1>11, <1>12, <1>13, <1>14, <1>15, <1>16
     DEF TreeInv, Top, Node

\* The last of all nodes was joined when it alone has no parent.
LEMMA TopJoined == ASSUME TreeInv, Built PROVE Top \in Joined
<1>1. 1 \in Leaves /\ 2 \in Leaves
  BY Descriptors
<1>2. heap # Leaves
  BY <1>1 DEF Built
<1> QED
  BY <1>2 DEF TreeInv, Top, Joined

\* What a joined node's children are.
LEMMA ChildrenTyped ==
    ASSUME TreeInv, NEW n \in Joined, NEW c \in ChildrenOf(n)
    PROVE  c \in 1..Len(nodes) /\ c < n
<1>1. c \in 1..(n - 1) /\ n \in 1..Len(nodes) /\ Len(nodes) \in Nat
  BY DEF TreeInv, Joined
<1> QED
  BY <1>1

\* The operations have names, of which "none" is none.
LEMMA NoneNamed == "none" \in OpNames
  BY DEF OpNames

\* The walk goes down the tree, and starts again from its top.
LEMMA StepKeepsWalk == ASSUME TreeInv, WalkInv, [Next]_vars PROVE TreeInv' /\ WalkInv'
<1>1. TreeInv' \/ UNCHANGED tree
  BY JoinKeepsTree
     DEF Next, Begin, WalkOn, Apply, ApplyNonTopo, ApplyPenultimate, Store, Finish,
         Overfull, vars
<1>2. TreeInv'
  <2>1. CASE UNCHANGED tree
    BY <2>1 DEF TreeInv, tree, Joined, ChildrenOf, Top, Leaves
  <2> QED
    BY <1>1, <2>1
<1> SUFFICES WalkInv'
  BY <1>2
<1>3. CASE Join
  <2>1. mode # "reading"
    BY <1>3 DEF Join, WalkInv
  <2>2. Len(nodes') \in Nat /\ root \in 0..Len(nodes')
    <3>1. root \in 0..Len(nodes) /\ Len(nodes) \in Nat /\ Len(nodes') \in Nat
      BY <1>2 DEF WalkInv, TreeInv
    <3>2. Len(nodes') = Len(nodes) + 1
      BY <1>3, AppendProperties DEF Join, TreeInv
    <3> QED
      BY <3>1, <3>2
  <2> QED
    BY <1>3, <2>1, <2>2 DEF Join, WalkInv, OpNames, Leaves
<1>4. CASE Begin
  <2>1. Top \in Joined /\ Top \in 0..Len(nodes)
    BY <1>4, TopJoined DEF Begin, TreeInv, Top
  <2> QED
    BY <1>4, <2>1, FieldPathAssumption, NoneNamed DEF Begin, WalkInv, tree, Joined, Top, Built
<1>5. CASE WalkOn
  <2>1. root \in Joined /\ Built
    BY <1>5 DEF WalkOn, WalkInv
  <2>2. root' \in ChildrenOf(root) /\ root' \notin Leaves
    BY <1>5 DEF WalkOn, Children, ChildrenOf
  <2>3. root' \in Joined /\ root' \in 0..Len(nodes)
    BY <2>1, <2>2, ChildrenTyped DEF Joined
  <2> QED
    BY <1>5, <2>1, <2>3, NoneNamed DEF WalkOn, WalkInv, tree, Joined, Top, Built
<1>6. ASSUME NEW p, NEW o \in OpNames, Store(p, o), mode = "reading" PROVE WalkInv'
  <2>1. Top \in Joined /\ Top \in 0..Len(nodes) /\ Built
    BY <1>6, TopJoined DEF WalkInv, TreeInv, Top
  <2>2. i + 1 \in 0..Capacity
    BY <1>6, FieldPathAssumption DEF Store, WalkInv
  <2> QED
    BY <1>6, <2>1, <2>2, NoneNamed DEF Store, WalkInv, tree, Joined, Top, Built
<1>7. mode # "reading" => Reached = {}
  BY DEF Reached
<1>8. Reached \subseteq OpNames
  BY DEF Reached, OpNames
<1>9. CASE \E moves : Apply(moves)
  <2>1. PICK o \in Reached : \E p : Store(p, o)
    BY <1>9 DEF Apply
  <2> QED
    BY <1>6, <1>7, <1>8, <2>1
<1>10. CASE ApplyNonTopo
  <2>1. PICK o \in Reached : \E p : Store(p, o)
    BY <1>10 DEF ApplyNonTopo
  <2> QED
    BY <1>6, <1>7, <1>8, <2>1
<1>11. CASE ApplyPenultimate
  <2>1. PICK o \in Reached : \E p : Store(p, o)
    BY <1>11 DEF ApplyPenultimate
  <2> QED
    BY <1>6, <1>7, <1>8, <2>1
<1>12. CASE Finish
  <2>1. 0 \in 0..Len(nodes) /\ 0 \in 0..Capacity
    BY FieldPathAssumption DEF TreeInv
  <2> QED
    BY <1>12, <2>1, NoneNamed DEF Finish, WalkInv, tree
<1>13. CASE Overfull \/ UNCHANGED vars
  BY <1>13, NoneNamed DEF Overfull, WalkInv, vars, tree, Joined, Built, Top
<1> QED
  BY <1>3, <1>4, <1>5, <1>9, <1>10, <1>11, <1>12, <1>13 DEF Next

\* The tree that is built once, the walk through it, the path that it changes
\* and the number of paths stored all stay what the code takes them for.
THEOREM FieldPathsTypeOK == Spec => []TypeOK
<1>1. Init => PathInv /\ TreeInv /\ WalkInv
  BY InitInv, TreeInit
<1>2. PathInv /\ TreeInv /\ WalkInv /\ [Next]_vars => (PathInv /\ TreeInv /\ WalkInv)'
  BY NextInv, StepKeepsWalk
<1>3. PathInv /\ TreeInv /\ WalkInv => TypeOK
  BY DEF PathInv, TreeInv, WalkInv, TypeOK, OpNames
<1> QED
  BY <1>1, <1>2, <1>3, PTL DEF Spec

\* The tree is a code: once it is built every node but the last has one parent,
\* which is a later node, and has two different children unless it stands for an
\* operation.  While an update is read the walk is at a node with two children,
\* so every bit leads somewhere: no update makes it index past the tree.
TreeIsCode ==
    /\ Built => \A c \in (1..Len(nodes)) \ {Top} :
           \E n \in Joined : /\ c < n /\ c \in ChildrenOf(n)
                            /\ \A m \in Joined : c \in ChildrenOf(m) => m = n
    /\ mode = "reading" => /\ root \in Joined
                           /\ nodes[root].left \in 1..Len(nodes)
                           /\ nodes[root].right \in 1..Len(nodes)
                           /\ nodes[root].left # nodes[root].right
THEOREM WalkFollowsCode == Spec => []TreeIsCode
<1>1. Init => TreeInv /\ WalkInv
  BY TreeInit
<1>2. TreeInv /\ WalkInv /\ [Next]_vars => (TreeInv /\ WalkInv)'
  BY StepKeepsWalk
<1>3. TreeInv /\ WalkInv => TreeIsCode
  <2> SUFFICES ASSUME TreeInv, WalkInv PROVE TreeIsCode
    OBVIOUS
  <2>1. ASSUME Built, NEW c \in (1..Len(nodes)) \ {Top}
        PROVE  \E n \in Joined : /\ c < n /\ c \in ChildrenOf(n)
                                 /\ \A m \in Joined : c \in ChildrenOf(m) => m = n
    <3>1. PICK n \in Joined : c \in ChildrenOf(n)
      BY <2>1 DEF Built, TreeInv
    <3>2. c < n
      BY <3>1, ChildrenTyped
    <3>3. \A m \in Joined : c \in ChildrenOf(m) => m = n
      BY <3>1 DEF TreeInv
    <3> QED
      BY <3>1, <3>2, <3>3
  <2>2. ASSUME mode = "reading"
        PROVE  /\ root \in Joined
               /\ nodes[root].left \in 1..Len(nodes)
               /\ nodes[root].right \in 1..Len(nodes)
               /\ nodes[root].left # nodes[root].right
    <3>1. root \in Joined
      BY <2>2 DEF WalkInv
    <3> QED
      BY <3>1, ChildrenTyped DEF ChildrenOf, TreeInv
  <2> QED
    BY <2>1, <2>2 DEF TreeIsCode
<1> QED
  BY <1>1, <1>2, <1>3, PTL DEF Spec

-----------------------------------------------------------------------------
(* The code.  The weights being what they are, there is one tree that Join *)
(* can build: the order in which the nodes leave the heap, two of them for *)
(* every join, is written out here with what follows from it, and Join is  *)
(* shown to keep to it.                                                    *)

\* The nodes in the order in which they leave the heap; the last one stays.
Popped == <<
    36, 35, 34, 29, 26, 25, 24, 23, 22, 21, 20, 19, 18, 17, 16, 15, 14, 48, 47,
    46, 45, 44, 43, 42, 41, 28, 49, 7, 53, 52, 51, 50, 54, 56, 55, 57, 58, 6,
    59, 37, 39, 60, 31, 61, 13, 38, 32, 27, 62, 11, 8, 63, 10, 64, 33, 4, 65,
    66, 67, 68, 3, 30, 69, 70, 9, 71, 5, 72, 73, 74, 2, 12, 75, 76, 40, 77, 1,
    78, 79 >>

\* The place of every node in that order.
Rank == <<
    77, 71, 61, 56, 67, 38, 28, 51, 65, 53, 50, 72, 45, 17, 16, 15, 14, 13, 12,
    11, 10, 9, 8, 7, 6, 5, 48, 26, 4, 62, 43, 47, 55, 3, 2, 1, 40, 46, 41, 75,
    25, 24, 23, 22, 21, 20, 19, 18, 27, 32, 31, 30, 29, 33, 35, 34, 36, 37, 39,
    42, 44, 49, 52, 54, 57, 58, 59, 60, 63, 64, 66, 68, 69, 70, 73, 74, 76, 78,
    79 >>

Weights == <<
    36271, 10334, 1375, 646, 4128, 35, 3, 521, 2942, 560, 471, 10530, 251, 1,
    1, 1, 1, 1, 1, 1, 1, 1, 1, 1, 1, 1, 310, 2, 1, 1837, 149, 300, 634, 1, 1,
    1, 76, 271, 99, 25474, 2, 2, 2, 2, 2, 2, 2, 2, 3, 4, 4, 4, 4, 6, 8, 8, 14,
    22, 57, 133, 232, 381, 522, 610, 852, 1043, 1170, 1280, 1895, 2450, 3212,
    4345, 6154, 8473, 14627, 20864, 35491, 60965, 97236 >>

CodeLengths == <<
    1, 4, 6, 8, 5, 12, 15, 8, 5, 8, 8, 4, 9, 16, 17, 17, 17, 17, 17, 17, 17,
    17, 17, 17, 16, 16, 9, 15, 16, 6, 9, 9, 8, 16, 16, 16, 11, 9, 10, 2, 15,
    15, 15, 16, 16, 16, 16, 16, 15, 15, 15, 14, 14, 14, 13, 14, 13, 12, 11, 10,
    9, 8, 8, 8, 7, 7, 7, 7, 6, 6, 5, 5, 4, 4, 3, 3, 2, 1, 0 >>

\* The k-th join, counted from 0, makes node 41 + k of the first two; the third
\* is the node that a node is joined to.
LeftOf(k) == Popped[2 * k + 1]
RightOf(k) == Popped[2 * k + 2]
JoinOf(n) == 41 + ((Rank[n] - 1) \div 2)

Lighter(m, n) ==
    \/ Weights[m] < Weights[n]
    \/ Weights[m] = Weights[n] /\ m > n

\* The tree so far is a part of that tree.
CodeInv ==
    /\ Len(nodes) \in 40..79
    /\ \A n \in 1..Len(nodes) : nodes[n].weight = Weights[n]
    /\ \A n \in Leaves : nodes[n].left = 0 /\ nodes[n].right = 0
    /\ \A k \in 0..(Len(nodes) - 41) :
           nodes[41 + k].left = LeftOf(k) /\ nodes[41 + k].right = RightOf(k)
    /\ heap = {n \in 1..Len(nodes) : Rank[n] > 2 * (Len(nodes) - 40)}

\* Popped and Rank are inverse to each other.
LEMMA Ranks ==
    ASSUME NEW n \in 1..79
    PROVE  /\ Popped[n] \in 1..79 /\ Rank[n] \in 1..79 /\ Weights[n] \in Nat
           /\ Popped[Rank[n]] = n /\ Rank[Popped[n]] = n
  BY DEF Popped, Rank, Weights

\* A join finds its two nodes in the heap, and its node leaves the heap after them.
LEMMA JoinsInOrder ==
    \A k \in 0..38 :
        /\ LeftOf(k) \in 1..(40 + k) /\ RightOf(k) \in 1..(40 + k)
        /\ Rank[LeftOf(k)] = 2 * k + 1 /\ Rank[RightOf(k)] = 2 * k + 2
        /\ Weights[41 + k] = Weights[LeftOf(k)] + Weights[RightOf(k)]
        /\ Rank[41 + k] > 2 * k + 2
<1>1. \A k \in 0..38 : Popped[2 * k + 1] \in 1..(40 + k) /\ Popped[2 * k + 2] \in 1..(40 + k)
  BY DEF Popped
<1>2. \A k \in 0..38 : Weights[41 + k] = Weights[Popped[2 * k + 1]] + Weights[Popped[2 * k + 2]]
  BY DEF Popped, Weights
<1>3. \A k \in 0..38 : Rank[41 + k] > 2 * k + 2
  BY DEF Rank
<1>4. \A k \in 0..38 : 2 * k + 1 \in 1..79 /\ 2 * k + 2 \in 1..79
  OBVIOUS
<1> QED
  BY <1>1, <1>2, <1>3, <1>4, Ranks DEF LeftOf, RightOf

\* Lighter is an order.
LEMMA LighterTransitive ==
    ASSUME NEW l \in 1..79, NEW m \in 1..79, NEW n \in 1..79, Lighter(l, m), Lighter(m, n)
    PROVE  Lighter(l, n)
<1>1. PICK a \in Nat, b \in Nat, c \in Nat : a = Weights[l] /\ b = Weights[m] /\ c = Weights[n]
  BY Ranks
<1> QED
  BY <1>1 DEF Lighter

\* The nodes leave the heap from the lightest to the heaviest.
LEMMA LightestFirst ==
    \A s \in 1..79 : \A r \in 1..(s - 1) : Lighter(Popped[r], Popped[s])
<1> DEFINE G == {s \in Nat : s \in 1..79 =>
                     \A r \in 1..(s - 1) : Lighter(Popped[r], Popped[s])}
<1>1. \A r \in 1..78 : Lighter(Popped[r], Popped[r + 1])
  BY DEF Popped, Weights, Lighter
<1>2. 0 \in G
  OBVIOUS
<1>3. ASSUME NEW s \in Nat, s \in G PROVE s + 1 \in G
  <2> SUFFICES ASSUME s + 1 \in 1..79, NEW r \in 1..s
               PROVE  Lighter(Popped[r], Popped[s + 1])
    OBVIOUS
  <2>1. s \in 1..78
    OBVIOUS
  <2>2. Lighter(Popped[s], Popped[s + 1])
    BY <1>1, <2>1
  <2>3. CASE r < s
    <3>1. Lighter(Popped[r], Popped[s])
      BY <1>3, <2>1, <2>3
    <3>2. r \in 1..79 /\ s \in 1..79 /\ s + 1 \in 1..79
      BY <2>1
    <3>3. Popped[r] \in 1..79 /\ Popped[s] \in 1..79 /\ Popped[s + 1] \in 1..79
      BY <3>2, Ranks
    <3>4. PICK l \in 1..79, m \in 1..79, n \in 1..79 :
              l = Popped[r] /\ m = Popped[s] /\ n = Popped[s + 1]
      BY <3>3
    <3>5. Lighter(l, m) /\ Lighter(m, n)
      BY <2>2, <3>1, <3>4
    <3>6. Lighter(l, n)
      BY <3>5, LighterTransitive
    <3> QED
      BY <3>4, <3>6
  <2> QED
    BY <2>1, <2>2, <2>3
<1>4. \A s \in Nat : s \in G
  <2> HIDE DEF G
  <2> QED
    BY <1>2, <1>3, NaturalInduction
<1> QED
  BY <1>4

\* Of the nodes from rank r on the heap gives that of rank r.
LEMMA NextPopped ==
    ASSUME CodeInv, NEW r \in 1..79, Popped[r] \in 1..Len(nodes)
    PROVE  PopHeap({n \in 1..Len(nodes) : Rank[n] >= r}) = Popped[r]
<1> DEFINE h == {n \in 1..Len(nodes) : Rank[n] >= r}
           p == Popped[r]
<1>1. ASSUME NEW n \in 1..Len(nodes)
      PROVE  n \in 1..79 /\ nodes[n].weight = Weights[n] /\ Weights[n] \in Nat
  <2>1. PICK N \in 40..79 : N = Len(nodes)
    BY DEF CodeInv
  <2>2. n \in 1..N
    BY <2>1
  <2>3. n \in 1..79
    BY <2>2
  <2> QED
    BY <2>3, Ranks DEF CodeInv
<1>2. p \in h
  <2>1. Rank[p] = r
    BY Ranks
  <2> QED
    BY <2>1
<1>3. \A m \in h \ {p} : Before(p, m)
  <2> TAKE m \in h \ {p}
  <2>1. PICK s \in 1..79 : s = Rank[m] /\ Popped[s] = m /\ s >= r
    BY <1>1, Ranks
  <2>2. s # r
    BY <2>1
  <2>3. Lighter(p, m)
    <3>1. r \in 1..(s - 1)
      BY <2>1, <2>2
    <3> QED
      BY <2>1, <3>1, LightestFirst
  <2> QED
    BY <1>1, <1>2, <2>3 DEF Lighter, Before
<1>4. ASSUME NEW n \in h, \A m \in h \ {n} : Before(n, m) PROVE n = p
  <2>1. SUFFICES ASSUME n # p PROVE FALSE
    OBVIOUS
  <2>2. Before(n, p) /\ Before(p, n)
    BY <1>2, <1>3, <1>4, <2>1
  <2> QED
    BY <1>1, <1>2, <2>2 DEF Before
<1> HIDE DEF h, p
<1>5. PopHeap(h) = p
  BY <1>2, <1>3, <1>4 DEF PopHeap
<1> QED
  BY <1>5 DEF h, p

\* The leaves have the weights of the operations, and are the whole heap.
LEMMA CodeInit == Init => CodeInv
<1> SUFFICES ASSUME Init PROVE CodeInv
  OBVIOUS
<1>1. Leaves = 1..40 /\ heap = 1..40
  BY Descriptors DEF Init
<1>2. nodes = [n \in 1..40 |-> Leaf(FIELDOP_DESCRIPTORS[n].weight)]
  BY <1>1 DEF Init
<1>3. Len(nodes) = 40
  <2>1. nodes \in Seq([weight : Nat, left : Nat, right : Nat])
    BY TreeInit DEF TreeInv
  <2>2. DOMAIN nodes = 1..40
    BY <1>2
  <2> QED
    BY <2>1, <2>2, LenProperties
<1>4. \A n \in 1..40 : FIELDOP_DESCRIPTORS[n].weight = Weights[n]
  BY DEF FIELDOP_DESCRIPTORS, D, Weights
<1>5. ASSUME NEW n \in 1..40 PROVE Rank[n] > 0
  <2>1. n \in 1..79
    OBVIOUS
  <2>2. Rank[n] \in 1..79
    BY <2>1, Ranks
  <2> QED
    BY <2>2
<1>6. \A w : Leaf(w).weight = w /\ Leaf(w).left = 0 /\ Leaf(w).right = 0
  BY DEF Leaf
<1>7. \A n \in 1..40 : nodes[n].weight = Weights[n] /\ nodes[n].left = 0 /\ nodes[n].right = 0
  BY <1>2, <1>4, <1>6
<1>8. heap = {n \in 1..40 : Rank[n] > 0}
  BY <1>1, <1>5
<1> QED
  BY <1>1, <1>3, <1>7, <1>8 DEF CodeInv

\* The tree is built when it has 79 nodes and not before.
LEMMA BuiltAll == ASSUME CodeInv PROVE Built <=> Len(nodes) = 79
<1>1. ASSUME Len(nodes) = 79 PROVE Built
  <2>1. \A n \in 1..79 : Rank[n] > 78 <=> n = 79
    BY DEF Rank
  <2> QED
    BY <1>1, <2>1 DEF CodeInv, Built, Top
<1>2. ASSUME Len(nodes) # 79 PROVE ~Built
  <2>1. PICK k \in 0..38 : Len(nodes) = 40 + k
    <3>1. Len(nodes) - 40 \in 0..38 /\ Len(nodes) = 40 + (Len(nodes) - 40)
      BY <1>2 DEF CodeInv
    <3> QED
      BY <3>1
  <2>2. LeftOf(k) \in heap /\ RightOf(k) \in heap
    <3>1. heap = {n \in 1..(40 + k) : Rank[n] > 2 * k}
      BY <2>1 DEF CodeInv
    <3>2. Rank[LeftOf(k)] > 2 * k /\ Rank[RightOf(k)] > 2 * k
      BY JoinsInOrder
    <3> QED
      BY <3>1, <3>2, JoinsInOrder
  <2>3. LeftOf(k) # RightOf(k)
    BY JoinsInOrder
  <2> QED
    BY <2>2, <2>3 DEF Built
<1> QED
  BY <1>1, <1>2

\* A join takes the nodes of the next two ranks, and makes the node after the last.
LEMMA JoinKeepsCode == ASSUME TreeInv, CodeInv, Join PROVE CodeInv'
<1>1. PICK k \in 0..38 : Len(nodes) = 40 + k
  <2>1. Len(nodes) - 40 \in 0..38 /\ Len(nodes) = 40 + (Len(nodes) - 40)
    BY BuiltAll DEF CodeInv, Join
  <2> QED
    BY <2>1
<1> DEFINE l == LeftOf(k)
           r == RightOf(k)
           e == [weight |-> Weights[41 + k], left |-> l, right |-> r]
<1>2. /\ l \in 1..(40 + k) /\ r \in 1..(40 + k)
      /\ Rank[l] = 2 * k + 1 /\ Rank[r] = 2 * k + 2
      /\ Weights[41 + k] = Weights[l] + Weights[r] /\ Rank[41 + k] > 2 * k + 2
  BY JoinsInOrder
<1>h. heap = {n \in 1..(40 + k) : Rank[n] > 2 * k}
  <2>1. 2 * (Len(nodes) - 40) = 2 * k
    BY <1>1
  <2> QED
    BY <1>1, <2>1 DEF CodeInv
<1>3. ASSUME NEW n \in 1..(40 + k)
      PROVE  Rank[n] \in 1..79 /\ Rank[n] \in Nat /\ Popped[Rank[n]] = n
  <2>1. n \in 1..79
    OBVIOUS
  <2>2. Rank[n] \in 1..79 /\ Popped[Rank[n]] = n
    BY <2>1, Ranks
  <2> QED
    BY <2>2
<1>4. \A n \in 1..(40 + k) : (Rank[n] = 2 * k + 1 => n = l) /\ (Rank[n] = 2 * k + 2 => n = r)
  BY <1>3 DEF LeftOf, RightOf
<1>5. PopHeap(heap) = l
  <2>1. heap = {n \in 1..Len(nodes) : Rank[n] >= 2 * k + 1}
    BY <1>1, <1>3, <1>h
  <2>2. 2 * k + 1 \in 1..79 /\ Popped[2 * k + 1] \in 1..Len(nodes)
    BY <1>1, <1>2 DEF LeftOf
  <2> QED
    BY <2>1, <2>2, NextPopped DEF LeftOf
<1>6. PopHeap(heap \ {l}) = r
  <2>1. heap \ {l} = {n \in 1..(40 + k) : Rank[n] >= 2 * k + 2}
    <3>1. ASSUME NEW n \in heap \ {l} PROVE n \in 1..(40 + k) /\ Rank[n] >= 2 * k + 2
      BY <1>3, <1>4, <1>h
    <3>2. ASSUME NEW n \in 1..(40 + k), Rank[n] >= 2 * k + 2 PROVE n \in heap \ {l}
      BY <1>2, <1>3, <1>h, <3>2
    <3> QED
      BY <3>1, <3>2
  <2>2. 2 * k + 2 \in 1..79 /\ Popped[2 * k + 2] \in 1..Len(nodes)
    BY <1>1, <1>2 DEF RightOf
  <2> QED
    BY <1>1, <2>1, <2>2, NextPopped DEF RightOf
<1>7. nodes' = Append(nodes, e) /\ heap' = (heap \ {l, r}) \cup {41 + k}
  <2>1. nodes[l].weight = Weights[l] /\ nodes[r].weight = Weights[r]
    BY <1>1, <1>2 DEF CodeInv
  <2>2. Len(nodes) + 1 = 41 + k
    BY <1>1
  <2> HIDE DEF l, r
  <2> QED
    BY <1>2, <1>5, <1>6, <2>1, <2>2 DEF Join
<1> HIDE DEF l, r
<1>8. /\ Len(nodes') = 41 + k /\ nodes'[41 + k] = e
      /\ \A n \in 1..(40 + k) : nodes'[n] = nodes[n]
  <2>1. 41 + k = Len(nodes) + 1
    BY <1>1
  <2> DEFINE Node == [weight : Nat, left : Nat, right : Nat]
  <2>2. e \in Node
    <3>1. 41 + k \in 1..79
      OBVIOUS
    <3>2. Weights[41 + k] \in Nat
      BY <3>1, Ranks
    <3> QED
      BY <1>2, <3>2
  <2>3. nodes \in Seq(Node)
    BY DEF TreeInv
  <2> HIDE DEF e, Node
  <2> QED
    BY <1>1, <1>7, <2>1, <2>2, <2>3, AppendProperties
<1>9. \A n \in 1..(41 + k) : nodes'[n].weight = Weights[n]
  BY <1>1, <1>8 DEF CodeInv
<1>10. \A n \in Leaves' : nodes'[n].left = 0 /\ nodes'[n].right = 0
  <2>1. \A n \in Leaves : n \in 1..(40 + k)
    BY Descriptors
  <2> QED
    BY <1>8, <2>1 DEF CodeInv, Leaves
<1>11. \A j \in 0..k : nodes'[41 + j].left = LeftOf(j) /\ nodes'[41 + j].right = RightOf(j)
  <2> TAKE j \in 0..k
  <2>1. CASE j = k
    BY <1>8, <2>1 DEF l, r
  <2>2. CASE j # k
    <3>1. 41 + j \in 1..(40 + k) /\ j \in 0..(Len(nodes) - 41)
      BY <1>1, <2>2
    <3> QED
      BY <1>8, <3>1 DEF CodeInv
  <2> QED
    BY <2>1, <2>2
<1>12. heap' = {n \in 1..(41 + k) : Rank[n] > 2 * (k + 1)}
  <2>2. \A n \in heap \ {l, r} : n \in 1..(41 + k) /\ Rank[n] > 2 * (k + 1)
    BY <1>3, <1>4, <1>h
  <2>3. 41 + k \in 1..(41 + k) /\ Rank[41 + k] > 2 * (k + 1)
    BY <1>2
  <2>4. ASSUME NEW n \in 1..(41 + k), Rank[n] > 2 * (k + 1), n # 41 + k
        PROVE  n \in heap \ {l, r}
    <3>1. n \in 1..(40 + k)
      BY <2>4
    <3>2. Rank[n] \in 1..79
      BY <1>3, <3>1
    <3> QED
      BY <1>2, <1>h, <2>4, <3>1, <3>2
  <2> QED
    BY <1>7, <2>2, <2>3, <2>4
<1>13. 41 + k \in 40..79 /\ (41 + k) - 41 = k /\ (41 + k) - 40 = k + 1
  OBVIOUS
<1> QED
  BY <1>8, <1>9, <1>10, <1>11, <1>12, <1>13 DEF CodeInv

\* Nothing but Join touches the tree.
LEMMA StepKeepsCode == ASSUME TreeInv, CodeInv, [Next]_vars PROVE CodeInv'
<1>1. Join \/ UNCHANGED tree
  BY DEF Next, Begin, WalkOn, Apply, ApplyNonTopo, ApplyPenultimate, Store, Finish,
         Overfull, vars
<1>2. CASE UNCHANGED tree
  BY <1>2 DEF CodeInv, tree, Leaves
<1> QED
  BY <1>1, <1>2, JoinKeepsCode

\* In the tree that is built every node but the last has this parent.
LEMMA Parents ==
    ASSUME CodeInv, Built, NEW n \in 1..78
    PROVE  Parent(n) = JoinOf(n)
<1> DEFINE k == (Rank[n] - 1) \div 2
           HasChild(m) == n \in {nodes[m].left, nodes[m].right}
<1>1. Len(nodes) = 79
  BY BuiltAll
<1>2. Rank[n] \in 1..78
  BY DEF Rank
<1>3. k \in 0..38 /\ (Rank[n] = 2 * k + 1 \/ Rank[n] = 2 * k + 2)
  <2> DEFINE r == Rank[n]
  <2>1. r \in 1..78
    BY <1>2
  <2> HIDE DEF r
  <2>2. (r - 1) \div 2 \in 0..38 /\ (r = 2 * ((r - 1) \div 2) + 1 \/ r = 2 * ((r - 1) \div 2) + 2)
    BY <2>1
  <2> QED
    BY <2>2 DEF r
<1>4. Popped[Rank[n]] = n
  <2>1. n \in 1..79
    OBVIOUS
  <2> QED
    BY <2>1, Ranks
<1> HIDE DEF k
<1>5. \A j \in 0..38 : nodes[41 + j].left = LeftOf(j) /\ nodes[41 + j].right = RightOf(j)
  BY <1>1 DEF CodeInv
<1>6. HasChild(41 + k) /\ 41 + k \in 1..79
  BY <1>3, <1>4, <1>5 DEF LeftOf, RightOf
<1>7. ASSUME NEW m \in 1..79, HasChild(m) PROVE m = 41 + k
  <2>1. m \notin 1..40
    <3>1. ASSUME m \in 1..40 PROVE nodes[m].left = 0 /\ nodes[m].right = 0
      BY <3>1, Descriptors DEF CodeInv
    <3> QED
      BY <1>7, <3>1
  <2>2. m - 41 \in 0..38 /\ m = 41 + (m - 41)
    BY <2>1
  <2>3. PICK j \in 0..38 : m = 41 + j
    BY <2>2
  <2>4. n = LeftOf(j) \/ n = RightOf(j)
    BY <1>5, <1>7, <2>3
  <2>5. Rank[n] = 2 * j + 1 \/ Rank[n] = 2 * j + 2
    BY <2>4, JoinsInOrder
  <2>6. j = k
    BY <1>3, <2>5
  <2> QED
    BY <2>3, <2>6
<1>8. Parent(n) = 41 + k
  BY <1>1, <1>6, <1>7 DEF Parent
<1> QED
  BY <1>8 DEF JoinOf, k

\* So the depth of every node in it is the length of its code.
LEMMA Depths ==
    ASSUME CodeInv, Built
    PROVE  \A n \in 1..79 : Depth[n] = CodeLengths[n]
<1> DEFINE Eq(f) == f = [n \in 1..79 |-> IF n = 79 THEN 0 ELSE f[Parent(n)] + 1]
           c == [n \in 1..79 |-> CodeLengths[n]]
           f == Depth
<1>1. Len(nodes) = 79 /\ Top = 79
  BY BuiltAll DEF Top
<1>2. \A n \in 1..78 : JoinOf(n) \in 1..79 /\ JoinOf(n) > n
  BY DEF JoinOf, Rank
<1>3. CodeLengths[79] = 0 /\ \A n \in 1..78 : CodeLengths[n] = CodeLengths[JoinOf(n)] + 1
  BY DEF JoinOf, Rank, CodeLengths
<1>4. \A n \in 1..78 : Parent(n) = JoinOf(n)
  BY Parents
<1>5. Eq(c)
  <2>1. \A n \in 1..79 : c[n] = IF n = 79 THEN 0 ELSE c[Parent(n)] + 1
    <3> TAKE n \in 1..79
    <3>1. CASE n = 79
      BY <1>3, <3>1
    <3>2. CASE n # 79
      <4>1. n \in 1..78
        BY <3>2
      <4> QED
        BY <1>2, <1>3, <1>4, <3>2, <4>1
    <3> QED
      BY <3>1, <3>2
  <2> QED
    BY <2>1
<1>6. Depth = CHOOSE g : Eq(g)
  BY <1>1 DEF Depth
<1>7. Eq(f)
  <2> HIDE DEF Eq, c
  <2> QED
    BY <1>5, <1>6
<1>8. f[79] = 0 /\ \A n \in 1..78 : f[n] = f[JoinOf(n)] + 1
  <2> HIDE DEF f
  <2>1. \A n \in 1..79 : f[n] = IF n = 79 THEN 0 ELSE f[Parent(n)] + 1
    BY <1>7
  <2> QED
    BY <1>4, <2>1
<1> HIDE DEF Eq, c, f
<1> DEFINE G == {d \in Nat : d \in 0..78 => f[79 - d] = CodeLengths[79 - d]}
<1>9. ASSUME NEW d \in Nat, \A e \in 0..d - 1 : e \in G PROVE d \in G
  <2> SUFFICES ASSUME d \in 0..78 PROVE f[79 - d] = CodeLengths[79 - d]
    OBVIOUS
  <2>1. CASE d = 0
    BY <1>3, <1>8, <2>1
  <2>2. CASE d # 0
    <3>1. PICK n \in 1..78 : n = 79 - d
      BY <2>2
    <3>2. PICK m \in 1..79 : m = JoinOf(n) /\ m > n
      BY <1>2
    <3>3. 79 - m \in G /\ 79 - m \in 0..78 /\ 79 - (79 - m) = m
      BY <1>9, <3>1, <3>2
    <3>4. f[m] = CodeLengths[m]
      BY <3>3
    <3> QED
      BY <1>3, <1>8, <3>1, <3>2, <3>4
  <2> QED
    BY <2>1, <2>2
<1>10. \A d \in Nat : d \in G
  <2> HIDE DEF G
  <2> QED
    BY <1>9, StrongInduction
<1>11. \A n \in 1..79 : f[n] = CodeLengths[n]
  <2> TAKE n \in 1..79
  <2>1. PICK d \in 0..78 : d = 79 - n
    OBVIOUS
  <2>2. d \in Nat /\ 79 - d = n
    BY <2>1
  <2>3. f[79 - d] = CodeLengths[79 - d]
    BY <1>10, <2>1, <2>2
  <2> QED
    BY <2>2, <2>3
<1> QED
  BY <1>11 DEF f

\* No operation has a code of more than 17 bits, and none has a longer code than
\* one of smaller weight, whatever the updates are and however wide components are.
THEOREM CodesAreShort == Spec => []ShortCodes
<1>1. Init => TreeInv /\ WalkInv /\ CodeInv
  BY TreeInit, CodeInit
<1>2. TreeInv /\ WalkInv /\ CodeInv /\ [Next]_vars => (TreeInv /\ WalkInv /\ CodeInv)'
  BY StepKeepsWalk, StepKeepsCode
<1>3. CodeInv => ShortCodes
  <2> SUFFICES ASSUME CodeInv, Built, NEW m \in Leaves, NEW n \in Leaves
               PROVE  /\ Depth[m] <= 17
                      /\ nodes[m].weight > nodes[n].weight => Depth[m] <= Depth[n]
    BY DEF ShortCodes
  <2>1. m \in 1..40 /\ n \in 1..40
    BY Descriptors
  <2>2. Depth[m] = CodeLengths[m] /\ Depth[n] = CodeLengths[n]
    BY <2>1, Depths
  <2>3. nodes[m].weight = Weights[m] /\ nodes[n].weight = Weights[n]
    <3>1. Len(nodes) = 79
      BY BuiltAll
    <3>2. m \in 1..79 /\ n \in 1..79
      BY <2>1
    <3> QED
      BY <3>1, <3>2 DEF CodeInv
  <2>4. \A j \in 1..40 : CodeLengths[j] <= 17
    BY DEF CodeLengths
  <2>5. \A j, k \in 1..40 : Weights[j] > Weights[k] => CodeLengths[j] <= CodeLengths[k]
    BY DEF Weights, CodeLengths
  <2> QED
    BY <2>1, <2>2, <2>3, <2>4, <2>5
<1> QED
  BY <1>1, <1>2, <1>3, PTL DEF Spec
=============================================================================
