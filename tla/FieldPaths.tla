----------------------------- MODULE FieldPaths -----------------------------
(***************************************************************************)
(* How the paths of the fields that an update changes are read             *)
(* (fieldpath.rs): the Huffman tree of the forty operations, built once    *)
(* with a binary heap, and read_field_paths walking it bit by bit and      *)
(* applying the operations it reaches to one path.                         *)
(*                                                                         *)
(* The bits are those of a legal update: a path never has more than        *)
(* Components components, nothing is popped that is not there, and         *)
(* components number the fields of a serializer from 0 to Base - 1.        *)
(***************************************************************************)
EXTENDS Integers, Sequences

CONSTANTS
    Base,           \* 256: components are bytes
    Components,     \* 7: the components of a path
    Capacity,       \* 4096: the paths that fit into fps
    Numbers,        \* what reading an unsigned number may yield
    Varints         \* what reading a signed one may yield

ASSUME FieldPathAssumption ==
    /\ Base \in Nat \ {0} /\ Components \in Nat \ {0} /\ Capacity \in Nat
    /\ Numbers \subseteq Nat /\ Varints \subseteq Int

D(weight, op) == [weight |-> weight, op |-> op]
FIELDOP_DESCRIPTORS == <<
    D(36271, "PlusOne"), D(10334, "PlusTwo"), D(1375, "PlusThree"),
    D(646, "PlusFour"), D(4128, "PlusN"),
    D(35, "PushOneLeftDeltaZeroRightZero"),
    D(3, "PushOneLeftDeltaZeroRightNonZero"),
    D(521, "PushOneLeftDeltaOneRightZero"),
    D(2942, "PushOneLeftDeltaOneRightNonZero"),
    D(560, "PushOneLeftDeltaNRightZero"),
    D(471, "PushOneLeftDeltaNRightNonZero"),
    D(10530, "PushOneLeftDeltaNRightNonZeroPack6Bits"),
    D(251, "PushOneLeftDeltaNRightNonZeroPack8Bits"),
    D(1, "PushTwoLeftDeltaZero"), D(1, "PushTwoPack5LeftDeltaZero"),
    D(1, "PushThreeLeftDeltaZero"), D(1, "PushThreePack5LeftDeltaZero"),
    D(1, "PushTwoLeftDeltaOne"), D(1, "PushTwoPack5LeftDeltaOne"),
    D(1, "PushThreeLeftDeltaOne"), D(1, "PushThreePack5LeftDeltaOne"),
    D(1, "PushTwoLeftDeltaN"), D(1, "PushTwoPack5LeftDeltaN"),
    D(1, "PushThreeLeftDeltaN"), D(1, "PushThreePack5LeftDeltaN"),
    D(1, "PushN"), D(310, "PushNAndNonTopographical"), D(2, "PopOnePlusOne"),
    D(1, "PopOnePlusN"), D(1837, "PopAllButOnePlusOne"),
    D(149, "PopAllButOnePlusN"), D(300, "PopAllButOnePlusNPack3Bits"),
    D(634, "PopAllButOnePlusNPack6Bits"), D(1, "PopNPlusOne"),
    D(1, "PopNPlusN"), D(1, "PopNAndNonTopographical"),
    D(76, "NonTopoComplex"), D(271, "NonTopoPenultimatePluseOne"),
    D(99, "NonTopoComplexPack4Bits"), D(25474, "FieldPathEncodeFinish") >>

Leaves == 1..Len(FIELDOP_DESCRIPTORS)

VARIABLES
    nodes,          \* the nodes of the tree, by number, leaves first
    heap,           \* the nodes that have no parent yet
    mode,           \* "idle" between calls of read_field_paths, or "reading"
    root,           \* the node the walk has come to
    fp,             \* the path that the operations change
    i,              \* how many paths were stored in fps
    op              \* history: the operation that was applied last

tree == <<nodes, heap>>
vars == <<tree, mode, root, fp, i, op>>

Top == Len(nodes)
Built == heap = {Top}

Index == 0..(Components - 1)
FieldPath == [data : [Index -> 0..(Base - 1)], last : Index]
Default == [data |-> [k \in Index |-> IF k = 0 THEN Base - 1 ELSE 0], last |-> 0]

Leaf(weight) == [weight |-> weight, left |-> 0, right |-> 0]

TypeOK ==
    /\ nodes \in Seq([weight : Nat, left : Nat, right : Nat])
    /\ heap \subseteq 1..Len(nodes)
    /\ mode \in {"idle", "reading", "panic"}
    /\ root \in 0..Len(nodes)
    /\ fp \in FieldPath
    /\ i \in 0..Capacity
    /\ op \in {FIELDOP_DESCRIPTORS[n].op : n \in Leaves} \cup {"none"}

Init ==
    /\ nodes = [n \in Leaves |-> Leaf(FIELDOP_DESCRIPTORS[n].weight)]
    /\ heap = Leaves
    /\ mode = "idle" /\ root = 0
    /\ fp = Default /\ i = 0 /\ op = "none"

-----------------------------------------------------------------------------
(* The tree.                                                               *)

\* Mutant of Before: the heap gives the heaviest node first.
BeforeHeaviest(m, n) ==
    \/ nodes[m].weight > nodes[n].weight
    \/ nodes[m].weight = nodes[n].weight /\ m > n

\* Node::cmp: the heap gives the lightest node first, the newest of equals.
Before(m, n) ==
    \/ nodes[m].weight < nodes[n].weight
    \/ nodes[m].weight = nodes[n].weight /\ m > n

PopHeap(h) == CHOOSE n \in h : \A m \in h \ {n} : Before(n, m)

Join ==
    /\ ~Built
    /\ LET left == PopHeap(heap)
           right == PopHeap(heap \ {left})
       IN  /\ nodes' = Append(nodes,
                   [weight |-> nodes[left].weight + nodes[right].weight,
                    left |-> left, right |-> right])
           /\ heap' = (heap \ {left, right}) \cup {Len(nodes) + 1}
    /\ UNCHANGED <<mode, root, fp, i, op>>

-----------------------------------------------------------------------------
(* A path.  Components are counted from 0, as in the code.                 *)

Inc(p, increments) ==
    [p EXCEPT !.data = [k \in Index |->
        IF k \in DOMAIN increments THEN (@[k] + increments[k]) % Base ELSE @[k]]]

\* Mutant of IncLast: a byte does not wrap around.
IncLastUnbounded(p, v) == [p EXCEPT !.data[p.last] = @ + v]

IncLast(p, v) == [p EXCEPT !.data[p.last] = (@ + v) % Base]

Push(p, values) ==
    [data |-> [k \in Index |->
                  IF k \in (p.last + 1)..(p.last + Len(values))
                  THEN values[k - p.last] % Base ELSE p.data[k]],
     last |-> p.last + Len(values)]

Pop(p, n) ==
    [data |-> [k \in Index |->
                  IF k \in (p.last - n + 1)..p.last THEN 0 ELSE p.data[k]],
     last |-> p.last - n]

\* Before the first operation the first component stands for -1.
Component(p, k) == IF i = 0 /\ k = 0 THEN -1 ELSE p.data[k]
Path == [k \in 1..(fp.last + 1) |-> Component(fp, k - 1)]

-----------------------------------------------------------------------------
(* The operations, as what they pop, add to the last component, and push.  *)

Up(k) == {n + k : n \in Numbers}
Values(n) == [1..n -> Numbers]
NoPush == {<<>>}
Zero == {<<0>>}
Lists == UNION {Values(n) : n \in Index}

\* Mutant of PlusMoves: counted from zero.
PlusMovesFromZero == [
    PlusOne   |-> {0} \X {0} \X NoPush,
    PlusTwo   |-> {0} \X {1} \X NoPush,
    PlusThree |-> {0} \X {2} \X NoPush,
    PlusFour  |-> {0} \X {3} \X NoPush,
    PlusN     |-> {0} \X Up(4) \X NoPush]

PlusMoves == [
    PlusOne   |-> {0} \X {1} \X NoPush,
    PlusTwo   |-> {0} \X {2} \X NoPush,
    PlusThree |-> {0} \X {3} \X NoPush,
    PlusFour  |-> {0} \X {4} \X NoPush,
    PlusN     |-> {0} \X Up(5) \X NoPush]

PushOneMoves == [
    PushOneLeftDeltaZeroRightZero          |-> {0} \X {0} \X Zero,
    PushOneLeftDeltaZeroRightNonZero       |-> {0} \X {0} \X Values(1),
    PushOneLeftDeltaOneRightZero           |-> {0} \X {1} \X Zero,
    PushOneLeftDeltaOneRightNonZero        |-> {0} \X {1} \X Values(1),
    PushOneLeftDeltaNRightZero             |-> {0} \X Up(0) \X Zero,
    PushOneLeftDeltaNRightNonZero          |-> {0} \X Up(2) \X {<<v>> : v \in Up(1)},
    PushOneLeftDeltaNRightNonZeroPack6Bits |-> {0} \X Up(2) \X {<<v>> : v \in Up(1)},
    PushOneLeftDeltaNRightNonZeroPack8Bits |-> {0} \X Up(2) \X {<<v>> : v \in Up(1)}]

PushMoreMoves == [
    PushTwoLeftDeltaZero        |-> {0} \X {0} \X Values(2),
    PushTwoLeftDeltaOne         |-> {0} \X {1} \X Values(2),
    PushTwoLeftDeltaN           |-> {0} \X Up(2) \X Values(2),
    PushTwoPack5LeftDeltaZero   |-> {0} \X {0} \X Values(2),
    PushTwoPack5LeftDeltaOne    |-> {0} \X {1} \X Values(2),
    PushTwoPack5LeftDeltaN      |-> {0} \X Up(2) \X Values(2),
    PushThreeLeftDeltaZero      |-> {0} \X {0} \X Values(3),
    PushThreeLeftDeltaOne       |-> {0} \X {1} \X Values(3),
    PushThreeLeftDeltaN         |-> {0} \X Up(2) \X Values(3),
    PushThreePack5LeftDeltaZero |-> {0} \X {0} \X Values(3),
    PushThreePack5LeftDeltaOne  |-> {0} \X {1} \X Values(3),
    PushThreePack5LeftDeltaN    |-> {0} \X Up(2) \X Values(3)]

PopMoves == [
    PopOnePlusOne             |-> {1} \X {1} \X NoPush,
    PopOnePlusN               |-> {1} \X Up(1) \X NoPush,
    PopAllButOnePlusOne       |-> {fp.last} \X {1} \X NoPush,
    PopAllButOnePlusN         |-> {fp.last} \X Up(1) \X NoPush,
    PopAllButOnePlusNPack3Bits |-> {fp.last} \X Up(1) \X NoPush,
    PopAllButOnePlusNPack6Bits |-> {fp.last} \X Up(1) \X NoPush,
    PopNPlusOne               |-> Numbers \X {1} \X NoPush]

\* These two may leave the path where it is, or move it back.
LooseMoves == [
    PushN     |-> {0} \X Up(0) \X Lists,
    PopNPlusN |-> Numbers \X Varints \X NoPush]

\* What they pop, may add to each of the components that remain, and push.
NonTopoMoves == [
    PushNAndNonTopographical |->
        [pops |-> {0}, adds |-> {v + 1 : v \in Varints}, pushes |-> Lists],
    PopNAndNonTopographical |->
        [pops |-> Numbers, adds |-> Varints, pushes |-> NoPush],
    NonTopoComplex |->
        [pops |-> {0}, adds |-> Varints, pushes |-> NoPush],
    NonTopoComplexPack4Bits |->
        [pops |-> {0}, adds |-> {n - 7 : n \in Numbers}, pushes |-> NoPush]]

\* A move of the path, if it is legal where the path stands.
Moved(m) == Push(IncLast(Pop(fp, m[1]), m[2]), m[3])

LegalMove(m) ==
    /\ m[1] <= fp.last /\ fp.last - m[1] + Len(m[3]) \in Index
    /\ Component(fp, fp.last - m[1]) + m[2] \in 0..(Base - 1)
    /\ \A k \in 1..Len(m[3]) : m[3][k] < Base

Shifted(n, increments, values) == Push(Inc(Pop(fp, n), increments), values)

LegalShift(n, increments, values) ==
    /\ n <= fp.last /\ fp.last - n + Len(values) \in Index
    /\ \A k \in DOMAIN increments :
        Component(fp, k) + increments[k] \in 0..(Base - 1)
    /\ \A k \in 1..Len(values) : values[k] < Base

-----------------------------------------------------------------------------
(* read_field_paths.                                                       *)

Begin ==
    /\ mode = "idle" /\ Built
    /\ mode' = "reading" /\ root' = Top
    /\ fp' = Default /\ i' = 0 /\ op' = "none"
    /\ UNCHANGED tree

Children == {nodes[root].left, nodes[root].right}

\* A bit that leads to a branch.
WalkOn ==
    /\ mode = "reading"
    /\ root' \in Children \ Leaves
    /\ op' = "none"
    /\ UNCHANGED <<tree, mode, fp, i>>

\* The operations that a bit leads to.
Reached ==
    IF mode = "reading"
    THEN {FIELDOP_DESCRIPTORS[leaf].op : leaf \in Children \cap Leaves} ELSE {}

Store(p, o) ==
    /\ i < Capacity
    /\ fp' = p /\ i' = i + 1 /\ op' = o
    /\ root' = Top
    /\ UNCHANGED <<tree, mode>>

Apply(moves) ==
    \E o \in Reached \cap DOMAIN moves :
        \E m \in moves[o] : LegalMove(m) /\ Store(Moved(m), o)

ApplyNonTopo ==
    \E o \in Reached \cap DOMAIN NonTopoMoves :
        LET moves == NonTopoMoves[o] IN
        \E n \in moves.pops \cap 0..fp.last, values \in moves.pushes :
           \E increments \in [0..(fp.last - n) -> moves.adds \cup {0}] :
               /\ LegalShift(n, increments, values)
               /\ Store(Shifted(n, increments, values), o)

ApplyPenultimate ==
    /\ "NonTopoPenultimatePluseOne" \in Reached /\ fp.last > 0
    /\ LET increments == [k \in {fp.last - 1} |-> 1] IN
           /\ LegalShift(0, increments, <<>>)
           /\ Store(Inc(fp, increments), "NonTopoPenultimatePluseOne")

Finish ==
    /\ "FieldPathEncodeFinish" \in Reached
    /\ mode' = "idle" /\ root' = 0
    /\ fp' = Default /\ i' = 0 /\ op' = "none"
    /\ UNCHANGED tree

\* fps has no room for the path.
Overfull ==
    /\ i = Capacity
    /\ Reached \ {"FieldPathEncodeFinish"} # {}
    /\ mode' = "panic"
    /\ UNCHANGED <<tree, root, fp, i, op>>

Next ==
    \/ Join \/ Begin \/ WalkOn
    \/ Apply(PlusMoves) \/ Apply(PushOneMoves) \/ Apply(PushMoreMoves)
    \/ Apply(PopMoves) \/ Apply(LooseMoves)
    \/ ApplyNonTopo \/ ApplyPenultimate
    \/ Finish \/ Overfull

Spec == Init /\ [][Next]_vars

-----------------------------------------------------------------------------
(* What is promised.                                                       *)

\* p comes before q when it is a prefix of q or smaller where they differ.
Less(p, q) ==
    \E k \in 1..Len(q) :
        /\ \A j \in 1..(k - 1) : j <= Len(p) /\ p[j] = q[j]
        /\ k > Len(p) \/ p[k] < q[k]

\* Every operation that is not called non-topographical moves the path to a
\* later field, in the order in which a serializer's fields are numbered and
\* nested: no update names a field twice, however the operations follow each
\* other.  PushN and PopNPlusN may stand still or go back.
Topographical == DOMAIN PlusMoves \cup DOMAIN PushOneMoves
                     \cup DOMAIN PushMoreMoves \cup DOMAIN PopMoves
MovesForward == [][i' > i /\ op' \in Topographical => Less(Path, Path')]_vars

\* The tree is a code for the weights it is built from: an operation of greater
\* weight never has the longer code, and no code is longer than 17 bits, the
\* width to which tools/huffmanfieldpath prints them.
Parent(n) == CHOOSE m \in 1..Len(nodes) : n \in {nodes[m].left, nodes[m].right}
Depth == LET depth[n \in 1..Len(nodes)] ==
                 IF n = Top THEN 0 ELSE depth[Parent(n)] + 1
         IN  depth
ShortCodes ==
    Built /\ mode = "idle" =>
        LET depth == Depth IN
        \A m, n \in Leaves :
            /\ depth[m] <= 17
            /\ nodes[m].weight > nodes[n].weight => depth[m] <= depth[n]
=============================================================================
