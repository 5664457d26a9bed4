------------------------- MODULE EntityFieldsProofs -------------------------
(***************************************************************************)
(* Proofs about EntityFields, for every message of a server, every type in *)
(* it and any number of entities and updates: with a message for which the *)
(* code was written, an entity has what was sent to it, decoded as it was  *)
(* written.                                                                *)
(*                                                                         *)
(* The server's tree of nodes and the parser's tree of fields are built    *)
(* from the same message in two ways: a node descends by its type, a field *)
(* by the serializer that was resolved when it was parsed.  ParseInv says  *)
(* what is resolved so far; with the last serializer it becomes Complete,  *)
(* that each field is what its announcement makes it.  Then the children of *)
(* a node are the children of its field (ChildField), and by induction over *)
(* the tree a path walks to its node's field, key and decoder (PathWalked). *)
(* Keys differ where nodes do, but for elements of fixed arrays            *)
(* (KeysDiffer), so that a field that is set keeps what is kept and what   *)
(* was sent together (Reflects).                                           *)
(***************************************************************************)
EXTENDS EntityFields, Induction

\* What a map holds after a key was put into it.
LEMMA PutIs ==
  ASSUME NEW map, NEW key, NEW value
  PROVE  /\ DOMAIN Put(map, key, value) = DOMAIN map \union {key}
         /\ Put(map, key, value)[key] = value
         /\ \A k \in DOMAIN map : k # key => Put(map, key, value)[k] = map[k]
BY DEF Put

-----------------------------------------------------------------------------
(* What a type means: the visits of its expression.                          *)

\* There is a function as the definition of Nested describes it.
LEMMA NestedExists ==
  ASSUME NEW type, NEW N \in Nat
  PROVE  \E f : f = [n \in 0 .. N |-> IF n = 0 THEN type ELSE Inner(f[n - 1])]
<1> DEFINE Row(f, n) == IF n = 0 THEN type ELSE Inner(f[n - 1])
           G == {m \in Nat : \E f : f = [n \in 0 .. m |-> Row(f, n)]}
<1>1. 0 \in G
  <2> DEFINE f == [n \in 0 .. 0 |-> type]
  <2>1. f = [n \in 0 .. 0 |-> Row(f, n)]
    OBVIOUS
  <2> QED
    BY <2>1
<1>2. ASSUME NEW m \in Nat, m \in G PROVE m + 1 \in G
  <2>1. PICK g : g = [n \in 0 .. m |-> Row(g, n)]
    BY <1>2
  <2> DEFINE f == [n \in 0 .. m + 1 |-> IF n = m + 1 THEN Row(g, n) ELSE g[n]]
  <2>2. \A n \in 0 .. m : f[n] = g[n]
    <3> HIDE DEF Row
    <3> QED
      OBVIOUS
  <2>3. ASSUME NEW n \in 0 .. m + 1 PROVE Row(f, n) = Row(g, n)
    <3>1. n \in Nat /\ (n # 0 => n - 1 \in 0 .. m)
      OBVIOUS
    <3> HIDE DEF f
    <3> QED
      BY <2>2, <3>1
  <2> HIDE DEF Row
  <2>4. \A n \in 0 .. m : g[n] = Row(g, n)
    BY <2>1
  <2>5. f = [n \in 0 .. m + 1 |-> f[n]] /\ f[m + 1] = Row(g, m + 1)
    OBVIOUS
  <2> HIDE DEF f
  <2>6. \A n \in 0 .. m + 1 : f[n] = Row(f, n)
    <3> SUFFICES ASSUME NEW n \in 0 .. m + 1 PROVE f[n] = Row(f, n)
      OBVIOUS
    <3>1. n \in 0 .. m \/ n = m + 1
      OBVIOUS
    <3> QED
      BY <2>2, <2>3, <2>4, <2>5, <3>1
  <2>7. f = [n \in 0 .. m + 1 |-> Row(f, n)]
    BY <2>5, <2>6
  <2> QED
    BY <2>7
<1>3. \A m \in Nat : m \in G
  <2> HIDE DEF G
  <2> QED
    BY <1>1, <1>2, NaturalInduction
<1> QED
  BY <1>3

\* The types that are nested in a type: the next is inside of the one before.
LEMMA NestedIs ==
  ASSUME NEW type, MaxNesting \in Nat
  PROVE  /\ Nested(type)[0] = type
         /\ \A n \in 1 .. MaxNesting : Nested(type)[n] = Inner(Nested(type)[n - 1])
<1> DEFINE s == CHOOSE f : f = [n \in 0 .. MaxNesting |-> IF n = 0 THEN type ELSE Inner(f[n - 1])]
<1>1. s = [n \in 0 .. MaxNesting |-> IF n = 0 THEN type ELSE Inner(s[n - 1])]
  BY NestedExists
<1>2. Nested(type) = s
  BY DEF Nested
<1> HIDE DEF s
<1>3. \A n \in 1 .. MaxNesting : n \in 0 .. MaxNesting /\ n # 0
  OBVIOUS
<1> QED
  BY <1>1, <1>2, <1>3

\* What is made of the type below which there are up to n more.
VisitedAt(type, proto, f, n) ==
  Visit(Nested(type)[MaxNesting - n], proto, IF n = 0 THEN DefaultMetadata ELSE f[n - 1])

\* A visit needs only the one of the type inside of it.
LEMMA VisitedBefore ==
  ASSUME NEW type, NEW proto, NEW f, NEW g, NEW n \in Nat, n # 0 => f[n - 1] = g[n - 1]
  PROVE  VisitedAt(type, proto, f, n) = VisitedAt(type, proto, g, n)
BY DEF VisitedAt

\* There is a function as the definition of VisitAny describes it.
LEMMA VisitedExists ==
  ASSUME NEW type, NEW proto, NEW N \in Nat
  PROVE  \E f : f = [n \in 0 .. N |-> VisitedAt(type, proto, f, n)]
<1> DEFINE Row(f, n) == VisitedAt(type, proto, f, n)
           G == {m \in Nat : \E f : f = [n \in 0 .. m |-> Row(f, n)]}
<1>1. 0 \in G
  <2> DEFINE f == [n \in 0 .. 0 |-> VisitedAt(type, proto, <<>>, 0)]
  <2>1. f = [n \in 0 .. 0 |-> Row(f, n)]
    BY VisitedBefore
  <2> QED
    BY <2>1
<1>2. ASSUME NEW m \in Nat, m \in G PROVE m + 1 \in G
  <2>1. PICK g : g = [n \in 0 .. m |-> Row(g, n)]
    BY <1>2
  <2> DEFINE f == [n \in 0 .. m + 1 |-> IF n = m + 1 THEN Row(g, n) ELSE g[n]]
  <2>2. \A n \in 0 .. m : f[n] = g[n]
    <3> HIDE DEF Row
    <3> QED
      OBVIOUS
  <2>3. ASSUME NEW n \in 0 .. m + 1 PROVE Row(f, n) = Row(g, n)
    <3>1. n \in Nat /\ (n # 0 => n - 1 \in 0 .. m)
      OBVIOUS
    <3> HIDE DEF f
    <3> QED
      BY <2>2, <3>1, VisitedBefore
  <2> HIDE DEF Row
  <2>4. \A n \in 0 .. m : g[n] = Row(g, n)
    BY <2>1
  <2>5. f = [n \in 0 .. m + 1 |-> f[n]] /\ f[m + 1] = Row(g, m + 1)
    OBVIOUS
  <2> HIDE DEF f
  <2>6. \A n \in 0 .. m + 1 : f[n] = Row(f, n)
    <3> SUFFICES ASSUME NEW n \in 0 .. m + 1 PROVE f[n] = Row(f, n)
      OBVIOUS
    <3>1. n \in 0 .. m \/ n = m + 1
      OBVIOUS
    <3> QED
      BY <2>2, <2>3, <2>4, <2>5, <3>1
  <2>7. f = [n \in 0 .. m + 1 |-> Row(f, n)]
    BY <2>5, <2>6
  <2> QED
    BY <2>7
<1>3. \A m \in Nat : m \in G
  <2> HIDE DEF G
  <2> QED
    BY <1>1, <1>2, NaturalInduction
<1> QED
  BY <1>3

\* The outermost two visits.
LEMMA OuterVisits ==
  ASSUME NEW type, NEW proto, MaxNesting \in Nat \ {0}
  PROVE  \E innermost :
           VisitAny(type, proto) = Visit(type, proto, Visit(Inner(type), proto, innermost))
<1> DEFINE Row(f, n) == VisitedAt(type, proto, f, n)
           s == CHOOSE f : f = [n \in 0 .. MaxNesting |-> Row(f, n)]
<1>1. s = [n \in 0 .. MaxNesting |-> Row(s, n)]
  <2>1. MaxNesting \in Nat
    OBVIOUS
  <2>2. \E f : f = [n \in 0 .. MaxNesting |-> Row(f, n)]
    BY <2>1, VisitedExists
  <2> HIDE DEF Row
  <2> QED
    BY <2>2
<1>2. VisitAny(type, proto) = s[MaxNesting]
  BY DEF VisitAny, VisitedAt
<1>3. MaxNesting \in 0 .. MaxNesting /\ MaxNesting - 1 \in 0 .. MaxNesting /\ MaxNesting # 0
  OBVIOUS
<1> HIDE DEF s
<1>4. s[MaxNesting] = Row(s, MaxNesting) /\ s[MaxNesting - 1] = Row(s, MaxNesting - 1)
  <2> HIDE DEF Row
  <2> QED
    BY <1>1, <1>3
<1>5. Nested(type)[0] = type /\ Nested(type)[1] = Inner(type)
  BY NestedIs
<1>6. MaxNesting - MaxNesting = 0 /\ MaxNesting - (MaxNesting - 1) = 1
  OBVIOUS
<1>7. s[MaxNesting] = Visit(type, proto, s[MaxNesting - 1])
  BY <1>3, <1>4, <1>5, <1>6 DEF VisitedAt
<1> DEFINE innermost == IF MaxNesting - 1 = 0 THEN DefaultMetadata ELSE s[MaxNesting - 1 - 1]
<1>8. s[MaxNesting - 1] = Visit(Inner(type), proto, innermost)
  BY <1>4, <1>5, <1>6 DEF VisitedAt
<1> HIDE DEF innermost
<1> QED
  BY <1>2, <1>7, <1>8

\* A type that holds no other.
Simple(type) == ~IsFixedArray(type) /\ ~IsVector(type)
\* The kinds of types.
Kinds == {"Ident", "Template", "Array", "Pointer"}

\* What is inside of a simple type does not matter.
LEMMA SimpleVisit ==
  ASSUME NEW type, NEW proto, NEW a, NEW b, Simple(type), type.kind \in Kinds
  PROVE  Visit(type, proto, a) = Visit(type, proto, b)
<1>1. CASE type.kind = "Ident"
  BY <1>1 DEF Visit
<1>2. CASE type.kind = "Template"
  BY <1>2 DEF Visit, VisitTemplate, Simple, IsVector
<1>3. CASE type.kind = "Array"
  BY <1>3 DEF Visit, VisitArray, Simple, IsFixedArray
<1>4. CASE type.kind = "Pointer"
  BY <1>4 DEF Visit
<1> QED
  BY <1>1, <1>2, <1>3, <1>4 DEF Kinds

\* The visit of a type that holds only simple ones.
LEMMA VisitIs ==
  ASSUME NEW type, NEW proto, MaxNesting \in Nat \ {0}, type.kind \in Kinds,
         Simple(type) \/ (Simple(Inner(type)) /\ Inner(type).kind \in Kinds)
  PROVE  VisitAny(type, proto) = Visit(type, proto, VisitAny(Inner(type), proto))
<1>1. PICK a : VisitAny(type, proto) = Visit(type, proto, Visit(Inner(type), proto, a))
  BY OuterVisits
<1>2. PICK b : VisitAny(Inner(type), proto) = Visit(Inner(type), proto, b)
  BY OuterVisits
<1>3. CASE Simple(type)
  BY <1>1, <1>3, SimpleVisit
<1>4. CASE Simple(Inner(type)) /\ Inner(type).kind \in Kinds
  <2>1. Visit(Inner(type), proto, a) = Visit(Inner(type), proto, b)
    BY <1>4, SimpleVisit
  <2> QED
    BY <1>1, <1>2, <2>1
<1> QED
  BY <1>3, <1>4

\* No visit makes the decoder of fields that have no value.
LEMMA FloatsDecoded ==
  ASSUME NEW proto, NEW makes, makes # "nothing"
  PROVE  FloatsDecoder(makes, proto) # InvalidDecoder
BY DEF FloatsDecoder, Panics, Fails, InvalidDecoder, Decoder

\* No ident is read with it.
LEMMA IdentDecoded ==
  ASSUME NEW ident, NEW proto
  PROVE  IdentDecoder(ident, proto) # InvalidDecoder
<1>1. FloatsDecoder("F32", proto) # InvalidDecoder /\ FloatsDecoder("Vector2", proto) # InvalidDecoder
      /\ FloatsDecoder("Vector3", proto) # InvalidDecoder /\ FloatsDecoder("Vector4", proto) # InvalidDecoder
  BY FloatsDecoded
<1>2. QAngleDecoder(proto) # InvalidDecoder
  BY DEF QAngleDecoder, Panics, InvalidDecoder, Decoder
<1>3. Vector3Decoder(proto) # InvalidDecoder
  BY <1>1 DEF Vector3Decoder, InvalidDecoder, Decoder
<1>4. U64Decoder(proto) # InvalidDecoder
  BY DEF U64Decoder, DefaultU64, InvalidDecoder, Decoder
<1>5. \A makes, reads : makes # "nothing" => Decoder(makes, reads) # InvalidDecoder
  BY DEF Decoder, InvalidDecoder
<1> QED
  BY <1>1, <1>2, <1>3, <1>4, <1>5 DEF IdentDecoder

\* No type is, unless the type inside of it is.
LEMMA VisitDecoded ==
  ASSUME NEW type, NEW proto, NEW inner, type.kind \in Kinds, inner.decoder # InvalidDecoder
  PROVE  Visit(type, proto, inner).decoder # InvalidDecoder
<1>1. Panics # InvalidDecoder /\ Fails # InvalidDecoder /\ DefaultU64 # InvalidDecoder
      /\ Decoder("Bool", "bool") # InvalidDecoder /\ Decoder("String", "string") # InvalidDecoder
  BY DEF Panics, Fails, DefaultU64, Decoder, InvalidDecoder
<1>2. \A ident : VisitIdent(ident, proto).decoder # InvalidDecoder
  BY <1>1, IdentDecoded DEF VisitIdent, VisitPointer, Metadata
<1>3. VisitPointer.decoder # InvalidDecoder
  BY <1>1 DEF VisitPointer, Metadata
<1>4. \A d, e : Metadata(d, e).decoder = e
  BY DEF Metadata
<1>5. \A m : m.decoder # InvalidDecoder => Inside(inner, m).decoder # InvalidDecoder
  BY <1>4 DEF Inside
<1>6. VisitTemplate(type.expr, proto, inner).decoder # InvalidDecoder
  BY <1>1, <1>2, <1>4, <1>5 DEF VisitTemplate
<1>7. VisitArray(type.expr, type.len, proto, inner).decoder # InvalidDecoder
  BY <1>1, <1>4, <1>5 DEF VisitArray
<1> QED
  BY <1>2, <1>3, <1>6, <1>7 DEF Visit, Kinds

\* What the announcements for which the code was written say of a field.
SpecialMetadata == Metadata(DynamicSerializerArray, DefaultU64)
\* Types whose children are elements.
HoldsElements(type) == IsFixedArray(type) \/ IsVector(type)
\* What Plain says of one field, and that its type is one.
PlainField(proto) ==
  /\ proto.type.kind \in Kinds
  /\ HoldsElements(proto.type) =>
       /\ Simple(ElementType(proto.type)) /\ ElementType(proto.type).kind \in Kinds
       /\ ~IsPointer(ElementType(proto.type), proto)
  /\ VisitAny(proto.type, proto) = SpecialMetadata => proto.ser # NoSymbol
  /\ proto.type.kind = "Array" /\ proto.type.len.kind = "Num" => proto.type.len.num \in Nat \ {0}

\* The type of a plain field is visited as its outermost visit says, the
\* elements being visited on their own.
LEMMA PlainVisit ==
  ASSUME NEW proto, MaxNesting \in Nat \ {0}, PlainField(proto)
  PROVE  VisitAny(proto.type, proto) =
           Visit(proto.type, proto, VisitAny(ElementType(proto.type), proto))
<1> DEFINE type == proto.type
<1>1. CASE type.kind = "Ident"
  <2>1. PICK a : VisitAny(type, proto) = Visit(type, proto, Visit(Inner(type), proto, a))
    BY OuterVisits
  <2>2. \A x : Visit(type, proto, x) = VisitIdent(type.name, proto)
    BY <1>1 DEF Visit
  <2> QED
    BY <2>1, <2>2
<1>2. CASE type.kind # "Ident"
  <2>1. ElementType(type) = Inner(type)
    BY <1>2 DEF ElementType
  <2>2. Simple(type) \/ (Simple(Inner(type)) /\ Inner(type).kind \in Kinds)
    <3>1. CASE HoldsElements(type)
      BY <2>1, <3>1 DEF PlainField
    <3>2. CASE ~HoldsElements(type)
      BY <3>2 DEF HoldsElements, Simple
    <3> QED
      BY <3>1, <3>2
  <2> QED
    BY <2>1, <2>2, VisitIs DEF PlainField
<1> QED
  BY <1>1, <1>2

\* A type that holds no other is visited on its own.
LEMMA SimpleDecoded ==
  ASSUME NEW type, NEW proto, MaxNesting \in Nat \ {0}, type.kind \in Kinds, Simple(type)
  PROVE  VisitAny(type, proto).decoder # InvalidDecoder
<1>1. PICK a : VisitAny(type, proto) = Visit(type, proto, Visit(Inner(type), proto, a))
  BY OuterVisits
<1> DEFINE b == Metadata(NoDescriptor, DefaultU64)
<1>2. Visit(type, proto, Visit(Inner(type), proto, a)) = Visit(type, proto, b)
  BY SimpleVisit
<1>3. b.decoder # InvalidDecoder
  BY DEF Metadata, DefaultU64, Decoder, InvalidDecoder
<1> QED
  BY <1>1, <1>2, <1>3, VisitDecoded

\* What the type of a field means to the parser, and to the server.
LEMMA FieldMeans ==
  ASSUME NEW proto, MaxNesting \in Nat \ {0}, PlainField(proto),
         ~Broken(VisitAny(proto.type, proto).decoder)
  PROVE  LET type == proto.type
             element == VisitAny(ElementType(type), proto)
             metadata == VisitAny(type, proto)
         IN  /\ IsFixedArray(type) =>
                  /\ metadata = Metadata(FixedArray(ArrayLength(type.len)), element.decoder)
                  /\ ArrayLength(type.len) \in Nat \ {0}
             /\ IsVector(type) /\ proto.ser # NoSymbol => metadata = SpecialMetadata
             /\ IsVector(type) /\ proto.ser = NoSymbol =>
                  metadata = Metadata(DynamicArray(element.decoder), DefaultU64)
             /\ Simple(type) => metadata.descriptor \in {NoDescriptor, PointerDescriptor}
             /\ metadata.decoder # InvalidDecoder
             /\ HoldsElements(type) => element.decoder # InvalidDecoder
<1> DEFINE type == proto.type
           element == VisitAny(ElementType(type), proto)
           metadata == VisitAny(type, proto)
<1>1. metadata = Visit(type, proto, element)
  BY PlainVisit
<1>2. \A d, e : Metadata(d, e).decoder = e /\ Metadata(d, e).descriptor = d
  BY DEF Metadata
<1>3. ~Broken(metadata.decoder) /\ Broken(Panics) /\ Broken(Fails)
  BY DEF Broken
<1>4. HoldsElements(type) => element.decoder # InvalidDecoder
  BY SimpleDecoded DEF PlainField
<1>5. type.kind \in Kinds
  BY DEF PlainField
<1> HIDE DEF element, metadata
<1>6. IsFixedArray(type) => metadata = Metadata(FixedArray(ArrayLength(type.len)), element.decoder)
  BY <1>1, <1>2, <1>3 DEF Visit, VisitArray, IsFixedArray, Inside
<1>7. IsFixedArray(type) => ArrayLength(type.len) \in Nat \ {0}
  BY DEF PlainField, IsFixedArray, ArrayLength
<1>8. IsVector(type) =>
        \/ metadata = SpecialMetadata
        \/ proto.ser = NoSymbol /\ metadata = Metadata(DynamicArray(element.decoder), DefaultU64)
  <2>0. \A ident \in SpecialIdents : VisitIdent(ident, proto) = SpecialMetadata
    <3>1. \A ident \in SpecialIdents : ident \notin PointerIdents
      BY DEF SpecialIdents, PointerIdents
    <3> QED
      BY <3>1 DEF VisitIdent, SpecialMetadata
  <2>1. CASE type.kind = "Ident" /\ type.name \in SpecialIdents
    BY <1>1, <2>0, <2>1 DEF Visit
  <2>2. CASE type.kind = "Template" /\ type.expr.kind = "Ident" /\ type.expr.name \in SpecialIdents
    <3>1. type.expr.name \notin VectorIdents
      BY <2>2 DEF SpecialIdents, VectorIdents
    <3> QED
      BY <1>1, <2>0, <2>2, <3>1 DEF Visit, VisitTemplate
  <2>3. CASE type.kind = "Template" /\ type.expr.kind = "Ident" /\ type.expr.name \in VectorIdents
    BY <1>1, <1>2, <1>3, <2>3 DEF Visit, VisitTemplate, Inside, SpecialMetadata
  <2> QED
    BY <2>1, <2>2, <2>3 DEF IsVector
<1>9. SpecialMetadata # Metadata(DynamicArray(element.decoder), DefaultU64)
  BY <1>2 DEF SpecialMetadata, DynamicArray, DynamicSerializerArray
<1>10. metadata = SpecialMetadata => proto.ser # NoSymbol
  BY DEF PlainField, metadata
<1>11. IsVector(type) /\ proto.ser # NoSymbol => metadata = SpecialMetadata
  BY <1>8
<1>12. IsVector(type) /\ proto.ser = NoSymbol =>
         metadata = Metadata(DynamicArray(element.decoder), DefaultU64)
  BY <1>8, <1>10
<1>13. Simple(type) => metadata.descriptor \in {NoDescriptor, PointerDescriptor}
  <2> SUFFICES ASSUME Simple(type) PROVE metadata.descriptor \in {NoDescriptor, PointerDescriptor}
    OBVIOUS
  <2>1. \A ident : ident \notin SpecialIdents =>
          VisitIdent(ident, proto).descriptor \in {NoDescriptor, PointerDescriptor}
    BY <1>2 DEF VisitIdent, VisitPointer
  <2>2. CASE type.kind = "Ident"
    BY <1>1, <2>1, <2>2 DEF Visit, Simple, IsVector
  <2>3. CASE type.kind = "Template"
    BY <1>1, <1>2, <2>1, <2>3 DEF Visit, VisitTemplate, Simple, IsVector
  <2>4. CASE type.kind = "Array"
    BY <1>1, <1>2, <2>4 DEF Visit, VisitArray, Simple, IsFixedArray
  <2>5. CASE type.kind = "Pointer"
    BY <1>1, <1>2, <2>5 DEF Visit, VisitPointer
  <2> QED
    BY <1>5, <2>2, <2>3, <2>4, <2>5 DEF Kinds
<1>14. metadata.decoder # InvalidDecoder
  <2>1. CASE Simple(type)
    BY <1>5, <2>1, SimpleDecoded DEF metadata
  <2>2. CASE HoldsElements(type)
    BY <1>1, <1>4, <1>5, <2>2, VisitDecoded
  <2> QED
    BY <2>1, <2>2 DEF Simple, HoldsElements
<1> QED
  BY <1>4, <1>6, <1>7, <1>11, <1>12, <1>13, <1>14 DEF element, metadata

-----------------------------------------------------------------------------
(* Along a path, and along an update: from one component or field to the next. *)

\* What is walked to after n components.
WalkedAt(ser, path, f, n) ==
  IF n = 0 THEN [undefined |-> FALSE, field |-> RootField(ser), key |-> <<>>] ELSE Step(f[n - 1], path[n])

\* The walk to a component needs only the one to the component before it.
LEMMA WalkedAtBefore ==
  ASSUME NEW ser, NEW path, NEW f, NEW g, NEW n \in Nat, n # 0 => f[n - 1] = g[n - 1]
  PROVE  WalkedAt(ser, path, f, n) = WalkedAt(ser, path, g, n)
BY DEF WalkedAt

\* There is a function as the definition of Walk describes it.
LEMMA WalkedAtExists ==
  ASSUME NEW ser, NEW path, NEW N \in Nat
  PROVE  \E f : f = [n \in 0 .. N |-> WalkedAt(ser, path, f, n)]
<1> DEFINE Row(f, n) == WalkedAt(ser, path, f, n)
           G == {m \in Nat : \E f : f = [n \in 0 .. m |-> Row(f, n)]}
<1>1. 0 \in G
  <2> DEFINE f == [n \in 0 .. 0 |-> WalkedAt(ser, path, <<>>, 0)]
  <2>1. f = [n \in 0 .. 0 |-> Row(f, n)]
    BY WalkedAtBefore
  <2> QED
    BY <2>1
<1>2. ASSUME NEW m \in Nat, m \in G PROVE m + 1 \in G
  <2>1. PICK g : g = [n \in 0 .. m |-> Row(g, n)]
    BY <1>2
  <2> DEFINE f == [n \in 0 .. m + 1 |-> IF n = m + 1 THEN Row(g, n) ELSE g[n]]
  <2>2. \A n \in 0 .. m : f[n] = g[n]
    <3> HIDE DEF Row
    <3> QED
      OBVIOUS
  <2>3. ASSUME NEW n \in 0 .. m + 1 PROVE Row(f, n) = Row(g, n)
    <3>1. n \in Nat /\ (n # 0 => n - 1 \in 0 .. m)
      OBVIOUS
    <3> HIDE DEF f
    <3> QED
      BY <2>2, <3>1, WalkedAtBefore
  <2> HIDE DEF Row
  <2>4. \A n \in 0 .. m : g[n] = Row(g, n)
    BY <2>1
  <2>5. f = [n \in 0 .. m + 1 |-> f[n]] /\ f[m + 1] = Row(g, m + 1)
    OBVIOUS
  <2> HIDE DEF f
  <2>6. \A n \in 0 .. m + 1 : f[n] = Row(f, n)
    <3> SUFFICES ASSUME NEW n \in 0 .. m + 1 PROVE f[n] = Row(f, n)
      OBVIOUS
    <3>1. n \in 0 .. m \/ n = m + 1
      OBVIOUS
    <3> QED
      BY <2>2, <2>3, <2>4, <2>5, <3>1
  <2>7. f = [n \in 0 .. m + 1 |-> Row(f, n)]
    BY <2>5, <2>6
  <2> QED
    BY <2>7
<1>3. \A m \in Nat : m \in G
  <2> HIDE DEF G
  <2> QED
    BY <1>1, <1>2, NaturalInduction
<1> QED
  BY <1>3

\* Walk is the last value of such a function.
LEMMA WalkIs ==
  ASSUME NEW ser, NEW path, Len(path) \in Nat
  PROVE  \E f : /\ f = [n \in 0 .. Len(path) |-> WalkedAt(ser, path, f, n)]
               /\ Walk(ser, path) = f[Len(path)]
<1> DEFINE s == CHOOSE f : f = [n \in 0 .. Len(path) |-> WalkedAt(ser, path, f, n)]
<1>1. \E f : f = [n \in 0 .. Len(path) |-> WalkedAt(ser, path, f, n)]
  BY WalkedAtExists
<1>2. s = [n \in 0 .. Len(path) |-> WalkedAt(ser, path, s, n)]
  BY <1>1
<1>3. Walk(ser, path) = s[Len(path)]
  BY DEF Walk, WalkedAt
<1> HIDE DEF s
<1> QED
  BY <1>2, <1>3

\* No component leads nowhere.
LEMMA WalkEmpty ==
  ASSUME NEW ser
  PROVE  Walk(ser, <<>>) = [undefined |-> FALSE, field |-> RootField(ser), key |-> <<>>]
<1>1. Len(<<>>) = 0
  OBVIOUS
<1>2. PICK f : f = [n \in 0 .. 0 |-> WalkedAt(ser, <<>>, f, n)] /\ Walk(ser, <<>>) = f[0]
  BY <1>1, WalkIs
<1>3. f[0] = WalkedAt(ser, <<>>, f, 0)
  BY <1>2
<1> QED
  BY <1>2, <1>3 DEF WalkedAt

\* One more component is one more step.
LEMMA WalkAppend ==
  ASSUME NEW ser, NEW S, NEW path \in Seq(S), NEW e \in S
  PROVE  Walk(ser, Append(path, e)) = Step(Walk(ser, path), e)
<1> DEFINE t == Append(path, e)
           L == Len(path)
<1>1. L \in Nat /\ Len(t) = L + 1 /\ t[L + 1] = e /\ \A n \in 1 .. L : t[n] = path[n]
  BY AppendProperties, LenProperties
<1> HIDE DEF t
<1>2. PICK f : f = [n \in 0 .. L + 1 |-> WalkedAt(ser, t, f, n)] /\ Walk(ser, t) = f[L + 1]
  <2>1. Len(t) \in Nat
    BY <1>1
  <2>2. PICK f : f = [n \in 0 .. Len(t) |-> WalkedAt(ser, t, f, n)] /\ Walk(ser, t) = f[Len(t)]
    BY <2>1, WalkIs
  <2> QED
    BY <1>1, <2>2
<1>3. PICK g : g = [n \in 0 .. L |-> WalkedAt(ser, path, g, n)] /\ Walk(ser, path) = g[L]
  <2>1. Len(path) \in Nat
    BY <1>1
  <2> QED
    BY <2>1, WalkIs
<1> HIDE DEF L
<1>4. \A n \in 0 .. L + 1 : f[n] = WalkedAt(ser, t, f, n)
  BY <1>2
<1>5. \A n \in 0 .. L : g[n] = WalkedAt(ser, path, g, n)
  BY <1>3
<1> DEFINE G == {n \in Nat : n <= L => f[n] = g[n]}
<1>6. 0 \in G
  <2>1. 0 \in 0 .. L /\ 0 \in 0 .. L + 1
    BY <1>1
  <2>2. f[0] = WalkedAt(ser, t, f, 0) /\ g[0] = WalkedAt(ser, path, g, 0)
    BY <1>4, <1>5, <2>1
  <2>3. f[0] = [undefined |-> FALSE, field |-> RootField(ser), key |-> <<>>] /\ g[0] = [undefined |-> FALSE, field |-> RootField(ser), key |-> <<>>]
    BY <2>2 DEF WalkedAt
  <2> QED
    BY <2>3
<1>7. ASSUME NEW n \in Nat, n \in G PROVE n + 1 \in G
  <2> SUFFICES ASSUME n + 1 <= L PROVE f[n + 1] = g[n + 1]
    OBVIOUS
  <2>1. n + 1 \in 0 .. L /\ n + 1 \in 0 .. L + 1 /\ n + 1 \in 1 .. L /\ n + 1 # 0 /\ (n + 1) - 1 = n
    BY <1>1
  <2>2. f[n] = g[n]
    BY <1>1, <1>7
  <2>3. f[n + 1] = WalkedAt(ser, t, f, n + 1) /\ g[n + 1] = WalkedAt(ser, path, g, n + 1) /\ t[n + 1] = path[n + 1]
    BY <1>1, <1>4, <1>5, <2>1
  <2> QED
    BY <2>1, <2>2, <2>3 DEF WalkedAt
<1>8. \A n \in Nat : n \in G
  <2> HIDE DEF G
  <2> QED
    BY <1>6, <1>7, NaturalInduction
<1>9. f[L] = g[L]
  BY <1>1, <1>8
<1>10. L + 1 \in 0 .. L + 1 /\ L + 1 # 0 /\ (L + 1) - 1 = L
  BY <1>1
<1>11. f[L + 1] = WalkedAt(ser, t, f, L + 1)
  BY <1>4, <1>10
<1>12. f[L + 1] = Step(f[L], t[L + 1])
  BY <1>10, <1>11 DEF WalkedAt
<1> QED
  BY <1>1, <1>2, <1>3, <1>9, <1>12 DEF t

\* What is found after n components.
FoundAt(ser, path, f, n) ==
  IF n = 0 THEN RootField(ser) ELSE Child(f[n - 1], path[n])

\* The field of a component needs only the one of the component before it.
LEMMA FoundAtBefore ==
  ASSUME NEW ser, NEW path, NEW f, NEW g, NEW n \in Nat, n # 0 => f[n - 1] = g[n - 1]
  PROVE  FoundAt(ser, path, f, n) = FoundAt(ser, path, g, n)
BY DEF FoundAt

\* There is a function as the definition of Lookup describes it.
LEMMA FoundAtExists ==
  ASSUME NEW ser, NEW path, NEW N \in Nat
  PROVE  \E f : f = [n \in 0 .. N |-> FoundAt(ser, path, f, n)]
<1> DEFINE Row(f, n) == FoundAt(ser, path, f, n)
           G == {m \in Nat : \E f : f = [n \in 0 .. m |-> Row(f, n)]}
<1>1. 0 \in G
  <2> DEFINE f == [n \in 0 .. 0 |-> FoundAt(ser, path, <<>>, 0)]
  <2>1. f = [n \in 0 .. 0 |-> Row(f, n)]
    BY FoundAtBefore
  <2> QED
    BY <2>1
<1>2. ASSUME NEW m \in Nat, m \in G PROVE m + 1 \in G
  <2>1. PICK g : g = [n \in 0 .. m |-> Row(g, n)]
    BY <1>2
  <2> DEFINE f == [n \in 0 .. m + 1 |-> IF n = m + 1 THEN Row(g, n) ELSE g[n]]
  <2>2. \A n \in 0 .. m : f[n] = g[n]
    <3> HIDE DEF Row
    <3> QED
      OBVIOUS
  <2>3. ASSUME NEW n \in 0 .. m + 1 PROVE Row(f, n) = Row(g, n)
    <3>1. n \in Nat /\ (n # 0 => n - 1 \in 0 .. m)
      OBVIOUS
    <3> HIDE DEF f
    <3> QED
      BY <2>2, <3>1, FoundAtBefore
  <2> HIDE DEF Row
  <2>4. \A n \in 0 .. m : g[n] = Row(g, n)
    BY <2>1
  <2>5. f = [n \in 0 .. m + 1 |-> f[n]] /\ f[m + 1] = Row(g, m + 1)
    OBVIOUS
  <2> HIDE DEF f
  <2>6. \A n \in 0 .. m + 1 : f[n] = Row(f, n)
    <3> SUFFICES ASSUME NEW n \in 0 .. m + 1 PROVE f[n] = Row(f, n)
      OBVIOUS
    <3>1. n \in 0 .. m \/ n = m + 1
      OBVIOUS
    <3> QED
      BY <2>2, <2>3, <2>4, <2>5, <3>1
  <2>7. f = [n \in 0 .. m + 1 |-> Row(f, n)]
    BY <2>5, <2>6
  <2> QED
    BY <2>7
<1>3. \A m \in Nat : m \in G
  <2> HIDE DEF G
  <2> QED
    BY <1>1, <1>2, NaturalInduction
<1> QED
  BY <1>3

\* Lookup is the last value of such a function.
LEMMA LookupIs ==
  ASSUME NEW ser, NEW path, Len(path) \in Nat
  PROVE  \E f : /\ f = [n \in 0 .. Len(path) |-> FoundAt(ser, path, f, n)]
               /\ Lookup(ser, path) = f[Len(path)]
<1> DEFINE s == CHOOSE f : f = [n \in 0 .. Len(path) |-> FoundAt(ser, path, f, n)]
<1>1. \E f : f = [n \in 0 .. Len(path) |-> FoundAt(ser, path, f, n)]
  BY FoundAtExists
<1>2. s = [n \in 0 .. Len(path) |-> FoundAt(ser, path, s, n)]
  BY <1>1
<1>3. Lookup(ser, path) = s[Len(path)]
  BY DEF Lookup, FoundAt
<1> HIDE DEF s
<1> QED
  BY <1>2, <1>3

\* No component finds the top.
LEMMA LookupEmpty ==
  ASSUME NEW ser
  PROVE  Lookup(ser, <<>>) = RootField(ser)
<1>1. Len(<<>>) = 0
  OBVIOUS
<1>2. PICK f : f = [n \in 0 .. 0 |-> FoundAt(ser, <<>>, f, n)] /\ Lookup(ser, <<>>) = f[0]
  BY <1>1, LookupIs
<1>3. f[0] = FoundAt(ser, <<>>, f, 0)
  BY <1>2
<1> QED
  BY <1>2, <1>3 DEF FoundAt

\* One more component finds a child.
LEMMA LookupAppend ==
  ASSUME NEW ser, NEW S, NEW path \in Seq(S), NEW e \in S
  PROVE  Lookup(ser, Append(path, e)) = Child(Lookup(ser, path), e)
<1> DEFINE t == Append(path, e)
           L == Len(path)
<1>1. L \in Nat /\ Len(t) = L + 1 /\ t[L + 1] = e /\ \A n \in 1 .. L : t[n] = path[n]
  BY AppendProperties, LenProperties
<1> HIDE DEF t
<1>2. PICK f : f = [n \in 0 .. L + 1 |-> FoundAt(ser, t, f, n)] /\ Lookup(ser, t) = f[L + 1]
  <2>1. Len(t) \in Nat
    BY <1>1
  <2>2. PICK f : f = [n \in 0 .. Len(t) |-> FoundAt(ser, t, f, n)] /\ Lookup(ser, t) = f[Len(t)]
    BY <2>1, LookupIs
  <2> QED
    BY <1>1, <2>2
<1>3. PICK g : g = [n \in 0 .. L |-> FoundAt(ser, path, g, n)] /\ Lookup(ser, path) = g[L]
  <2>1. Len(path) \in Nat
    BY <1>1
  <2> QED
    BY <2>1, LookupIs
<1> HIDE DEF L
<1>4. \A n \in 0 .. L + 1 : f[n] = FoundAt(ser, t, f, n)
  BY <1>2
<1>5. \A n \in 0 .. L : g[n] = FoundAt(ser, path, g, n)
  BY <1>3
<1> DEFINE G == {n \in Nat : n <= L => f[n] = g[n]}
<1>6. 0 \in G
  <2>1. 0 \in 0 .. L /\ 0 \in 0 .. L + 1
    BY <1>1
  <2>2. f[0] = FoundAt(ser, t, f, 0) /\ g[0] = FoundAt(ser, path, g, 0)
    BY <1>4, <1>5, <2>1
  <2>3. f[0] = RootField(ser) /\ g[0] = RootField(ser)
    BY <2>2 DEF FoundAt
  <2> QED
    BY <2>3
<1>7. ASSUME NEW n \in Nat, n \in G PROVE n + 1 \in G
  <2> SUFFICES ASSUME n + 1 <= L PROVE f[n + 1] = g[n + 1]
    OBVIOUS
  <2>1. n + 1 \in 0 .. L /\ n + 1 \in 0 .. L + 1 /\ n + 1 \in 1 .. L /\ n + 1 # 0 /\ (n + 1) - 1 = n
    BY <1>1
  <2>2. f[n] = g[n]
    BY <1>1, <1>7
  <2>3. f[n + 1] = FoundAt(ser, t, f, n + 1) /\ g[n + 1] = FoundAt(ser, path, g, n + 1) /\ t[n + 1] = path[n + 1]
    BY <1>1, <1>4, <1>5, <2>1
  <2> QED
    BY <2>1, <2>2, <2>3 DEF FoundAt
<1>8. \A n \in Nat : n \in G
  <2> HIDE DEF G
  <2> QED
    BY <1>6, <1>7, NaturalInduction
<1>9. f[L] = g[L]
  BY <1>1, <1>8
<1>10. L + 1 \in 0 .. L + 1 /\ L + 1 # 0 /\ (L + 1) - 1 = L
  BY <1>1
<1>11. f[L + 1] = FoundAt(ser, t, f, L + 1)
  BY <1>4, <1>10
<1>12. f[L + 1] = Child(f[L], t[L + 1])
  BY <1>10, <1>11 DEF FoundAt
<1> QED
  BY <1>1, <1>2, <1>3, <1>9, <1>12 DEF t

\* The fields after n of an update's.
ParsedAt(fields, ser, updates, f, n) ==
  IF n = 0 THEN fields ELSE SetField(f[n - 1], ser, updates[n])

\* What is kept after an update of a field needs only what was kept before.
LEMMA ParsedAtBefore ==
  ASSUME NEW fields, NEW ser, NEW updates, NEW f, NEW g, NEW n \in Nat, n # 0 => f[n - 1] = g[n - 1]
  PROVE  ParsedAt(fields, ser, updates, f, n) = ParsedAt(fields, ser, updates, g, n)
BY DEF ParsedAt

\* There is a function as the definition of ParseEntity describes it.
LEMMA ParsedAtExists ==
  ASSUME NEW fields, NEW ser, NEW updates, NEW N \in Nat
  PROVE  \E f : f = [n \in 0 .. N |-> ParsedAt(fields, ser, updates, f, n)]
<1> DEFINE Row(f, n) == ParsedAt(fields, ser, updates, f, n)
           G == {m \in Nat : \E f : f = [n \in 0 .. m |-> Row(f, n)]}
<1>1. 0 \in G
  <2> DEFINE f == [n \in 0 .. 0 |-> ParsedAt(fields, ser, updates, <<>>, 0)]
  <2>1. f = [n \in 0 .. 0 |-> Row(f, n)]
    BY ParsedAtBefore
  <2> QED
    BY <2>1
<1>2. ASSUME NEW m \in Nat, m \in G PROVE m + 1 \in G
  <2>1. PICK g : g = [n \in 0 .. m |-> Row(g, n)]
    BY <1>2
  <2> DEFINE f == [n \in 0 .. m + 1 |-> IF n = m + 1 THEN Row(g, n) ELSE g[n]]
  <2>2. \A n \in 0 .. m : f[n] = g[n]
    <3> HIDE DEF Row
    <3> QED
      OBVIOUS
  <2>3. ASSUME NEW n \in 0 .. m + 1 PROVE Row(f, n) = Row(g, n)
    <3>1. n \in Nat /\ (n # 0 => n - 1 \in 0 .. m)
      OBVIOUS
    <3> HIDE DEF f
    <3> QED
      BY <2>2, <3>1, ParsedAtBefore
  <2> HIDE DEF Row
  <2>4. \A n \in 0 .. m : g[n] = Row(g, n)
    BY <2>1
  <2>5. f = [n \in 0 .. m + 1 |-> f[n]] /\ f[m + 1] = Row(g, m + 1)
    OBVIOUS
  <2> HIDE DEF f
  <2>6. \A n \in 0 .. m + 1 : f[n] = Row(f, n)
    <3> SUFFICES ASSUME NEW n \in 0 .. m + 1 PROVE f[n] = Row(f, n)
      OBVIOUS
    <3>1. n \in 0 .. m \/ n = m + 1
      OBVIOUS
    <3> QED
      BY <2>2, <2>3, <2>4, <2>5, <3>1
  <2>7. f = [n \in 0 .. m + 1 |-> Row(f, n)]
    BY <2>5, <2>6
  <2> QED
    BY <2>7
<1>3. \A m \in Nat : m \in G
  <2> HIDE DEF G
  <2> QED
    BY <1>1, <1>2, NaturalInduction
<1> QED
  BY <1>3

\* ParseEntity is the last value of such a function.
LEMMA ParseEntityIs ==
  ASSUME NEW fields, NEW ser, NEW updates, Len(updates) \in Nat
  PROVE  \E f : /\ f = [n \in 0 .. Len(updates) |-> ParsedAt(fields, ser, updates, f, n)]
               /\ ParseEntity(fields, ser, updates) = f[Len(updates)]
<1> DEFINE s == CHOOSE f : f = [n \in 0 .. Len(updates) |-> ParsedAt(fields, ser, updates, f, n)]
<1>1. \E f : f = [n \in 0 .. Len(updates) |-> ParsedAt(fields, ser, updates, f, n)]
  BY ParsedAtExists
<1>2. s = [n \in 0 .. Len(updates) |-> ParsedAt(fields, ser, updates, s, n)]
  BY <1>1
<1>3. ParseEntity(fields, ser, updates) = s[Len(updates)]
  BY DEF ParseEntity, ParsedAt
<1> HIDE DEF s
<1> QED
  BY <1>2, <1>3

\* No update changes nothing.
LEMMA ParseEntityEmpty ==
  ASSUME NEW fields, NEW ser
  PROVE  ParseEntity(fields, ser, <<>>) = fields
<1>1. Len(<<>>) = 0
  OBVIOUS
<1>2. PICK f : f = [n \in 0 .. 0 |-> ParsedAt(fields, ser, <<>>, f, n)] /\ ParseEntity(fields, ser, <<>>) = f[0]
  BY <1>1, ParseEntityIs
<1>3. f[0] = ParsedAt(fields, ser, <<>>, f, 0)
  BY <1>2
<1> QED
  BY <1>2, <1>3 DEF ParsedAt

\* One more update sets one more field.
LEMMA ParseEntityAppend ==
  ASSUME NEW fields, NEW ser, NEW S, NEW updates \in Seq(S), NEW e \in S
  PROVE  ParseEntity(fields, ser, Append(updates, e)) = SetField(ParseEntity(fields, ser, updates), ser, e)
<1> DEFINE t == Append(updates, e)
           L == Len(updates)
<1>1. L \in Nat /\ Len(t) = L + 1 /\ t[L + 1] = e /\ \A n \in 1 .. L : t[n] = updates[n]
  BY AppendProperties, LenProperties
<1> HIDE DEF t
<1>2. PICK f : f = [n \in 0 .. L + 1 |-> ParsedAt(fields, ser, t, f, n)] /\ ParseEntity(fields, ser, t) = f[L + 1]
  <2>1. Len(t) \in Nat
    BY <1>1
  <2>2. PICK f : f = [n \in 0 .. Len(t) |-> ParsedAt(fields, ser, t, f, n)] /\ ParseEntity(fields, ser, t) = f[Len(t)]
    BY <2>1, ParseEntityIs
  <2> QED
    BY <1>1, <2>2
<1>3. PICK g : g = [n \in 0 .. L |-> ParsedAt(fields, ser, updates, g, n)] /\ ParseEntity(fields, ser, updates) = g[L]
  <2>1. Len(updates) \in Nat
    BY <1>1
  <2> QED
    BY <2>1, ParseEntityIs
<1> HIDE DEF L
<1>4. \A n \in 0 .. L + 1 : f[n] = ParsedAt(fields, ser, t, f, n)
  BY <1>2
<1>5. \A n \in 0 .. L : g[n] = ParsedAt(fields, ser, updates, g, n)
  BY <1>3
<1> DEFINE G == {n \in Nat : n <= L => f[n] = g[n]}
<1>6. 0 \in G
  <2>1. 0 \in 0 .. L /\ 0 \in 0 .. L + 1
    BY <1>1
  <2>2. f[0] = ParsedAt(fields, ser, t, f, 0) /\ g[0] = ParsedAt(fields, ser, updates, g, 0)
    BY <1>4, <1>5, <2>1
  <2>3. f[0] = fields /\ g[0] = fields
    BY <2>2 DEF ParsedAt
  <2> QED
    BY <2>3
<1>7. ASSUME NEW n \in Nat, n \in G PROVE n + 1 \in G
  <2> SUFFICES ASSUME n + 1 <= L PROVE f[n + 1] = g[n + 1]
    OBVIOUS
  <2>1. n + 1 \in 0 .. L /\ n + 1 \in 0 .. L + 1 /\ n + 1 \in 1 .. L /\ n + 1 # 0 /\ (n + 1) - 1 = n
    BY <1>1
  <2>2. f[n] = g[n]
    BY <1>1, <1>7
  <2>3. f[n + 1] = ParsedAt(fields, ser, t, f, n + 1) /\ g[n + 1] = ParsedAt(fields, ser, updates, g, n + 1) /\ t[n + 1] = updates[n + 1]
    BY <1>1, <1>4, <1>5, <2>1
  <2> QED
    BY <2>1, <2>2, <2>3 DEF ParsedAt
<1>8. \A n \in Nat : n \in G
  <2> HIDE DEF G
  <2> QED
    BY <1>6, <1>7, NaturalInduction
<1>9. f[L] = g[L]
  BY <1>1, <1>8
<1>10. L + 1 \in 0 .. L + 1 /\ L + 1 # 0 /\ (L + 1) - 1 = L
  BY <1>1
<1>11. f[L + 1] = ParsedAt(fields, ser, t, f, L + 1)
  BY <1>4, <1>10
<1>12. f[L + 1] = SetField(f[L], ser, t[L + 1])
  BY <1>10, <1>11 DEF ParsedAt
<1> QED
  BY <1>1, <1>2, <1>3, <1>9, <1>12 DEF t

\* What the server has after n of an update's.
SentAt(state, updates, f, n) ==
  IF n = 0 THEN state ELSE Put(f[n - 1], updates[n].path, updates[n].datum)

\* What was sent with an update needs only what was sent before.
LEMMA SentAtBefore ==
  ASSUME NEW state, NEW updates, NEW f, NEW g, NEW n \in Nat, n # 0 => f[n - 1] = g[n - 1]
  PROVE  SentAt(state, updates, f, n) = SentAt(state, updates, g, n)
BY DEF SentAt

\* There is a function as the definition of AfterSending describes it.
LEMMA SentAtExists ==
  ASSUME NEW state, NEW updates, NEW N \in Nat
  PROVE  \E f : f = [n \in 0 .. N |-> SentAt(state, updates, f, n)]
<1> DEFINE Row(f, n) == SentAt(state, updates, f, n)
           G == {m \in Nat : \E f : f = [n \in 0 .. m |-> Row(f, n)]}
<1>1. 0 \in G
  <2> DEFINE f == [n \in 0 .. 0 |-> SentAt(state, updates, <<>>, 0)]
  <2>1. f = [n \in 0 .. 0 |-> Row(f, n)]
    BY SentAtBefore
  <2> QED
    BY <2>1
<1>2. ASSUME NEW m \in Nat, m \in G PROVE m + 1 \in G
  <2>1. PICK g : g = [n \in 0 .. m |-> Row(g, n)]
    BY <1>2
  <2> DEFINE f == [n \in 0 .. m + 1 |-> IF n = m + 1 THEN Row(g, n) ELSE g[n]]
  <2>2. \A n \in 0 .. m : f[n] = g[n]
    <3> HIDE DEF Row
    <3> QED
      OBVIOUS
  <2>3. ASSUME NEW n \in 0 .. m + 1 PROVE Row(f, n) = Row(g, n)
    <3>1. n \in Nat /\ (n # 0 => n - 1 \in 0 .. m)
      OBVIOUS
    <3> HIDE DEF f
    <3> QED
      BY <2>2, <3>1, SentAtBefore
  <2> HIDE DEF Row
  <2>4. \A n \in 0 .. m : g[n] = Row(g, n)
    BY <2>1
  <2>5. f = [n \in 0 .. m + 1 |-> f[n]] /\ f[m + 1] = Row(g, m + 1)
    OBVIOUS
  <2> HIDE DEF f
  <2>6. \A n \in 0 .. m + 1 : f[n] = Row(f, n)
    <3> SUFFICES ASSUME NEW n \in 0 .. m + 1 PROVE f[n] = Row(f, n)
      OBVIOUS
    <3>1. n \in 0 .. m \/ n = m + 1
      OBVIOUS
    <3> QED
      BY <2>2, <2>3, <2>4, <2>5, <3>1
  <2>7. f = [n \in 0 .. m + 1 |-> Row(f, n)]
    BY <2>5, <2>6
  <2> QED
    BY <2>7
<1>3. \A m \in Nat : m \in G
  <2> HIDE DEF G
  <2> QED
    BY <1>1, <1>2, NaturalInduction
<1> QED
  BY <1>3

\* AfterSending is the last value of such a function.
LEMMA AfterSendingIs ==
  ASSUME NEW state, NEW updates, Len(updates) \in Nat
  PROVE  \E f : /\ f = [n \in 0 .. Len(updates) |-> SentAt(state, updates, f, n)]
               /\ AfterSending(state, updates) = f[Len(updates)]
<1> DEFINE s == CHOOSE f : f = [n \in 0 .. Len(updates) |-> SentAt(state, updates, f, n)]
<1>1. \E f : f = [n \in 0 .. Len(updates) |-> SentAt(state, updates, f, n)]
  BY SentAtExists
<1>2. s = [n \in 0 .. Len(updates) |-> SentAt(state, updates, s, n)]
  BY <1>1
<1>3. AfterSending(state, updates) = s[Len(updates)]
  BY DEF AfterSending, SentAt
<1> HIDE DEF s
<1> QED
  BY <1>2, <1>3

\* Nothing is sent with no update.
LEMMA AfterSendingEmpty ==
  ASSUME NEW state
  PROVE  AfterSending(state, <<>>) = state
<1>1. Len(<<>>) = 0
  OBVIOUS
<1>2. PICK f : f = [n \in 0 .. 0 |-> SentAt(state, <<>>, f, n)] /\ AfterSending(state, <<>>) = f[0]
  BY <1>1, AfterSendingIs
<1>3. f[0] = SentAt(state, <<>>, f, 0)
  BY <1>2
<1> QED
  BY <1>2, <1>3 DEF SentAt

\* One more update sends one more datum.
LEMMA AfterSendingAppend ==
  ASSUME NEW state, NEW S, NEW updates \in Seq(S), NEW e \in S
  PROVE  AfterSending(state, Append(updates, e)) = Put(AfterSending(state, updates), e.path, e.datum)
<1> DEFINE t == Append(updates, e)
           L == Len(updates)
<1>1. L \in Nat /\ Len(t) = L + 1 /\ t[L + 1] = e /\ \A n \in 1 .. L : t[n] = updates[n]
  BY AppendProperties, LenProperties
<1> HIDE DEF t
<1>2. PICK f : f = [n \in 0 .. L + 1 |-> SentAt(state, t, f, n)] /\ AfterSending(state, t) = f[L + 1]
  <2>1. Len(t) \in Nat
    BY <1>1
  <2>2. PICK f : f = [n \in 0 .. Len(t) |-> SentAt(state, t, f, n)] /\ AfterSending(state, t) = f[Len(t)]
    BY <2>1, AfterSendingIs
  <2> QED
    BY <1>1, <2>2
<1>3. PICK g : g = [n \in 0 .. L |-> SentAt(state, updates, g, n)] /\ AfterSending(state, updates) = g[L]
  <2>1. Len(updates) \in Nat
    BY <1>1
  <2> QED
    BY <2>1, AfterSendingIs
<1> HIDE DEF L
<1>4. \A n \in 0 .. L + 1 : f[n] = SentAt(state, t, f, n)
  BY <1>2
<1>5. \A n \in 0 .. L : g[n] = SentAt(state, updates, g, n)
  BY <1>3
<1> DEFINE G == {n \in Nat : n <= L => f[n] = g[n]}
<1>6. 0 \in G
  <2>1. 0 \in 0 .. L /\ 0 \in 0 .. L + 1
    BY <1>1
  <2>2. f[0] = SentAt(state, t, f, 0) /\ g[0] = SentAt(state, updates, g, 0)
    BY <1>4, <1>5, <2>1
  <2>3. f[0] = state /\ g[0] = state
    BY <2>2 DEF SentAt
  <2> QED
    BY <2>3
<1>7. ASSUME NEW n \in Nat, n \in G PROVE n + 1 \in G
  <2> SUFFICES ASSUME n + 1 <= L PROVE f[n + 1] = g[n + 1]
    OBVIOUS
  <2>1. n + 1 \in 0 .. L /\ n + 1 \in 0 .. L + 1 /\ n + 1 \in 1 .. L /\ n + 1 # 0 /\ (n + 1) - 1 = n
    BY <1>1
  <2>2. f[n] = g[n]
    BY <1>1, <1>7
  <2>3. f[n + 1] = SentAt(state, t, f, n + 1) /\ g[n + 1] = SentAt(state, updates, g, n + 1) /\ t[n + 1] = updates[n + 1]
    BY <1>1, <1>4, <1>5, <2>1
  <2> QED
    BY <2>1, <2>2, <2>3 DEF SentAt
<1>8. \A n \in Nat : n \in G
  <2> HIDE DEF G
  <2> QED
    BY <1>6, <1>7, NaturalInduction
<1>9. f[L] = g[L]
  BY <1>1, <1>8
<1>10. L + 1 \in 0 .. L + 1 /\ L + 1 # 0 /\ (L + 1) - 1 = L
  BY <1>1
<1>11. f[L + 1] = SentAt(state, t, f, L + 1)
  BY <1>4, <1>10
<1>12. f[L + 1] = Put(f[L], t[L + 1].path, t[L + 1].datum)
  BY <1>10, <1>11 DEF SentAt
<1> QED
  BY <1>1, <1>2, <1>3, <1>9, <1>12 DEF t

-----------------------------------------------------------------------------
(* What the server has: a tree of nodes, each the only one of its path.      *)

\* A set of numbers up to a bound has a greatest.
LEMMA GreatestNatural ==
  ASSUME NEW N \in Nat, NEW T \in SUBSET (0 .. N), T # {}
  PROVE  \E s \in T : \A t \in T : t <= s
<1> DEFINE U == {N - t : t \in T}
<1>1. U \in SUBSET Nat /\ U # {}
  <2>1. \A t \in T : N - t \in Nat
    OBVIOUS
  <2>2. PICK t \in T : TRUE
    OBVIOUS
  <2>3. N - t \in U
    OBVIOUS
  <2>4. \A u \in U : u \in Nat
    BY <2>1
  <2> QED
    BY <2>3, <2>4
<1> HIDE DEF U
<1>2. PICK n \in U : \A m \in U : n <= m
  BY <1>1, LeastNatural
<1>3. PICK s \in T : n = N - s
  BY <1>2 DEF U
<1>4. \A t \in T : N - s <= N - t
  BY <1>2, <1>3 DEF U
<1> QED
  BY <1>3, <1>4

\* The last definition of a name is one, if there is any, and none is later.
LEMMA LastDefinitionIs ==
  ASSUME Announcement(msg), NEW ser, Definitions(ser) # {}
  PROVE  /\ LastDefinition(ser) \in Definitions(ser)
         /\ \A t \in Definitions(ser) : t <= LastDefinition(ser)
<1>1. Len(msg.serializers) \in Nat /\ DOMAIN msg.serializers = 1 .. Len(msg.serializers)
  BY LenProperties DEF Announcement
<1>2. Definitions(ser) \in SUBSET (0 .. Len(msg.serializers))
  BY <1>1 DEF Definitions
<1>3. \E s \in Definitions(ser) : \A t \in Definitions(ser) : t <= s
  BY <1>1, <1>2, GreatestNatural
<1> QED
  BY <1>3 DEF LastDefinition

\* The fields of an entity.
TopNodes == FieldsOf(LastDefinition(Class), <<>>, <<>>, <<>>)

\* The nodes that are n deep.
LevelAt(f, n) == IF n = 0 THEN TopNodes ELSE Below(f[n - 1])

\* A level needs only the one above it.
LEMMA LevelAtBefore ==
  ASSUME NEW f, NEW g, NEW n \in Nat, n # 0 => f[n - 1] = g[n - 1]
  PROVE  LevelAt(f, n) = LevelAt(g, n)
BY DEF LevelAt

\* There is a function as the definition of ServerNodes describes it.
LEMMA LevelAtExists ==
  ASSUME NEW N \in Nat
  PROVE  \E f : f = [n \in 0 .. N |-> LevelAt(f, n)]
<1> DEFINE Row(f, n) == LevelAt(f, n)
           G == {m \in Nat : \E f : f = [n \in 0 .. m |-> Row(f, n)]}
<1>1. 0 \in G
  <2> DEFINE f == [n \in 0 .. 0 |-> LevelAt(<<>>, 0)]
  <2>1. f = [n \in 0 .. 0 |-> Row(f, n)]
    BY LevelAtBefore
  <2> QED
    BY <2>1
<1>2. ASSUME NEW m \in Nat, m \in G PROVE m + 1 \in G
  <2>1. PICK g : g = [n \in 0 .. m |-> Row(g, n)]
    BY <1>2
  <2> DEFINE f == [n \in 0 .. m + 1 |-> IF n = m + 1 THEN Row(g, n) ELSE g[n]]
  <2>2. \A n \in 0 .. m : f[n] = g[n]
    <3> HIDE DEF Row
    <3> QED
      OBVIOUS
  <2>3. ASSUME NEW n \in 0 .. m + 1 PROVE Row(f, n) = Row(g, n)
    <3>1. n \in Nat /\ (n # 0 => n - 1 \in 0 .. m)
      OBVIOUS
    <3> HIDE DEF f
    <3> QED
      BY <2>2, <3>1, LevelAtBefore
  <2> HIDE DEF Row
  <2>4. \A n \in 0 .. m : g[n] = Row(g, n)
    BY <2>1
  <2>5. f = [n \in 0 .. m + 1 |-> f[n]] /\ f[m + 1] = Row(g, m + 1)
    OBVIOUS
  <2> HIDE DEF f
  <2>6. \A n \in 0 .. m + 1 : f[n] = Row(f, n)
    <3> SUFFICES ASSUME NEW n \in 0 .. m + 1 PROVE f[n] = Row(f, n)
      OBVIOUS
    <3>1. n \in 0 .. m \/ n = m + 1
      OBVIOUS
    <3> QED
      BY <2>2, <2>3, <2>4, <2>5, <3>1
  <2>7. f = [n \in 0 .. m + 1 |-> Row(f, n)]
    BY <2>5, <2>6
  <2> QED
    BY <2>7
<1>3. \A m \in Nat : m \in G
  <2> HIDE DEF G
  <2> QED
    BY <1>1, <1>2, NaturalInduction
<1> QED
  BY <1>3

\* The levels of the tree are what the definition of ServerNodes describes.
LEMMA Levels ==
  ASSUME MaxDepth \in Nat
  PROVE  \E level :
           /\ level[0] = TopNodes
           /\ \A n \in 1 .. MaxDepth : level[n] = Below(level[n - 1])
           /\ ServerNodes = UNION {level[n] : n \in 0 .. MaxDepth}
<1> DEFINE s == CHOOSE f : f = [n \in 0 .. MaxDepth |-> LevelAt(f, n)]
<1>1. \E f : f = [n \in 0 .. MaxDepth |-> LevelAt(f, n)]
  BY LevelAtExists
<1>2. s = [n \in 0 .. MaxDepth |-> LevelAt(s, n)]
  BY <1>1
<1>3. ServerNodes = UNION {s[n] : n \in 0 .. MaxDepth}
  BY DEF ServerNodes, LevelAt, TopNodes
<1> HIDE DEF s
<1>4. \A n \in 0 .. MaxDepth : s[n] = LevelAt(s, n)
  BY <1>2
<1>5. \A n \in 1 .. MaxDepth : n \in 0 .. MaxDepth /\ n # 0
  OBVIOUS
<1>6. s[0] = TopNodes /\ \A n \in 1 .. MaxDepth : s[n] = Below(s[n - 1])
  BY <1>4, <1>5 DEF LevelAt
<1> QED
  BY <1>3, <1>6

\* What holds of the top, and of the children of what it holds of, holds of all.
LEMMA TreeInduction ==
  ASSUME MaxDepth \in Nat, NEW G, \A n \in TopNodes : n \in ServerNodes => n \in G,
         \A p \in ServerNodes : \A c \in ServerNodes : p \in G /\ c \in ChildrenOf(p) => c \in G
  PROVE  \A n \in ServerNodes : n \in G
<1>1. PICK level : /\ level[0] = TopNodes
                   /\ \A n \in 1 .. MaxDepth : level[n] = Below(level[n - 1])
                   /\ ServerNodes = UNION {level[n] : n \in 0 .. MaxDepth}
  BY Levels
<1> DEFINE H == {n \in Nat : n <= MaxDepth => \A c \in level[n] : c \in G}
<1>2. \A n \in 0 .. MaxDepth : \A c \in level[n] : c \in ServerNodes
  BY <1>1
<1>3. 0 \in H
  BY <1>1, <1>2
<1>4. ASSUME NEW n \in Nat, n \in H PROVE n + 1 \in H
  <2> SUFFICES ASSUME n + 1 <= MaxDepth, NEW c \in level[n + 1] PROVE c \in G
    OBVIOUS
  <2>1. n + 1 \in 1 .. MaxDepth /\ n \in 0 .. MaxDepth /\ n + 1 \in 0 .. MaxDepth /\ (n + 1) - 1 = n
    OBVIOUS
  <2>2. c \in Below(level[n])
    BY <1>1, <2>1
  <2>3. PICK p \in level[n] : c \in ChildrenOf(p)
    BY <2>2 DEF Below
  <2> QED
    BY <1>2, <1>4, <2>1, <2>3
<1>5. \A n \in Nat : n \in H
  <2> HIDE DEF H
  <2> QED
    BY <1>3, <1>4, NaturalInduction
<1> QED
  BY <1>1, <1>5

\* Every node is at the top, or the child of one.
LEMMA NodeHasParent ==
  ASSUME MaxDepth \in Nat, NEW node \in ServerNodes
  PROVE  node \in TopNodes \/ \E p \in ServerNodes : node \in ChildrenOf(p)
<1> DEFINE G == {n \in ServerNodes : n \in TopNodes \/ \E p \in ServerNodes : n \in ChildrenOf(p)}
<1>1. \A n \in TopNodes : n \in ServerNodes => n \in G
  OBVIOUS
<1>2. \A p \in ServerNodes : \A c \in ServerNodes : p \in G /\ c \in ChildrenOf(p) => c \in G
  OBVIOUS
<1> HIDE DEF G
<1>3. node \in G
  BY <1>1, <1>2, TreeInduction
<1> QED
  BY <1>3 DEF G

\* The fields of an entity are nodes.
LEMMA TopIsThere == ASSUME MaxDepth \in Nat PROVE TopNodes \subseteq ServerNodes
BY Levels

\* The fields that serializers have.
Protos == UNION {Uses(s) : s \in DOMAIN msg.serializers}
\* The announced field at a position of a serializer.
ProtoOf(s, i) == msg.fields[msg.serializers[s].fields[i]]

\* The types of what is announced.
LEMMA MessageTyped ==
  ASSUME Announcement(msg)
  PROVE  /\ Len(msg.serializers) \in Nat /\ DOMAIN msg.serializers = 1 .. Len(msg.serializers)
         /\ \A s \in DOMAIN msg.serializers :
              /\ msg.serializers[s].name # NoSymbol
              /\ Len(msg.serializers[s].fields) \in Nat
              /\ DOMAIN msg.serializers[s].fields = 1 .. Len(msg.serializers[s].fields)
              /\ \A i \in DOMAIN msg.serializers[s].fields :
                   msg.serializers[s].fields[i] \in DOMAIN msg.fields /\ ProtoOf(s, i) \in Protos
         /\ \A proto \in Protos : \E f \in DOMAIN msg.fields : proto = msg.fields[f]
<1>1. msg.serializers \in Seq([name : STRING, fields : Seq(DOMAIN msg.fields)])
  BY DEF Announcement
<1>2. Len(msg.serializers) \in Nat /\ DOMAIN msg.serializers = 1 .. Len(msg.serializers)
  BY <1>1, LenProperties
<1>3. \A s \in DOMAIN msg.serializers : msg.serializers[s].fields \in Seq(DOMAIN msg.fields)
  <2>1. \A s \in DOMAIN msg.serializers :
          msg.serializers[s] \in [name : STRING, fields : Seq(DOMAIN msg.fields)]
    BY <1>1, <1>2, ElementOfSeq
  <2> QED
    BY <2>1
<1>4. \A s \in DOMAIN msg.serializers :
        /\ Len(msg.serializers[s].fields) \in Nat
        /\ DOMAIN msg.serializers[s].fields = 1 .. Len(msg.serializers[s].fields)
  BY <1>3, LenProperties
<1>5. \A s \in DOMAIN msg.serializers : \A i \in DOMAIN msg.serializers[s].fields :
        msg.serializers[s].fields[i] \in DOMAIN msg.fields
  BY <1>3, <1>4, ElementOfSeq
<1>6. \A s \in DOMAIN msg.serializers : \A i \in DOMAIN msg.serializers[s].fields : ProtoOf(s, i) \in Protos
  BY DEF Protos, Uses, ProtoOf
<1>7. \A proto \in Protos : \E f \in DOMAIN msg.fields : proto = msg.fields[f]
  BY <1>5 DEF Protos, Uses
<1>8. \A s \in DOMAIN msg.serializers : msg.serializers[s].name # NoSymbol
  BY DEF Announcement
<1> QED
  BY <1>2, <1>4, <1>5, <1>6, <1>7, <1>8

\* The types of announced fields are types.
LEMMA WellFormedKinds ==
  ASSUME NEW type, MaxNesting \in Nat \ {0}, WellFormed(type)
  PROVE  /\ type.kind \in Kinds
         /\ type.kind \in {"Template", "Array"} => Inner(type).kind \in Kinds
<1>1. PICK n \in 0 .. MaxNesting :
        /\ Nested(type)[n].kind \in {"Ident", "Pointer"}
        /\ \A k \in 0 .. n - 1 : Nested(type)[k].kind \in {"Template", "Array"}
  BY DEF WellFormed
<1>2. Nested(type)[0] = type /\ Nested(type)[1] = Inner(type)
  BY NestedIs
<1>3. CASE n = 0
  BY <1>1, <1>2, <1>3 DEF Kinds
<1>4. CASE n = 1
  <2>1. 0 \in 0 .. n - 1
    BY <1>4
  <2> QED
    BY <1>1, <1>2, <1>4, <2>1 DEF Kinds
<1>5. CASE n > 1
  <2>1. 0 \in 0 .. n - 1 /\ 1 \in 0 .. n - 1
    BY <1>5
  <2> QED
    BY <1>1, <1>2, <2>1 DEF Kinds
<1> QED
  BY <1>3, <1>4, <1>5

\* Every field that a serializer uses is plain.
LEMMA PlainProtos ==
  ASSUME Announcement(msg), Plain, NEW proto \in Protos
  PROVE  PlainField(proto)
<1>1. MaxNesting \in Nat \ {0}
  BY FieldsAssumption
<1>2. PICK f \in DOMAIN msg.fields : proto = msg.fields[f]
  BY MessageTyped
<1>3. WellFormed(proto.type)
  BY <1>2 DEF Announcement
<1>4. proto.type.kind = "Array" /\ proto.type.len.kind = "Num" => proto.type.len.num \in Nat \ {0}
  BY <1>2 DEF Announcement
<1>5. proto.type.kind \in Kinds /\ (proto.type.kind \in {"Template", "Array"} => Inner(proto.type).kind \in Kinds)
  BY <1>1, <1>3, WellFormedKinds
<1>6. HoldsElements(proto.type) => ElementType(proto.type).kind \in Kinds
  <2>1. proto.type.kind = "Ident" => ElementType(proto.type).kind = "Ident"
    BY DEF ElementType, Ident
  <2>2. HoldsElements(proto.type) => proto.type.kind \in {"Ident", "Template", "Array"}
    BY DEF HoldsElements, IsFixedArray, IsVector
  <2>3. proto.type.kind \in {"Template", "Array"} => ElementType(proto.type) = Inner(proto.type)
    BY DEF ElementType
  <2> QED
    BY <1>5, <2>1, <2>2, <2>3 DEF Kinds
<1>7. PICK s \in DOMAIN msg.serializers : proto \in Uses(s)
  BY DEF Protos
<1>8. VisitAny(proto.type, proto) = SpecialMetadata => proto.ser # NoSymbol
  BY <1>7 DEF Plain, SpecialMetadata
<1>9. HoldsElements(proto.type) =>
        Simple(ElementType(proto.type)) /\ ~IsPointer(ElementType(proto.type), proto)
  <2>1. HoldsElements(proto.type) =>
          /\ ~IsFixedArray(ElementType(proto.type))
          /\ ~IsVector(ElementType(proto.type)) /\ ~IsPointer(ElementType(proto.type), proto)
    BY <1>7 DEF Plain, HoldsElements
  <2> QED
    BY <2>1 DEF Simple
<1> QED
  BY <1>4, <1>5, <1>6, <1>8, <1>9 DEF PlainField

\* What names and keys are made of.
NameParts == {Name(proto.name) : proto \in Protos} \union {Number(i) : i \in Nat}
KeyParts  == {HashBytes(proto.name) : proto \in Protos} \union {IndexHash(i) : i \in Nat}

\* A node is a field of a serializer, or an element of one.
OfName(node) == node.names[Len(node.names)].number = -1
\* A node is typed: a field has the type that was announced, an element that
\* of the elements of its array.
NodeTyped(node) ==
  /\ node.path \in Seq(Nat) /\ node.path # <<>>
  /\ node.names \in Seq(NameParts)
  /\ node.key \in Seq(KeyParts) /\ Len(node.key) = Len(node.path)
  /\ node.proto \in Protos
  /\ OfName(node) => node.type = node.proto.type
  /\ ~OfName(node) => HoldsElements(node.proto.type) /\ node.type = ElementType(node.proto.type)

\* The nodes of a field and of an element.
FieldNode(s, i, path, names, key) ==
  Node(Append(path, i - 1), Append(names, Name(ProtoOf(s, i).name)),
       Append(key, HashBytes(ProtoOf(s, i).name)), ProtoOf(s, i).type, ProtoOf(s, i))
ElementNode(node, i) ==
  Node(Append(node.path, i), Append(node.names, Number(i)),
       Append(node.key, IF IsFixedArray(node.type) THEN HashBytes(node.proto.name) ELSE IndexHash(i)),
       ElementType(node.type), node.proto)

\* The nodes of fields are those.
LEMMA FieldsAre ==
  ASSUME NEW s, NEW p, NEW names, NEW key
  PROVE  FieldsOf(s, p, names, key) = {FieldNode(s, i, p, names, key) : i \in DOMAIN msg.serializers[s].fields}
BY DEF FieldsOf, FieldNode, ProtoOf

\* The children of a node are elements or fields.
FieldChild(p, c) ==
  /\ ~HoldsElements(p.type)
  /\ Definitions(p.proto.ser) # {}
  /\ \E i \in DOMAIN msg.serializers[LastDefinition(p.proto.ser)].fields :
       c = FieldNode(LastDefinition(p.proto.ser), i, p.path, p.names, p.key)
\* A child that is an element.
ElementChild(p, c) ==
  /\ HoldsElements(p.type)
  /\ \E i \in Nat : c = ElementNode(p, i) /\ (IsFixedArray(p.type) => i < ArrayLength(p.type.len))

\* Every child is one of a field or of an element.
LEMMA ChildIs ==
  ASSUME Announcement(msg), NEW p, NEW c \in ChildrenOf(p),
         IsFixedArray(p.type) => ArrayLength(p.type.len) \in Nat
  PROVE  FieldChild(p, c) \/ ElementChild(p, c)
<1>1. CASE IsFixedArray(p.type)
  <2>1. c \in ElementsOf(p, ArrayLength(p.type.len))
    BY <1>1 DEF ChildrenOf, IsFixedArray
  <2>2. PICK i \in 0 .. ArrayLength(p.type.len) - 1 : c = ElementNode(p, i)
    BY <2>1 DEF ElementsOf, ElementNode
  <2>3. i \in Nat /\ i < ArrayLength(p.type.len)
    BY <1>1
  <2> QED
    BY <1>1, <2>2, <2>3 DEF ElementChild, HoldsElements
<1>2. CASE ~IsFixedArray(p.type) /\ IsVector(p.type)
  <2>1. c \in ElementsOf(p, MaxElements)
    BY <1>2 DEF ChildrenOf, IsFixedArray, IsVector
  <2>2. PICK i \in 0 .. MaxElements - 1 : c = ElementNode(p, i)
    BY <2>1 DEF ElementsOf, ElementNode
  <2>3. i \in Nat
    BY FieldsAssumption
  <2> QED
    BY <1>2, <2>2, <2>3 DEF ElementChild, HoldsElements
<1>3. CASE ~IsFixedArray(p.type) /\ ~IsVector(p.type)
  <2>1. p.proto.ser \in {msg.serializers[s].name : s \in DOMAIN msg.serializers}
        /\ c \in FieldsOf(LastDefinition(p.proto.ser), p.path, p.names, p.key)
    BY <1>3 DEF ChildrenOf
  <2>2. Definitions(p.proto.ser) # {}
    BY <2>1 DEF Definitions
  <2>3. \E i \in DOMAIN msg.serializers[LastDefinition(p.proto.ser)].fields :
          c = FieldNode(LastDefinition(p.proto.ser), i, p.path, p.names, p.key)
    BY <2>1, FieldsAre
  <2>4. ~HoldsElements(p.type)
    BY <1>3 DEF HoldsElements
  <2> QED
    BY <2>2, <2>3, <2>4 DEF FieldChild
<1> QED
  BY <1>1, <1>2, <1>3

\* The class of the entities is announced.
LEMMA ClassIsThere ==
  ASSUME Announcement(msg)
  PROVE  Definitions(Class) # {} /\ Class # NoSymbol
BY DEF Announcement, Definitions

\* The last definition of a name is announced under that name.
LEMMA DefinitionIs ==
  ASSUME Announcement(msg), NEW ser, Definitions(ser) # {}
  PROVE  LastDefinition(ser) \in DOMAIN msg.serializers /\ msg.serializers[LastDefinition(ser)].name = ser
BY LastDefinitionIs DEF Definitions

\* A field that is put below a path.
LEMMA FieldNodeTyped ==
  ASSUME Announcement(msg), NEW s \in DOMAIN msg.serializers, NEW i \in DOMAIN msg.serializers[s].fields,
         NEW p \in Seq(Nat), NEW names \in Seq(NameParts), NEW key \in Seq(KeyParts), Len(key) = Len(p)
  PROVE  LET node == FieldNode(s, i, p, names, key)
         IN  NodeTyped(node) /\ OfName(node)
<1> DEFINE node == FieldNode(s, i, p, names, key)
           proto == ProtoOf(s, i)
<1>1. proto \in Protos /\ i \in Nat /\ i - 1 \in Nat
  BY MessageTyped
<1>2. Name(proto.name) \in NameParts /\ HashBytes(proto.name) \in KeyParts
  BY <1>1 DEF NameParts, KeyParts
<1> HIDE DEF proto
<1>3. Append(p, i - 1) \in Seq(Nat) /\ Append(p, i - 1) # <<>> /\ Len(Append(p, i - 1)) = Len(p) + 1
  BY <1>1, AppendProperties
<1>6. /\ Append(key, HashBytes(proto.name)) \in Seq(KeyParts)
      /\ Len(Append(key, HashBytes(proto.name))) = Len(key) + 1
  BY <1>2, AppendProperties
<1>7. /\ Append(names, Name(proto.name)) \in Seq(NameParts)
      /\ Len(Append(names, Name(proto.name))) = Len(names) + 1
      /\ Append(names, Name(proto.name))[Len(names) + 1] = Name(proto.name)
  BY <1>2, AppendProperties
<1>4. /\ node.path = Append(p, i - 1) /\ node.names = Append(names, Name(proto.name))
      /\ node.key = Append(key, HashBytes(proto.name)) /\ node.type = proto.type /\ node.proto = proto
  BY DEF FieldNode, Node, proto
<1> HIDE DEF node
<1>5. OfName(node)
  BY <1>7, <1>4 DEF OfName, Name
<1>8. NodeTyped(node)
  BY <1>1, <1>3, <1>4, <1>5, <1>6, <1>7 DEF NodeTyped
<1> QED
  BY <1>5, <1>8 DEF node

\* An element of a typed node is typed.
LEMMA ElementNodeTyped ==
  ASSUME NEW p, NodeTyped(p), OfName(p), HoldsElements(p.type), NEW i \in Nat
  PROVE  NodeTyped(ElementNode(p, i)) /\ ~OfName(ElementNode(p, i))
<1> DEFINE node == ElementNode(p, i)
           part == IF IsFixedArray(p.type) THEN HashBytes(p.proto.name) ELSE IndexHash(i)
<1>1. p.path \in Seq(Nat) /\ p.names \in Seq(NameParts) /\ p.key \in Seq(KeyParts)
      /\ Len(p.key) = Len(p.path) /\ p.proto \in Protos /\ p.type = p.proto.type
  BY DEF NodeTyped
<1>2. part \in KeyParts /\ Number(i) \in NameParts
  BY <1>1 DEF NameParts, KeyParts
<1> HIDE DEF part
<1>3. /\ Append(p.path, i) \in Seq(Nat) /\ Append(p.path, i) # <<>>
      /\ Len(Append(p.path, i)) = Len(p.path) + 1
  <2>1. p.path \in Seq(Nat)
    BY <1>1
  <2> QED
    BY <2>1, AppendProperties
<1>6. Append(p.key, part) \in Seq(KeyParts) /\ Len(Append(p.key, part)) = Len(p.key) + 1
  BY <1>1, <1>2, AppendProperties
<1>7. /\ Append(p.names, Number(i)) \in Seq(NameParts)
      /\ Len(Append(p.names, Number(i))) = Len(p.names) + 1
      /\ Append(p.names, Number(i))[Len(p.names) + 1] = Number(i)
  BY <1>1, <1>2, AppendProperties
<1>4. /\ node.path = Append(p.path, i) /\ node.names = Append(p.names, Number(i))
      /\ node.key = Append(p.key, part) /\ node.type = ElementType(p.type) /\ node.proto = p.proto
  BY DEF ElementNode, Node, part
<1> HIDE DEF node
<1>5. ~OfName(node)
  <2>1. node.names[Len(node.names)] = Number(i)
    BY <1>4, <1>7
  <2>2. Number(i).number = i
    BY DEF Number
  <2> QED
    BY <2>1, <2>2 DEF OfName
<1>8. NodeTyped(node)
  BY <1>1, <1>3, <1>4, <1>5, <1>6, <1>7 DEF NodeTyped
<1> QED
  BY <1>5, <1>8 DEF node

\* An element holds no elements, so that what does is a field of a serializer.
LEMMA HolderIsField ==
  ASSUME Announcement(msg), Plain, NEW p, NodeTyped(p), HoldsElements(p.type)
  PROVE  OfName(p)
<1>1. PlainField(p.proto)
  BY PlainProtos DEF NodeTyped
<1>2. ~OfName(p) => Simple(p.type)
  BY <1>1 DEF NodeTyped, PlainField
<1> QED
  BY <1>2 DEF Simple, HoldsElements

\* The lengths of arrays are numbers.
LEMMA LengthsKnown ==
  ASSUME Announcement(msg), Plain, NEW p, NodeTyped(p), IsFixedArray(p.type)
  PROVE  ArrayLength(p.type.len) \in Nat \ {0}
<1>1. OfName(p)
  BY HolderIsField DEF HoldsElements
<1>2. PlainField(p.proto) /\ p.type = p.proto.type
  BY <1>1, PlainProtos DEF NodeTyped
<1> QED
  BY <1>2 DEF PlainField, ArrayLength, IsFixedArray

\* Every node is typed: by the tree.
LEMMA NodesTyped ==
  ASSUME Announcement(msg), Plain
  PROVE  \A node \in ServerNodes : NodeTyped(node)
<1> DEFINE G == {n \in ServerNodes : NodeTyped(n)}
<1>1. MaxDepth \in Nat
  BY FieldsAssumption
<1>2. \A n \in TopNodes : n \in ServerNodes => n \in G
  <2> SUFFICES ASSUME NEW n \in TopNodes PROVE NodeTyped(n)
    OBVIOUS
  <2>1. LastDefinition(Class) \in DOMAIN msg.serializers
    BY ClassIsThere, DefinitionIs
  <2>2. PICK i \in DOMAIN msg.serializers[LastDefinition(Class)].fields :
          n = FieldNode(LastDefinition(Class), i, <<>>, <<>>, <<>>)
    BY FieldsAre DEF TopNodes
  <2>3. <<>> \in Seq(Nat) /\ <<>> \in Seq(NameParts) /\ <<>> \in Seq(KeyParts)
    OBVIOUS
  <2> QED
    BY <2>1, <2>2, <2>3, FieldNodeTyped
<1>3. ASSUME NEW p \in ServerNodes, NEW c \in ServerNodes, p \in G, c \in ChildrenOf(p)
      PROVE  c \in G
  <2>1. NodeTyped(p)
    BY <1>3
  <2>2. FieldChild(p, c) \/ ElementChild(p, c)
    BY <1>3, <2>1, ChildIs, LengthsKnown
  <2>3. CASE FieldChild(p, c)
    <3>1. LastDefinition(p.proto.ser) \in DOMAIN msg.serializers
      BY <2>3, DefinitionIs DEF FieldChild
    <3> QED
      BY <2>1, <2>3, <3>1, FieldNodeTyped DEF FieldChild, NodeTyped
  <2>4. CASE ElementChild(p, c)
    BY <2>1, <2>4, HolderIsField, ElementNodeTyped DEF ElementChild
  <2> QED
    BY <2>2, <2>3, <2>4
<1> HIDE DEF G
<1>4. \A n \in ServerNodes : n \in G
  BY <1>1, <1>2, <1>3, TreeInduction
<1> QED
  BY <1>4 DEF G

-----------------------------------------------------------------------------
(* Each node is the only one of its path.                                   *)

\* In particular for paths.
LEMMA PathInjective ==
  ASSUME NEW p \in Seq(Nat), NEW q \in Seq(Nat), NEW a \in Nat, NEW b \in Nat,
         Append(p, a) = Append(q, b)
  PROVE  p = q /\ a = b
<1> DEFINE S == Nat
<1>1. p \in Seq(S) /\ q \in Seq(S) /\ a \in S /\ b \in S
  OBVIOUS
<1> HIDE DEF S
<1> QED
  BY <1>1, AppendInjective

\* The first components of a longer path.
LEMMA FirstOfAppend ==
  ASSUME NEW S, NEW p \in Seq(S), NEW e \in S, NEW i \in 1 .. Len(p)
  PROVE  SubSeq(Append(p, e), 1, i) = SubSeq(p, 1, i)
<1>1. Len(p) \in Nat
  BY LenProperties
<1>2. Append(p, e) \in Seq(S) /\ Len(Append(p, e)) = Len(p) + 1
      /\ \A k \in 1 .. Len(p) : Append(p, e)[k] = p[k]
  BY AppendProperties
<1> DEFINE t == Append(p, e)
<1> HIDE DEF t
<1>3. t \in Seq(S) /\ Len(t) = Len(p) + 1 /\ \A k \in 1 .. Len(p) : t[k] = p[k]
  BY <1>2 DEF t
<1>4. 1 \in 1 .. Len(p) + 1 /\ i \in 1 - 1 .. Len(p) /\ i \in 1 - 1 .. Len(t)
  BY <1>1, <1>3
<1>5. /\ SubSeq(t, 1, i) \in Seq(S) /\ Len(SubSeq(t, 1, i)) = i
      /\ \A k \in 1 .. i : SubSeq(t, 1, i)[k] = t[k]
  BY <1>1, <1>3
<1>6. /\ SubSeq(p, 1, i) \in Seq(S) /\ Len(SubSeq(p, 1, i)) = i
      /\ \A k \in 1 .. i : SubSeq(p, 1, i)[k] = p[k]
  BY <1>1
<1>7. \A k \in 1 .. i : SubSeq(t, 1, i)[k] = SubSeq(p, 1, i)[k]
  BY <1>1, <1>3, <1>5, <1>6
<1>8. SubSeq(t, 1, i) = SubSeq(p, 1, i)
  BY <1>5, <1>6, <1>7, SeqEqual
<1> QED
  BY <1>8 DEF t

\* Without its last element, it is what it was.
LEMMA AllOfAppend ==
  ASSUME NEW S, NEW p \in Seq(S), NEW e \in S
  PROVE  SubSeq(Append(p, e), 1, Len(p)) = p
<1>1. Len(p) \in Nat
  BY LenProperties
<1>2. /\ Append(p, e) \in Seq(S) /\ Len(Append(p, e)) = Len(p) + 1
      /\ \A k \in 1 .. Len(p) : Append(p, e)[k] = p[k]
  BY AppendProperties
<1> DEFINE t == Append(p, e)
<1> HIDE DEF t
<1>3. t \in Seq(S) /\ Len(t) = Len(p) + 1 /\ \A k \in 1 .. Len(p) : t[k] = p[k]
  BY <1>2 DEF t
<1>5. /\ SubSeq(t, 1, Len(p)) \in Seq(S) /\ Len(SubSeq(t, 1, Len(p))) = Len(p)
      /\ \A k \in 1 .. Len(p) : SubSeq(t, 1, Len(p))[k] = t[k]
  BY <1>1, <1>3
<1>6. SubSeq(t, 1, Len(p)) = p
  BY <1>3, <1>5, SeqEqual
<1> QED
  BY <1>6 DEF t

\* The child of a node that has the component, and the field of the top level.
ChildAt(p, i) ==
  IF HoldsElements(p.type) THEN ElementNode(p, i)
  ELSE FieldNode(LastDefinition(p.proto.ser), i + 1, p.path, p.names, p.key)
\* The field of an entity at a position.
TopAt(i) == FieldNode(LastDefinition(Class), i + 1, <<>>, <<>>, <<>>)

\* Every child is the one at some position, which is where its path ends.
LEMMA ChildAtIs ==
  ASSUME Announcement(msg), Plain, NEW p, NodeTyped(p), NEW c \in ChildrenOf(p)
  PROVE  \E i \in Nat :
           /\ c = ChildAt(p, i) /\ c.path = Append(p.path, i)
           /\ IF HoldsElements(p.type)
              THEN /\ OfName(p) /\ ~OfName(c) /\ c.proto = p.proto
                   /\ IsFixedArray(p.type) => i < ArrayLength(p.type.len)
              ELSE /\ OfName(c) /\ Definitions(p.proto.ser) # {}
                   /\ i + 1 \in DOMAIN msg.serializers[LastDefinition(p.proto.ser)].fields
                   /\ c.proto = ProtoOf(LastDefinition(p.proto.ser), i + 1)
<1>1. FieldChild(p, c) \/ ElementChild(p, c)
  BY ChildIs, LengthsKnown
<1>2. CASE FieldChild(p, c)
  <2> DEFINE L == LastDefinition(p.proto.ser)
  <2>1. PICK n \in DOMAIN msg.serializers[L].fields : c = FieldNode(L, n, p.path, p.names, p.key)
    BY <1>2 DEF FieldChild
  <2>2. L \in DOMAIN msg.serializers
    BY <1>2, DefinitionIs DEF FieldChild
  <2>3. PICK i \in Nat : n = i + 1 /\ n - 1 = i
    <3>1. n - 1 \in Nat /\ n \in Nat
      BY <2>2, MessageTyped
    <3> QED
      BY <3>1
  <2>4. c.path = Append(p.path, i) /\ c.proto = ProtoOf(L, n)
    BY <2>1, <2>3 DEF FieldNode, Node
  <2>5. OfName(c)
    BY <2>1, <2>2, FieldNodeTyped DEF NodeTyped
  <2>6. c = ChildAt(p, i)
    BY <1>2, <2>1, <2>3 DEF ChildAt, FieldChild
  <2>7. ~HoldsElements(p.type) /\ Definitions(p.proto.ser) # {}
    BY <1>2 DEF FieldChild
  <2> HIDE DEF L
  <2>8. i + 1 \in DOMAIN msg.serializers[L].fields /\ c.proto = ProtoOf(L, i + 1)
    BY <2>3, <2>4
  <2> QED
    BY <2>4, <2>5, <2>6, <2>7, <2>8 DEF L
<1>3. CASE ElementChild(p, c)
  <2>1. PICK i \in Nat : c = ElementNode(p, i) /\ (IsFixedArray(p.type) => i < ArrayLength(p.type.len))
    BY <1>3 DEF ElementChild
  <2>2. HoldsElements(p.type) /\ OfName(p)
    BY <1>3, HolderIsField DEF ElementChild
  <2>3. ~OfName(c) /\ c.proto = p.proto /\ c.path = Append(p.path, i)
    BY <2>1, <2>2, ElementNodeTyped DEF ElementNode, Node
  <2>4. c = ChildAt(p, i)
    BY <2>1, <2>2 DEF ChildAt
  <2> QED
    BY <2>1, <2>2, <2>3, <2>4
<1> QED
  BY <1>1, <1>2, <1>3

\* Every field of an entity is the one at some position, which is its path.
LEMMA TopAtIs ==
  ASSUME Announcement(msg), NEW n \in TopNodes
  PROVE  \E i \in Nat :
           /\ n = TopAt(i) /\ n.path = Append(<<>>, i) /\ OfName(n)
           /\ i + 1 \in DOMAIN msg.serializers[LastDefinition(Class)].fields
           /\ n.proto = ProtoOf(LastDefinition(Class), i + 1)
<1> DEFINE L == LastDefinition(Class)
<1>1. L \in DOMAIN msg.serializers
  BY ClassIsThere, DefinitionIs
<1>2. PICK k \in DOMAIN msg.serializers[L].fields : n = FieldNode(L, k, <<>>, <<>>, <<>>)
  BY FieldsAre DEF TopNodes
<1>3. PICK i \in Nat : k = i + 1 /\ k - 1 = i
  <2>1. k - 1 \in Nat /\ k \in Nat
    BY <1>1, MessageTyped
  <2> QED
    BY <2>1
<1>4. <<>> \in Seq(Nat) /\ <<>> \in Seq(NameParts) /\ <<>> \in Seq(KeyParts)
  OBVIOUS
<1>5. OfName(n)
  BY <1>1, <1>2, <1>4, FieldNodeTyped
<1>6. n = TopAt(i) /\ n.path = Append(<<>>, i) /\ n.proto = ProtoOf(L, k)
  BY <1>2, <1>3 DEF TopAt, FieldNode, Node
<1> HIDE DEF L
<1>7. i + 1 \in DOMAIN msg.serializers[L].fields /\ n.proto = ProtoOf(L, i + 1)
  BY <1>3, <1>6
<1> QED
  BY <1>5, <1>6, <1>7 DEF L

\* A node is as deep as its path is long.
LEMMA TopOrChild ==
  ASSUME Announcement(msg), Plain, NEW n \in ServerNodes
  PROVE  /\ n \in TopNodes \/ \E p \in ServerNodes : n \in ChildrenOf(p)
         /\ n \in TopNodes => Len(n.path) = 1
         /\ \A p \in ServerNodes : n \in ChildrenOf(p) => Len(n.path) # 1
<1>1. MaxDepth \in Nat
  BY FieldsAssumption
<1>2. n \in TopNodes => Len(n.path) = 1
  <2> SUFFICES ASSUME n \in TopNodes PROVE Len(n.path) = 1
    OBVIOUS
  <2>1. PICK i \in Nat : n.path = Append(<<>>, i)
    BY TopAtIs
  <2> QED
    BY <2>1
<1>3. ASSUME NEW p \in ServerNodes, n \in ChildrenOf(p) PROVE Len(n.path) # 1
  <2>1. NodeTyped(p)
    BY NodesTyped
  <2>2. PICK i \in Nat : n.path = Append(p.path, i)
    BY <1>3, <2>1, ChildAtIs
  <2>3. p.path \in Seq(Nat) /\ p.path # <<>>
    BY <2>1 DEF NodeTyped
  <2>4. Len(p.path) \in Nat /\ Len(p.path) # 0
    BY <2>3, EmptySeq, LenProperties
  <2>5. Len(n.path) = Len(p.path) + 1
    BY <2>2, <2>3, AppendProperties
  <2> QED
    BY <2>4, <2>5
<1> QED
  BY <1>1, <1>2, <1>3, NodeHasParent

\* There is one node of a path, as a path tells all positions.
LEMMA NodesUnique ==
  ASSUME Announcement(msg), Plain
  PROVE  \A a, b \in ServerNodes : a.path = b.path => a = b
<1> DEFINE G == {a \in ServerNodes : \A b \in ServerNodes : a.path = b.path => a = b}
<1>1. MaxDepth \in Nat
  BY FieldsAssumption
<1>2. \A a \in TopNodes : a \in ServerNodes => a \in G
  <2> SUFFICES ASSUME NEW a \in TopNodes, a \in ServerNodes, NEW b \in ServerNodes, a.path = b.path
               PROVE  a = b
    OBVIOUS
  <2>1. b \in TopNodes
    BY TopOrChild
  <2>2. PICK i \in Nat : a = TopAt(i) /\ a.path = Append(<<>>, i)
    BY TopAtIs
  <2>3. PICK j \in Nat : b = TopAt(j) /\ b.path = Append(<<>>, j)
    BY <2>1, TopAtIs
  <2>4. i = j
    BY <2>2, <2>3
  <2> QED
    BY <2>2, <2>3, <2>4
<1>3. ASSUME NEW p \in ServerNodes, NEW c \in ServerNodes, p \in G, c \in ChildrenOf(p)
      PROVE  c \in G
  <2> SUFFICES ASSUME NEW b \in ServerNodes, c.path = b.path PROVE c = b
    OBVIOUS
  <2>1. PICK q \in ServerNodes : b \in ChildrenOf(q)
    BY <1>3, TopOrChild
  <2>2. NodeTyped(p) /\ NodeTyped(q)
    BY NodesTyped
  <2>3. PICK i \in Nat : c = ChildAt(p, i) /\ c.path = Append(p.path, i)
    BY <1>3, <2>2, ChildAtIs
  <2>4. PICK j \in Nat : b = ChildAt(q, j) /\ b.path = Append(q.path, j)
    BY <2>1, <2>2, ChildAtIs
  <2>5. p.path \in Seq(Nat) /\ q.path \in Seq(Nat)
    BY <2>2 DEF NodeTyped
  <2>8. Append(p.path, i) = Append(q.path, j)
    BY <2>3, <2>4
  <2>6. p.path = q.path /\ i = j
    BY <2>5, <2>8, PathInjective
  <2>7. p = q
    BY <1>3, <2>6
  <2> QED
    BY <2>3, <2>4, <2>6, <2>7
<1> HIDE DEF G
<1>4. \A a \in ServerNodes : a \in G
  BY <1>1, <1>2, <1>3, TreeInduction
<1> QED
  BY <1>4 DEF G

\* It is found by its path.
LEMMA NodeAtIs ==
  ASSUME Announcement(msg), Plain, NEW n \in ServerNodes
  PROVE  NodeAt(n.path) = n
<1>1. \A a \in ServerNodes : a.path = n.path => a = n
  BY NodesUnique
<1> QED
  BY <1>1 DEF NodeAt

-----------------------------------------------------------------------------
(* Which nodes have the same key.                                           *)

\* Different indexes have different hashes.
LEMMA IndexHashDiffers ==
  ASSUME NEW i \in Nat, NEW j \in Nat, IndexHash(i) = IndexHash(j)
  PROVE  i = j
BY DEF IndexHash, AddToHash

\* What is in a fixed array is in it further below, too.
LEMMA InArrayBelow ==
  ASSUME Announcement(msg), Plain, NEW p \in ServerNodes, NEW i \in Nat,
         InFixedArray(p.path) \/ IsFixedArray(p.type)
  PROVE  InFixedArray(Append(p.path, i))
<1>1. p.path \in Seq(Nat) /\ p.path # <<>>
  BY NodesTyped DEF NodeTyped
<1>2. Len(p.path) \in Nat /\ Len(p.path) # 0
  BY <1>1, EmptySeq, LenProperties
<1>3. Len(Append(p.path, i)) - 1 = Len(p.path)
  BY <1>1, <1>2, AppendProperties
<1>4. CASE IsFixedArray(p.type)
  <2>1. SubSeq(Append(p.path, i), 1, Len(p.path)) = p.path
    BY <1>1, AllOfAppend
  <2>2. NodeAt(SubSeq(Append(p.path, i), 1, Len(p.path))) = p
    BY <2>1, NodeAtIs
  <2> QED
    BY <1>2, <1>3, <1>4, <2>2 DEF InFixedArray
<1>5. CASE InFixedArray(p.path)
  <2>1. PICK k \in 1 .. Len(p.path) - 1 : IsFixedArray(NodeAt(SubSeq(p.path, 1, k)).type)
    BY <1>5 DEF InFixedArray
  <2>2. k \in 1 .. Len(p.path)
    BY <1>2
  <2>3. SubSeq(Append(p.path, i), 1, k) = SubSeq(p.path, 1, k)
    BY <1>1, <2>2, FirstOfAppend
  <2> QED
    BY <1>3, <2>1, <2>2, <2>3 DEF InFixedArray
<1> QED
  BY <1>4, <1>5

\* The names of a serializer's fields have different hashes.
LEMMA NamesDiffer ==
  ASSUME Announcement(msg), Distinct, NEW s \in DOMAIN msg.serializers,
         NEW i \in DOMAIN msg.serializers[s].fields, NEW j \in DOMAIN msg.serializers[s].fields,
         HashBytes(ProtoOf(s, i).name) = HashBytes(ProtoOf(s, j).name)
  PROVE  i = j
<1>1. /\ msg.serializers[s].fields[i] \in DOMAIN msg.fields
      /\ msg.serializers[s].fields[j] \in DOMAIN msg.fields
  BY MessageTyped
<1>2. ProtoOf(s, i).name = ProtoOf(s, j).name
  BY <1>1 DEF Announcement, HashBytes, ProtoOf
<1> QED
  BY <1>2 DEF Distinct, ProtoOf

\* How a child's key goes on.
KeyPart(p, i) ==
  IF IsFixedArray(p.type) THEN HashBytes(p.proto.name)
  ELSE IF IsVector(p.type) THEN IndexHash(i)
  ELSE HashBytes(ProtoOf(LastDefinition(p.proto.ser), i + 1).name)

\* The key of a child is that of its parent and the part of its position.
LEMMA ChildKey ==
  ASSUME NEW p, NEW i \in Nat
  PROVE  ChildAt(p, i).key = Append(p.key, KeyPart(p, i))
<1>1. CASE HoldsElements(p.type)
  BY <1>1 DEF ChildAt, ElementNode, Node, KeyPart, HoldsElements, IsFixedArray, IsVector
<1>2. CASE ~HoldsElements(p.type)
  BY <1>2 DEF ChildAt, FieldNode, Node, KeyPart, HoldsElements, IsFixedArray, IsVector
<1> QED
  BY <1>1, <1>2

\* That part is a name or an index.
LEMMA KeyPartTyped ==
  ASSUME Announcement(msg), NEW p, NodeTyped(p), NEW i \in Nat,
         ~HoldsElements(p.type) =>
           /\ Definitions(p.proto.ser) # {}
           /\ i + 1 \in DOMAIN msg.serializers[LastDefinition(p.proto.ser)].fields
  PROVE  KeyPart(p, i) \in KeyParts
<1>1. \A proto \in Protos : HashBytes(proto.name) \in KeyParts
  BY DEF KeyParts
<1>2. IndexHash(i) \in KeyParts
  BY DEF KeyParts
<1>3. p.proto \in Protos
  BY DEF NodeTyped
<1>4. CASE HoldsElements(p.type)
  BY <1>1, <1>2, <1>3, <1>4 DEF HoldsElements, KeyPart, IsFixedArray, IsVector
<1>5. CASE ~HoldsElements(p.type)
  <2>1. LastDefinition(p.proto.ser) \in DOMAIN msg.serializers
    BY <1>5, DefinitionIs
  <2>2. ProtoOf(LastDefinition(p.proto.ser), i + 1) \in Protos
    BY <1>5, <2>1, MessageTyped
  <2> QED
    BY <1>1, <1>5, <2>2 DEF HoldsElements, KeyPart, IsFixedArray, IsVector
<1> QED
  BY <1>4, <1>5

\* Different nodes have different keys, but for elements of fixed arrays and
\* what is inside of them, whose index is no part of the key.
LEMMA KeysDiffer ==
  ASSUME Announcement(msg), Plain, Distinct
  PROVE  \A a, b \in ServerNodes : a.key = b.key /\ a.path # b.path => InFixedArray(a.path)
<1> DEFINE G == {a \in ServerNodes : \A b \in ServerNodes :
                   a.key = b.key /\ a.path # b.path => InFixedArray(a.path)}
<1>1. MaxDepth \in Nat
  BY FieldsAssumption
<1>0. \A n \in ServerNodes : Len(n.key) = Len(n.path)
  BY NodesTyped DEF NodeTyped
<1>2. \A a \in TopNodes : a \in ServerNodes => a \in G
  <2> SUFFICES ASSUME NEW a \in TopNodes, a \in ServerNodes, NEW b \in ServerNodes, a.key = b.key
               PROVE  a.path = b.path
    OBVIOUS
  <2>1. b \in TopNodes
    BY <1>0, TopOrChild
  <2> DEFINE L == LastDefinition(Class)
  <2>2. PICK i \in Nat : a = TopAt(i) /\ a.path = Append(<<>>, i) /\ i + 1 \in DOMAIN msg.serializers[L].fields
    BY TopAtIs
  <2>3. PICK j \in Nat : b = TopAt(j) /\ b.path = Append(<<>>, j) /\ j + 1 \in DOMAIN msg.serializers[L].fields
    BY <2>1, TopAtIs
  <2>4. L \in DOMAIN msg.serializers
    BY ClassIsThere, DefinitionIs
  <2>5. a.key = Append(<<>>, HashBytes(ProtoOf(L, i + 1).name))
        /\ b.key = Append(<<>>, HashBytes(ProtoOf(L, j + 1).name))
    BY <2>2, <2>3 DEF TopAt, FieldNode, Node
  <2>6. HashBytes(ProtoOf(L, i + 1).name) = HashBytes(ProtoOf(L, j + 1).name)
    <3> DEFINE x == HashBytes(ProtoOf(L, i + 1).name)
               y == HashBytes(ProtoOf(L, j + 1).name)
    <3>1. x \in KeyParts /\ y \in KeyParts
      BY <2>2, <2>3, <2>4, MessageTyped DEF KeyParts
    <3>2. Append(<<>>, x) = Append(<<>>, y)
      BY <2>5
    <3>4. <<>> \in Seq(KeyParts)
      OBVIOUS
    <3> HIDE DEF x, y
    <3>3. x = y
      BY <3>1, <3>2, <3>4, AppendInjective
    <3> QED
      BY <3>3 DEF x, y
  <2>7. i + 1 = j + 1
    <3> HIDE DEF L
    <3> QED
      BY <2>2, <2>3, <2>4, <2>6, NamesDiffer
  <2>8. i = j
    BY <2>7
  <2> QED
    BY <2>2, <2>3, <2>8
<1>3. ASSUME NEW p \in ServerNodes, NEW c \in ServerNodes, p \in G, c \in ChildrenOf(p)
      PROVE  c \in G
  <2> SUFFICES ASSUME NEW b \in ServerNodes, c.key = b.key, c.path # b.path PROVE InFixedArray(c.path)
    OBVIOUS
  <2>1. PICK q \in ServerNodes : b \in ChildrenOf(q)
    BY <1>0, <1>3, TopOrChild
  <2>2. NodeTyped(p) /\ NodeTyped(q)
    BY NodesTyped
  <2> DEFINE L == LastDefinition(p.proto.ser)
             M == LastDefinition(q.proto.ser)
  <2>3. PICK i \in Nat :
          /\ c = ChildAt(p, i) /\ c.path = Append(p.path, i)
          /\ ~HoldsElements(p.type) =>
               Definitions(p.proto.ser) # {} /\ i + 1 \in DOMAIN msg.serializers[L].fields
    BY <1>3, <2>2, ChildAtIs
  <2>4. PICK j \in Nat :
          /\ b = ChildAt(q, j) /\ b.path = Append(q.path, j)
          /\ ~HoldsElements(q.type) =>
               Definitions(q.proto.ser) # {} /\ j + 1 \in DOMAIN msg.serializers[M].fields
    BY <2>1, <2>2, ChildAtIs
  <2>5. KeyPart(p, i) \in KeyParts /\ KeyPart(q, j) \in KeyParts
    BY <2>2, <2>3, <2>4, KeyPartTyped
  <2>6. p.key \in Seq(KeyParts) /\ q.key \in Seq(KeyParts)
    BY <2>2 DEF NodeTyped
  <2>7. Append(p.key, KeyPart(p, i)) = Append(q.key, KeyPart(q, j))
    BY <2>3, <2>4, ChildKey
  <2>8. p.key = q.key /\ KeyPart(p, i) = KeyPart(q, j)
    BY <2>5, <2>6, <2>7, AppendInjective
  <2>9. CASE p.path # q.path
    <3>1. InFixedArray(p.path)
      BY <1>3, <2>8, <2>9
    <3> QED
      BY <2>3, <3>1, InArrayBelow
  <2>10. CASE p.path = q.path
    <3>1. p = q
      BY <2>10, NodesUnique
    <3>2. CASE IsFixedArray(p.type)
      BY <2>3, <3>2, InArrayBelow
    <3>3. CASE ~IsFixedArray(p.type) /\ IsVector(p.type)
      <4>1. IndexHash(i) = IndexHash(j)
        BY <2>8, <3>1, <3>3 DEF KeyPart
      <4>2. i = j
        BY <4>1, IndexHashDiffers
      <4> QED
        BY <2>3, <2>4, <2>10, <4>2
    <3>4. CASE ~IsFixedArray(p.type) /\ ~IsVector(p.type)
      <4>1. ~HoldsElements(p.type)
        BY <3>4 DEF HoldsElements
      <4>2. L \in DOMAIN msg.serializers
        BY <2>3, <4>1, DefinitionIs
      <4>3. HashBytes(ProtoOf(L, i + 1).name) = HashBytes(ProtoOf(L, j + 1).name)
        BY <2>8, <3>1, <3>4 DEF KeyPart
      <4>4. i + 1 \in DOMAIN msg.serializers[L].fields /\ j + 1 \in DOMAIN msg.serializers[L].fields
        BY <2>3, <2>4, <3>1, <4>1
      <4> HIDE DEF L
      <4>5. i + 1 = j + 1
        BY <4>2, <4>3, <4>4, NamesDiffer
      <4>6. i = j
        BY <4>5
      <4> QED
        BY <2>3, <2>4, <2>10, <4>6
    <3> QED
      BY <3>2, <3>3, <3>4
  <2> QED
    BY <2>9, <2>10
<1> HIDE DEF G
<1>4. \A a \in ServerNodes : a \in G
  BY <1>1, <1>2, <1>3, TreeInduction
<1> QED
  BY <1>4 DEF G

-----------------------------------------------------------------------------
(* What the parser has for a node, once all serializers are parsed.          *)

\* What the parser has once all serializers are parsed: each name stands for
\* its last definition, and each field for what was announced.
Complete ==
  /\ \A proto \in Protos : ~Broken(GetFieldMetadata(proto).decoder)
  /\ \A s \in DOMAIN msg.serializers :
       LET name == msg.serializers[s].name
           last == LastDefinition(name)
       IN  /\ name \in DOMAIN serializer_map
           /\ serializer_map[name] =
                [def |-> last,
                 fields |-> [i \in DOMAIN msg.serializers[last].fields |-> NewField(ProtoOf(last, i))]]

\* The field of a node: that of its proto, or that of an element.
FieldOf(node) ==
  LET proto == node.proto
  IN  IF OfName(node) THEN NewField(proto)
      ELSE IF IsFixedArray(proto.type)
      THEN Field(HashBytes(proto.name), GetFieldMetadata(proto), ByName(proto.ser))
      ELSE IF proto.ser # NoSymbol THEN Field(DefaultHash, DefaultMetadata, ByName(proto.ser))
      ELSE ElementField(VisitAny(ElementType(proto.type), proto).decoder)

\* The serializer of a name is that of its last definition.
LEMMA SerializerIs ==
  ASSUME Announcement(msg), Complete, NEW ser, Definitions(ser) # {}
  PROVE  LET last == LastDefinition(ser)
         IN  /\ ser \in DOMAIN serializer_map /\ ByName(ser) = serializer_map[ser]
             /\ ByName(ser).def = last
             /\ DOMAIN ByName(ser).fields = DOMAIN msg.serializers[last].fields
             /\ \A i \in DOMAIN msg.serializers[last].fields :
                  ByName(ser).fields[i] = NewField(ProtoOf(last, i))
<1>1. PICK s \in DOMAIN msg.serializers : msg.serializers[s].name = ser
  BY DEF Definitions
<1> DEFINE last == LastDefinition(ser)
           fields == [i \in DOMAIN msg.serializers[last].fields |-> NewField(ProtoOf(last, i))]
<1>2. ser \in DOMAIN serializer_map /\ serializer_map[ser] = [def |-> last, fields |-> fields]
  BY <1>1 DEF Complete
<1>3. ByName(ser) = [def |-> last, fields |-> fields]
  BY <1>2 DEF ByName
<1>4. ByName(ser).def = last /\ ByName(ser).fields = fields
  BY <1>3
<1> QED
  BY <1>2, <1>3, <1>4

\* What the field of a field is, of each kind of type.
LEMMA NewFieldIs ==
  ASSUME NEW proto, PlainField(proto), ~Broken(GetFieldMetadata(proto).decoder)
  PROVE  LET new == NewField(proto)
             element == VisitAny(ElementType(proto.type), proto).decoder
         IN  /\ new.var_name = HashBytes(proto.name) /\ new.metadata = VisitAny(proto.type, proto)
             /\ IsDynamicArray(new.metadata.descriptor) <=> IsVector(proto.type)
             /\ IsFixedArray(proto.type) =>
                  /\ DOMAIN new.field_serializer.fields = 1 .. ArrayLength(proto.type.len)
                  /\ ArrayLength(proto.type.len) \in Nat \ {0}
                  /\ \A i \in 1 .. ArrayLength(proto.type.len) :
                       new.field_serializer.fields[i] =
                         Field(HashBytes(proto.name), GetFieldMetadata(proto), ByName(proto.ser))
                  /\ new.metadata.descriptor.is = "FixedArray" /\ new.metadata.decoder = element
             /\ IsVector(proto.type) =>
                  /\ new.field_serializer.fields =
                       <<IF proto.ser # NoSymbol
                         THEN Field(DefaultHash, DefaultMetadata, ByName(proto.ser))
                         ELSE ElementField(element)>>
                  /\ proto.ser # NoSymbol => new.metadata.descriptor.is = "DynamicSerializerArray"
             /\ ~HoldsElements(proto.type) =>
                  /\ new.field_serializer = ByName(proto.ser)
                  /\ new.metadata.descriptor.is \notin {"FixedArray", "DynamicSerializerArray"}
             /\ new.metadata.decoder # InvalidDecoder
             /\ HoldsElements(proto.type) => element # InvalidDecoder
<1> DEFINE new == NewField(proto)
           type == proto.type
           element == VisitAny(ElementType(type), proto).decoder
           metadata == VisitAny(type, proto)
           length == ArrayLength(type.len)
           named == ByName(proto.ser)
<1>0. MaxNesting \in Nat \ {0} /\ ~Broken(metadata.decoder)
  BY FieldsAssumption DEF GetFieldMetadata
<1>1. /\ IsFixedArray(type) => metadata = Metadata(FixedArray(length), element) /\ length \in Nat \ {0}
      /\ IsVector(type) /\ proto.ser # NoSymbol => metadata = SpecialMetadata
      /\ IsVector(type) /\ proto.ser = NoSymbol => metadata = Metadata(DynamicArray(element), DefaultU64)
      /\ Simple(type) => metadata.descriptor \in {NoDescriptor, PointerDescriptor}
      /\ metadata.decoder # InvalidDecoder
      /\ HoldsElements(type) => element # InvalidDecoder
  BY <1>0, FieldMeans
<1>2. GetFieldMetadata(proto) = metadata
  BY DEF GetFieldMetadata
<1> HIDE DEF element, metadata, length, named
<1>3. \A d, e : Metadata(d, e).decoder = e /\ Metadata(d, e).descriptor = d
  BY DEF Metadata
<1>4. /\ new.var_name = HashBytes(proto.name) /\ new.metadata = metadata
      /\ new.field_serializer = FieldSerializer(proto, metadata)
  BY <1>2 DEF NewField, Field
<1> HIDE DEF new
<1>5. IsFixedArray(type) => ~IsVector(type)
  BY DEF IsFixedArray, IsVector
<1>6. ASSUME IsFixedArray(type)
      PROVE  /\ ~IsDynamicArray(metadata.descriptor)
             /\ DOMAIN new.field_serializer.fields = 1 .. length
             /\ \A i \in 1 .. length :
                  new.field_serializer.fields[i] = Field(HashBytes(proto.name), metadata, named)
             /\ metadata.descriptor.is = "FixedArray" /\ metadata.decoder = element
  <2>1. metadata.descriptor = FixedArray(length) /\ metadata.decoder = element
    BY <1>1, <1>3, <1>6
  <2>2. FixedArray(length).is = "FixedArray" /\ FixedArray(length).length = length
    BY DEF FixedArray
  <2>3. FieldSerializer(proto, metadata) =
          Unnamed([i \in 1 .. length |-> Field(HashBytes(proto.name), metadata, named)])
    BY <2>1, <2>2 DEF FieldSerializer, named
  <2>4. new.field_serializer.fields = [i \in 1 .. length |-> Field(HashBytes(proto.name), metadata, named)]
    BY <1>4, <2>3 DEF Unnamed
  <2> QED
    BY <2>1, <2>2, <2>4 DEF IsDynamicArray
<1>7. ASSUME IsVector(type), proto.ser # NoSymbol
      PROVE  /\ IsDynamicArray(metadata.descriptor)
             /\ metadata.descriptor.is = "DynamicSerializerArray"
             /\ new.field_serializer.fields = <<Field(DefaultHash, DefaultMetadata, named)>>
  <2>1. metadata.descriptor.is = "DynamicSerializerArray"
    BY <1>1, <1>3, <1>7 DEF SpecialMetadata, DynamicSerializerArray
  <2>2. FieldSerializer(proto, metadata) = Unnamed(<<Field(DefaultHash, DefaultMetadata, named)>>)
    BY <2>1 DEF FieldSerializer, named
  <2> QED
    BY <1>4, <2>1, <2>2 DEF IsDynamicArray, Unnamed
<1>8. ASSUME IsVector(type), proto.ser = NoSymbol
      PROVE  /\ IsDynamicArray(metadata.descriptor)
             /\ new.field_serializer.fields = <<ElementField(element)>>
  <2>1. metadata.descriptor = DynamicArray(element)
    BY <1>1, <1>3, <1>8
  <2>2. DynamicArray(element).is = "DynamicArray" /\ DynamicArray(element).decoder = element
    BY DEF DynamicArray
  <2>3. FieldSerializer(proto, metadata) = Unnamed(<<ElementField(element)>>)
    BY <2>1, <2>2 DEF FieldSerializer
  <2> QED
    BY <1>4, <2>1, <2>2, <2>3 DEF IsDynamicArray, Unnamed
<1>9. ASSUME ~HoldsElements(type)
      PROVE  /\ ~IsDynamicArray(metadata.descriptor)
             /\ metadata.descriptor.is \notin {"FixedArray", "DynamicSerializerArray"}
             /\ new.field_serializer = named
  <2>1. metadata.descriptor.is \in {"none", "Pointer"}
    BY <1>1, <1>9 DEF HoldsElements, Simple, NoDescriptor, PointerDescriptor
  <2>2. FieldSerializer(proto, metadata) = named
    BY <2>1 DEF FieldSerializer, named
  <2> QED
    BY <1>4, <2>1, <2>2 DEF IsDynamicArray
<1>10. IsDynamicArray(metadata.descriptor) <=> IsVector(type)
  BY <1>5, <1>6, <1>7, <1>8, <1>9 DEF HoldsElements, IsFixedArray, IsVector, IsDynamicArray
<1>11. IsVector(type) =>
         /\ new.field_serializer.fields =
              <<IF proto.ser # NoSymbol THEN Field(DefaultHash, DefaultMetadata, named) ELSE ElementField(element)>>
         /\ proto.ser # NoSymbol => metadata.descriptor.is = "DynamicSerializerArray"
  BY <1>7, <1>8
<1> QED
  BY <1>1, <1>2, <1>4, <1>6, <1>9, <1>10, <1>11 DEF new, element, metadata, length, named

\* The field of a child is the child of the field, also in its name in a key.
ChildOfField(p, i) ==
  IF IsVector(p.type) THEN 1 ELSE i + 1
\* A child of a node is the child of the field that the code has for it, the
\* only one of a dynamic array, and its key says what the code hashes.
LEMMA ChildField ==
  ASSUME Announcement(msg), Plain, Complete, NEW p, NodeTyped(p), NEW c \in ChildrenOf(p)
  PROVE  \E i \in Nat :
           /\ c.path = Append(p.path, i) /\ c.key = Append(p.key, KeyPart(p, i))
           /\ IsDynamicArray(FieldOf(p).metadata.descriptor) <=> IsVector(p.type)
           /\ ChildOfField(p, i) \in DOMAIN FieldOf(p).field_serializer.fields
           /\ FieldOf(p).field_serializer.fields[ChildOfField(p, i)] = FieldOf(c)
           /\ KeyPart(p, i) = IF IsVector(p.type) THEN IndexHash(i) ELSE FieldOf(c).var_name
<1>1. PICK i \in Nat :
           /\ c = ChildAt(p, i) /\ c.path = Append(p.path, i)
           /\ IF HoldsElements(p.type)
              THEN /\ OfName(p) /\ ~OfName(c) /\ c.proto = p.proto
                   /\ IsFixedArray(p.type) => i < ArrayLength(p.type.len)
              ELSE /\ OfName(c) /\ Definitions(p.proto.ser) # {}
                   /\ i + 1 \in DOMAIN msg.serializers[LastDefinition(p.proto.ser)].fields
                   /\ c.proto = ProtoOf(LastDefinition(p.proto.ser), i + 1)
  BY ChildAtIs
<1>2. c.key = Append(p.key, KeyPart(p, i))
  BY <1>1, ChildKey
<1> DEFINE proto == p.proto
           new == NewField(proto)
           element == VisitAny(ElementType(proto.type), proto).decoder
<1>3. PlainField(proto) /\ ~Broken(GetFieldMetadata(proto).decoder)
  BY PlainProtos DEF NodeTyped, Complete
<1>4. /\ new.var_name = HashBytes(proto.name) /\ new.metadata = VisitAny(proto.type, proto)
      /\ IsDynamicArray(new.metadata.descriptor) <=> IsVector(proto.type)
      /\ IsFixedArray(proto.type) =>
           /\ DOMAIN new.field_serializer.fields = 1 .. ArrayLength(proto.type.len)
           /\ ArrayLength(proto.type.len) \in Nat \ {0}
           /\ \A n \in 1 .. ArrayLength(proto.type.len) :
                new.field_serializer.fields[n] =
                  Field(HashBytes(proto.name), GetFieldMetadata(proto), ByName(proto.ser))
           /\ new.metadata.descriptor.is = "FixedArray"
      /\ IsVector(proto.type) =>
           new.field_serializer.fields =
             <<IF proto.ser # NoSymbol
               THEN Field(DefaultHash, DefaultMetadata, ByName(proto.ser))
               ELSE ElementField(element)>>
      /\ ~HoldsElements(proto.type) => new.field_serializer = ByName(proto.ser)
  BY <1>3, NewFieldIs
<1> HIDE DEF new, element
<1>5. CASE HoldsElements(p.type)
  <2>1. OfName(p) /\ p.type = proto.type /\ FieldOf(p) = new
    BY <1>1, <1>5 DEF NodeTyped, FieldOf, new
  <2>2. IsDynamicArray(FieldOf(p).metadata.descriptor) <=> IsVector(p.type)
    BY <1>4, <2>1
  <2>3. ~OfName(c) /\ c.proto = proto
    BY <1>1, <1>5
  <2>4. CASE IsFixedArray(p.type)
    <3>1. ~IsVector(p.type)
      BY <2>4 DEF IsFixedArray, IsVector
    <3>2. i + 1 \in 1 .. ArrayLength(proto.type.len)
      BY <1>1, <1>4, <1>5, <2>1, <2>4
    <3>3. FieldOf(c) = Field(HashBytes(proto.name), GetFieldMetadata(proto), ByName(proto.ser))
      BY <2>1, <2>3, <2>4 DEF FieldOf
    <3>4. FieldOf(c).var_name = HashBytes(proto.name)
      BY <3>3 DEF Field
    <3>5. KeyPart(p, i) = FieldOf(c).var_name
      BY <2>4, <3>4 DEF KeyPart
    <3>6. ChildOfField(p, i) = i + 1
      BY <3>1 DEF ChildOfField
    <3> QED
      BY <1>1, <1>2, <1>4, <2>1, <2>2, <2>4, <3>1, <3>2, <3>3, <3>5, <3>6
  <2>5. CASE ~IsFixedArray(p.type)
    <3>1. IsVector(p.type)
      BY <1>5, <2>5 DEF HoldsElements
    <3>2. FieldOf(c) = IF proto.ser # NoSymbol
                       THEN Field(DefaultHash, DefaultMetadata, ByName(proto.ser))
                       ELSE ElementField(element)
      BY <2>1, <2>3, <2>5 DEF FieldOf, element
    <3>3. new.field_serializer.fields = <<FieldOf(c)>>
      BY <1>4, <2>1, <3>1, <3>2
    <3>4. ChildOfField(p, i) = 1
      BY <3>1 DEF ChildOfField
    <3>5. KeyPart(p, i) = IndexHash(i)
      BY <2>5, <3>1 DEF KeyPart
    <3> QED
      BY <1>1, <1>2, <2>1, <2>2, <3>1, <3>3, <3>4, <3>5
  <2> QED
    BY <2>4, <2>5
<1>6. CASE ~HoldsElements(p.type)
  <2> DEFINE last == LastDefinition(proto.ser)
  <2>0. ~IsVector(p.type) /\ ~IsFixedArray(p.type)
    BY <1>6 DEF HoldsElements
  <2>1. /\ OfName(c) /\ Definitions(proto.ser) # {}
        /\ i + 1 \in DOMAIN msg.serializers[last].fields /\ c.proto = ProtoOf(last, i + 1)
    BY <1>1, <1>6
  <2>2. proto.ser # NoSymbol
    BY <2>1, MessageTyped DEF Definitions
  <2>3. /\ DOMAIN ByName(proto.ser).fields = DOMAIN msg.serializers[last].fields
        /\ \A n \in DOMAIN msg.serializers[last].fields : ByName(proto.ser).fields[n] = NewField(ProtoOf(last, n))
    BY <2>1, SerializerIs
  <2>4. ByName(proto.ser).fields[i + 1] = FieldOf(c)
    BY <2>1, <2>3 DEF FieldOf
  <2>5. FieldOf(p).field_serializer = ByName(proto.ser) /\ ~IsDynamicArray(FieldOf(p).metadata.descriptor)
    <3>1. CASE OfName(p)
      <4>1. p.type = proto.type /\ FieldOf(p) = new
        BY <3>1 DEF NodeTyped, FieldOf, new
      <4> QED
        BY <1>4, <1>6, <2>0, <4>1
    <3>2. CASE ~OfName(p) /\ IsFixedArray(proto.type)
      <4>1. FieldOf(p) = Field(HashBytes(proto.name), GetFieldMetadata(proto), ByName(proto.ser))
        BY <3>2 DEF FieldOf
      <4>2. GetFieldMetadata(proto).descriptor.is = "FixedArray"
        BY <1>4, <3>2 DEF GetFieldMetadata
      <4> QED
        BY <4>1, <4>2 DEF Field, IsDynamicArray
    <3>3. CASE ~OfName(p) /\ ~IsFixedArray(proto.type)
      <4>1. FieldOf(p) = Field(DefaultHash, DefaultMetadata, ByName(proto.ser))
        BY <2>2, <3>3 DEF FieldOf
      <4> QED
        BY <4>1 DEF Field, IsDynamicArray, DefaultMetadata, NoDescriptor, Metadata
    <3> QED
      BY <3>1, <3>2, <3>3
  <2>6. ChildOfField(p, i) = i + 1
    BY <2>0 DEF ChildOfField
  <2>7. FieldOf(c).var_name = HashBytes(ProtoOf(last, i + 1).name)
    BY <2>1 DEF FieldOf, NewField, Field
  <2>8. KeyPart(p, i) = FieldOf(c).var_name
    BY <2>0, <2>7 DEF KeyPart
  <2> HIDE DEF last
  <2> QED
    BY <1>1, <1>2, <2>0, <2>1, <2>3, <2>4, <2>5, <2>6, <2>8
<1> QED
  BY <1>5, <1>6

\* A field of an entity is the one of the class.
LEMMA TopField ==
  ASSUME Announcement(msg), Complete, NEW n \in TopNodes
  PROVE  \E i \in Nat :
           /\ n.path = Append(<<>>, i)
           /\ i + 1 \in DOMAIN serializer_map[Class].fields
           /\ serializer_map[Class].fields[i + 1] = FieldOf(n)
           /\ n.key = Append(<<>>, FieldOf(n).var_name)
<1> DEFINE last == LastDefinition(Class)
<1>1. PICK i \in Nat :
           /\ n = TopAt(i) /\ n.path = Append(<<>>, i) /\ OfName(n)
           /\ i + 1 \in DOMAIN msg.serializers[last].fields
           /\ n.proto = ProtoOf(last, i + 1)
  BY TopAtIs
<1>2. Definitions(Class) # {}
  BY ClassIsThere
<1>3. /\ DOMAIN serializer_map[Class].fields = DOMAIN msg.serializers[last].fields
      /\ \A k \in DOMAIN msg.serializers[last].fields :
           serializer_map[Class].fields[k] = NewField(ProtoOf(last, k))
  BY <1>2, SerializerIs
<1>4. FieldOf(n) = NewField(ProtoOf(last, i + 1))
  BY <1>1 DEF FieldOf
<1>5. n.key = Append(<<>>, HashBytes(ProtoOf(last, i + 1).name))
  BY <1>1 DEF TopAt, FieldNode, Node
<1>6. FieldOf(n).var_name = HashBytes(ProtoOf(last, i + 1).name)
  BY <1>4 DEF NewField, Field
<1> QED
  BY <1>1, <1>3, <1>4, <1>5, <1>6

\* A walk along the path of a node arrives at its field, with its key.
LEMMA WalkIsThere ==
  ASSUME Announcement(msg), Plain, Complete
  PROVE  \A n \in ServerNodes :
           Walk(serializer_map[Class], n.path) = [undefined |-> FALSE, field |-> FieldOf(n), key |-> n.key]
<1> DEFINE ser == serializer_map[Class]
           G == {n \in ServerNodes :
                   Walk(ser, n.path) = [undefined |-> FALSE, field |-> FieldOf(n), key |-> n.key]}
<1>1. MaxDepth \in Nat
  BY FieldsAssumption
<1>2. \A n \in TopNodes : n \in ServerNodes => n \in G
  <2> SUFFICES ASSUME NEW n \in TopNodes
               PROVE  Walk(ser, n.path) = [undefined |-> FALSE, field |-> FieldOf(n), key |-> n.key]
    OBVIOUS
  <2>1. PICK i \in Nat :
           /\ n.path = Append(<<>>, i)
           /\ i + 1 \in DOMAIN ser.fields
           /\ ser.fields[i + 1] = FieldOf(n)
           /\ n.key = Append(<<>>, FieldOf(n).var_name)
    BY TopField
  <2> HIDE DEF ser
  <2>3. Walk(ser, n.path) = Step([undefined |-> FALSE, field |-> RootField(ser), key |-> <<>>], i)
    <3> DEFINE top == <<>>
    <3>1. top \in Seq(Nat) /\ n.path = Append(top, i)
      BY <2>1
    <3>2. Walk(ser, top) = [undefined |-> FALSE, field |-> RootField(ser), key |-> <<>>]
      BY WalkEmpty
    <3> HIDE DEF top
    <3> QED
      <4>1. Walk(ser, Append(top, i)) = Step(Walk(ser, top), i)
        BY <3>1, WalkAppend
      <4> QED
        BY <3>1, <3>2, <4>1
  <2>4. RootField(ser).field_serializer = ser /\ ~IsDynamicArray(RootField(ser).metadata.descriptor)
    BY DEF RootField, Field, IsDynamicArray, DefaultMetadata, NoDescriptor, Metadata
  <2> QED
    BY <2>1, <2>3, <2>4 DEF Step
<1>3. ASSUME NEW p \in ServerNodes, NEW c \in ServerNodes, p \in G, c \in ChildrenOf(p)
      PROVE  c \in G
  <2>1. NodeTyped(p)
    BY NodesTyped
  <2>2. PICK i \in Nat :
           /\ c.path = Append(p.path, i) /\ c.key = Append(p.key, KeyPart(p, i))
           /\ IsDynamicArray(FieldOf(p).metadata.descriptor) <=> IsVector(p.type)
           /\ ChildOfField(p, i) \in DOMAIN FieldOf(p).field_serializer.fields
           /\ FieldOf(p).field_serializer.fields[ChildOfField(p, i)] = FieldOf(c)
           /\ KeyPart(p, i) = IF IsVector(p.type) THEN IndexHash(i) ELSE FieldOf(c).var_name
    BY <1>3, <2>1, ChildField
  <2>3. Walk(ser, p.path) = [undefined |-> FALSE, field |-> FieldOf(p), key |-> p.key]
    BY <1>3
  <2> HIDE DEF ser
  <2>4. p.path \in Seq(Nat)
    BY <2>1 DEF NodeTyped
  <2>5. Walk(ser, c.path) = Step([undefined |-> FALSE, field |-> FieldOf(p), key |-> p.key], i)
    BY <2>2, <2>3, <2>4, WalkAppend
  <2>6. CASE IsVector(p.type)
    <3>1. ChildOfField(p, i) = 1
      BY <2>6 DEF ChildOfField
    <3>2. Step([undefined |-> FALSE, field |-> FieldOf(p), key |-> p.key], i)
            = [undefined |-> FALSE, field |-> FieldOf(c), key |-> c.key]
      BY <2>2, <2>6, <3>1 DEF Step
    <3> QED
      BY <2>5, <3>2 DEF ser
  <2>7. CASE ~IsVector(p.type)
    <3>1. ChildOfField(p, i) = i + 1
      BY <2>7 DEF ChildOfField
    <3>2. Step([undefined |-> FALSE, field |-> FieldOf(p), key |-> p.key], i)
            = [undefined |-> FALSE, field |-> FieldOf(c), key |-> c.key]
      BY <2>2, <2>7, <3>1 DEF Step
    <3> QED
      BY <2>5, <3>2 DEF ser
  <2> QED
    BY <2>6, <2>7
<1> HIDE DEF G
<1>4. \A n \in ServerNodes : n \in G
  BY <1>1, <1>2, <1>3, TreeInduction
<1> QED
  BY <1>4 DEF G

\* The field of a node that has a value has the decoder of its type.
LEMMA ValueDecoded ==
  ASSUME Announcement(msg), Plain, Complete, NEW n \in ServerNodes, HasValue(n)
  PROVE  /\ FieldOf(n).metadata.decoder = VisitAny(n.type, n.proto).decoder
         /\ FieldOf(n).metadata.decoder # InvalidDecoder
<1> DEFINE proto == n.proto
           new == NewField(proto)
           element == VisitAny(ElementType(proto.type), proto).decoder
<1>1. NodeTyped(n)
  BY NodesTyped
<1>2. PlainField(proto) /\ ~Broken(GetFieldMetadata(proto).decoder)
  BY <1>1, PlainProtos DEF NodeTyped, Complete
<1>3. /\ new.metadata = VisitAny(proto.type, proto) /\ new.metadata.decoder # InvalidDecoder
      /\ IsFixedArray(proto.type) => new.metadata.decoder = element
      /\ HoldsElements(proto.type) => element # InvalidDecoder
  BY <1>2, NewFieldIs
<1> HIDE DEF new, element
<1>4. CASE OfName(n)
  <2>1. n.type = proto.type /\ FieldOf(n) = new
    BY <1>1, <1>4 DEF NodeTyped, FieldOf, new
  <2> QED
    BY <1>3, <2>1
<1>5. CASE ~OfName(n)
  <2>1. HoldsElements(proto.type) /\ n.type = ElementType(proto.type)
    BY <1>1, <1>5 DEF NodeTyped
  <2>2. VisitAny(n.type, proto).decoder = element
    BY <2>1 DEF element
  <2>3. CASE IsFixedArray(proto.type)
    <3>1. FieldOf(n).metadata = GetFieldMetadata(proto)
      BY <1>5, <2>3 DEF FieldOf, Field
    <3>2. FieldOf(n).metadata.decoder = element
      BY <1>3, <2>3, <3>1 DEF GetFieldMetadata
    <3> QED
      BY <1>3, <2>1, <2>2, <3>2
  <2>4. CASE ~IsFixedArray(proto.type) /\ proto.ser = NoSymbol
    <3>1. FieldOf(n).metadata.decoder = element
      BY <1>5, <2>4 DEF FieldOf, ElementField, Field, Metadata, element
    <3> QED
      BY <1>3, <2>1, <2>2, <3>1
  <2>5. CASE proto.ser # NoSymbol
    <3>1. ~IsVector(n.type) /\ ~IsPointer(n.type, proto)
      BY <1>2, <2>1 DEF PlainField, Simple
    <3> QED
      BY <2>5, <3>1 DEF HasValue
  <2> QED
    BY <2>3, <2>4, <2>5
<1> QED
  BY <1>4, <1>5

\* So does get_serializer_field, except in later elements of vectors.
LEMMA LookupIsThere ==
  ASSUME Announcement(msg), Plain, Complete
  PROVE  \A n \in ServerNodes :
           ~InLaterElement(n.path) => Lookup(serializer_map[Class], n.path) = FieldOf(n)
<1> DEFINE ser == serializer_map[Class]
           G == {n \in ServerNodes : ~InLaterElement(n.path) => Lookup(ser, n.path) = FieldOf(n)}
<1>1. MaxDepth \in Nat
  BY FieldsAssumption
<1>2. \A n \in TopNodes : n \in ServerNodes => n \in G
  <2> SUFFICES ASSUME NEW n \in TopNodes PROVE Lookup(ser, n.path) = FieldOf(n)
    OBVIOUS
  <2>1. PICK i \in Nat :
           /\ n.path = Append(<<>>, i)
           /\ i + 1 \in DOMAIN ser.fields
           /\ ser.fields[i + 1] = FieldOf(n)
    BY TopField
  <2> HIDE DEF ser
  <2>3. Lookup(ser, n.path) = Child(RootField(ser), i)
    <3> DEFINE top == <<>>
    <3>1. top \in Seq(Nat) /\ n.path = Append(top, i)
      BY <2>1
    <3>2. Lookup(ser, top) = RootField(ser)
      BY LookupEmpty
    <3> HIDE DEF top
    <3> QED
      BY <3>1, <3>2, LookupAppend
  <2>4. RootField(ser).field_serializer = ser
    BY DEF RootField, Field
  <2> QED
    BY <2>1, <2>3, <2>4 DEF Child
<1>3. ASSUME NEW p \in ServerNodes, NEW c \in ServerNodes, p \in G, c \in ChildrenOf(p)
      PROVE  c \in G
  <2> SUFFICES ASSUME ~InLaterElement(c.path) PROVE Lookup(ser, c.path) = FieldOf(c)
    OBVIOUS
  <2>1. NodeTyped(p)
    BY NodesTyped
  <2>2. PICK i \in Nat :
           /\ c.path = Append(p.path, i)
           /\ ChildOfField(p, i) \in DOMAIN FieldOf(p).field_serializer.fields
           /\ FieldOf(p).field_serializer.fields[ChildOfField(p, i)] = FieldOf(c)
    BY <1>3, <2>1, ChildField
  <2>4. p.path \in Seq(Nat) /\ p.path # <<>>
    BY <2>1 DEF NodeTyped
  <2>5. /\ Len(p.path) \in Nat \ {0} /\ Len(c.path) = Len(p.path) + 1 /\ c.path[Len(p.path) + 1] = i
        /\ \A k \in 1 .. Len(p.path) : c.path[k] = p.path[k]
    BY <2>2, <2>4, AppendProperties, EmptySeq, LenProperties
  <2>6. ~InLaterElement(p.path)
    <3> SUFFICES ASSUME InLaterElement(p.path) PROVE FALSE
      OBVIOUS
    <3>1. PICK k \in 2 .. Len(p.path) :
            p.path[k] > 0 /\ IsVector(NodeAt(SubSeq(p.path, 1, k - 1)).type)
      BY DEF InLaterElement
    <3>2. k \in 2 .. Len(c.path) /\ k - 1 \in 1 .. Len(p.path) /\ k \in 1 .. Len(p.path)
      BY <2>5
    <3>3. SubSeq(c.path, 1, k - 1) = SubSeq(p.path, 1, k - 1)
      BY <2>2, <2>4, <3>2, FirstOfAppend
    <3>4. c.path[k] = p.path[k]
      BY <2>5, <3>2
    <3> QED
      BY <3>1, <3>2, <3>3, <3>4 DEF InLaterElement
  <2>7. IsVector(p.type) => i = 0
    <3> SUFFICES ASSUME IsVector(p.type), i > 0 PROVE FALSE
      OBVIOUS
    <3>1. SubSeq(c.path, 1, Len(p.path)) = p.path
      BY <2>2, <2>4, AllOfAppend
    <3>2. NodeAt(SubSeq(c.path, 1, Len(p.path))) = p
      BY <3>1, NodeAtIs
    <3>3. Len(p.path) + 1 \in 2 .. Len(c.path) /\ (Len(p.path) + 1) - 1 = Len(p.path)
      BY <2>5
    <3> QED
      BY <2>5, <3>2, <3>3 DEF InLaterElement
  <2>8. ChildOfField(p, i) = i + 1
    BY <2>7 DEF ChildOfField
  <2>9. Lookup(ser, p.path) = FieldOf(p)
    BY <1>3, <2>6
  <2> HIDE DEF ser
  <2>10. Lookup(ser, c.path) = Child(FieldOf(p), i)
    BY <2>2, <2>4, <2>9, LookupAppend
  <2> QED
    BY <2>2, <2>8, <2>10 DEF Child
<1> HIDE DEF G
<1>4. \A n \in ServerNodes : n \in G
  BY <1>1, <1>2, <1>3, TreeInduction
<1> QED
  BY <1>4 DEF G

-----------------------------------------------------------------------------
(* What an entity keeps, and what was sent to it.                           *)

\* The fields of an entity are what was sent to it: every path that was sent
\* has a key, and under each key is the last datum of a path of that key, read
\* with the decoder of the type of its node.
Reflects(fields, state) ==
  /\ \A path \in DOMAIN state : path \in ServerPaths /\ KeyOf(path) \in DOMAIN fields
  /\ \A key \in DOMAIN fields :
       LET value == fields[key].value
           node  == NodeAt(value.sent.path)
       IN  /\ fields[key].path \in DOMAIN state /\ KeyOf(fields[key].path) = key
           /\ value.sent.path \in DOMAIN state /\ KeyOf(value.sent.path) = key
           /\ value.sent.datum = state[value.sent.path]
           /\ value.made = VisitAny(node.type, node.proto).decoder

\* Updates of one field.
Sendable(data) == [path : ServerPaths, datum : data]

\* Updates are sequences of them.
LEMMA UpdatesTyped ==
  ASSUME NEW data, NEW updates \in Updates(data)
  PROVE  updates \in Seq(Sendable(data))
<1>1. PICK n \in 1 .. MaxPaths : updates \in [1 .. n -> Sendable(data)]
  BY DEF Updates, Sendable
<1>2. n \in Nat
  BY FieldsAssumption
<1> HIDE DEF Sendable
<1> QED
  BY <1>1, <1>2

\* The walk along the path of a node with a value ends at its field, with its
\* key and the decoder of its type.
LEMMA PathWalked ==
  ASSUME Announcement(msg), Plain, Complete, NEW path \in ServerPaths
  PROVE  LET node == NodeAt(path)
             at == Walk(serializer_map[Class], path)
         IN  /\ node \in ServerNodes /\ node.path = path
             /\ WalkEnds(serializer_map[Class], path)
             /\ at.key = KeyOf(path) /\ at.field = FieldOf(node)
             /\ at.field.metadata.decoder = VisitAny(node.type, node.proto).decoder
<1>1. PICK n \in ServerNodes : HasValue(n) /\ n.path = path
  BY DEF ServerPaths
<1>2. NodeAt(path) = n
  BY <1>1, NodeAtIs
<1> DEFINE ser == serializer_map[Class]
<1>3. Walk(ser, path) = [undefined |-> FALSE, field |-> FieldOf(n), key |-> n.key]
  BY <1>1, WalkIsThere
<1> HIDE DEF ser
<1>4. /\ FieldOf(n).metadata.decoder = VisitAny(n.type, n.proto).decoder
      /\ FieldOf(n).metadata.decoder # InvalidDecoder
  BY <1>1, ValueDecoded
<1>5. WalkEnds(ser, path)
  BY <1>3, <1>4 DEF WalkEnds
<1>6. /\ Walk(ser, path).key = n.key /\ Walk(ser, path).field = FieldOf(n)
  BY <1>3
<1> QED
  BY <1>1, <1>2, <1>4, <1>5, <1>6 DEF KeyOf, ser

\* A field that is sent and set keeps the two together.
LEMMA SetFieldReflects ==
  ASSUME Announcement(msg), Plain, Complete, NEW fields, NEW state, Reflects(fields, state),
         NEW data, NEW update \in Sendable(data)
  PROVE  Reflects(SetField(fields, serializer_map[Class], update),
                  Put(state, update.path, update.datum))
<1> DEFINE path == update.path
           key == KeyOf(path)
           node == NodeAt(path)
           decoder == VisitAny(node.type, node.proto).decoder
           ser == serializer_map[Class]
           at == Walk(ser, path)
           first == IF key \in DOMAIN fields THEN fields[key].path ELSE path
           entry == [path |-> first, value |-> [made |-> decoder, sent |-> update]]
           new == SetField(fields, ser, update)
           after == Put(state, path, update.datum)
<1>1. path \in ServerPaths
  BY DEF Sendable
<1>2. at.key = key /\ at.field.metadata.decoder = decoder
  BY <1>1, PathWalked
<1>3. new = Put(fields, key, entry)
  BY <1>2 DEF SetField
<1>4. entry.path = first /\ entry.value.sent = update /\ entry.value.made = decoder
  OBVIOUS
<1>5. /\ \A p \in DOMAIN state : p \in ServerPaths /\ KeyOf(p) \in DOMAIN fields
      /\ \A k \in DOMAIN fields :
           /\ fields[k].path \in DOMAIN state /\ KeyOf(fields[k].path) = k
           /\ fields[k].value.sent.path \in DOMAIN state /\ KeyOf(fields[k].value.sent.path) = k
           /\ fields[k].value.sent.datum = state[fields[k].value.sent.path]
           /\ fields[k].value.made =
                VisitAny(NodeAt(fields[k].value.sent.path).type,
                         NodeAt(fields[k].value.sent.path).proto).decoder
  BY DEF Reflects
<1>6. first \in DOMAIN state \union {path} /\ KeyOf(first) = key
  BY <1>5
<1> HIDE DEF key, entry, new, first, decoder, at, ser
<1>7. /\ DOMAIN new = DOMAIN fields \union {key} /\ new[key] = entry
      /\ \A k \in DOMAIN fields : k # key => new[k] = fields[k]
  <2>1. /\ DOMAIN Put(fields, key, entry) = DOMAIN fields \union {key}
        /\ Put(fields, key, entry)[key] = entry
        /\ \A k \in DOMAIN fields : k # key => Put(fields, key, entry)[k] = fields[k]
    BY DEF Put
  <2> QED
    BY <1>3, <2>1
<1>8. /\ DOMAIN after = DOMAIN state \union {path} /\ after[path] = update.datum
      /\ \A p \in DOMAIN state : p # path => after[p] = state[p]
  <2> DEFINE datum == update.datum
  <2>1. after = Put(state, path, datum)
    OBVIOUS
  <2> HIDE DEF path, datum, after
  <2>2. /\ DOMAIN Put(state, path, datum) = DOMAIN state \union {path}
        /\ Put(state, path, datum)[path] = datum
        /\ \A p \in DOMAIN state : p # path => Put(state, path, datum)[p] = state[p]
    BY DEF Put
  <2>3. DOMAIN after = DOMAIN state \union {path} /\ after[path] = datum
        /\ \A p \in DOMAIN state : p # path => after[p] = state[p]
    BY <2>1, <2>2
  <2> QED
    BY <2>3 DEF datum
<1> HIDE DEF after
<1>9. KeyOf(path) = key
  BY DEF key
<1>10. \A p \in DOMAIN after : p \in ServerPaths /\ KeyOf(p) \in DOMAIN new
  BY <1>1, <1>5, <1>7, <1>8, <1>9
<1>11. ASSUME NEW k \in DOMAIN new
       PROVE  /\ new[k].path \in DOMAIN after /\ KeyOf(new[k].path) = k
              /\ new[k].value.sent.path \in DOMAIN after /\ KeyOf(new[k].value.sent.path) = k
              /\ new[k].value.sent.datum = after[new[k].value.sent.path]
              /\ new[k].value.made =
                   VisitAny(NodeAt(new[k].value.sent.path).type,
                            NodeAt(new[k].value.sent.path).proto).decoder
  <2>1. CASE k = key
    BY <1>4, <1>6, <1>7, <1>8, <1>9, <2>1 DEF decoder
  <2>2. CASE k # key
    <3>1. k \in DOMAIN fields /\ new[k] = fields[k]
      BY <1>7, <2>2
    <3>2. fields[k].value.sent.path \in DOMAIN state /\ KeyOf(fields[k].value.sent.path) = k
      BY <1>5, <3>1
    <3>3. fields[k].value.sent.path # path
      BY <1>9, <2>2, <3>2
    <3>4. after[fields[k].value.sent.path] = state[fields[k].value.sent.path]
      BY <1>8, <3>2, <3>3
    <3> QED
      BY <1>5, <1>8, <3>1, <3>2, <3>4
  <2> QED
    BY <2>1, <2>2
<1>12. Reflects(new, after)
  BY <1>10, <1>11 DEF Reflects
<1> QED
  BY <1>12 DEF new, after, ser

\* So does an update, path by path.
LEMMA ParseReflects ==
  ASSUME Announcement(msg), Plain, Complete, NEW fields, NEW state, Reflects(fields, state),
         NEW data, NEW updates \in Updates(data)
  PROVE  Reflects(ParseEntity(fields, serializer_map[Class], updates), AfterSending(state, updates))
<1> DEFINE ser == serializer_map[Class]
           G == {us \in Seq(Sendable(data)) :
                   Reflects(ParseEntity(fields, ser, us), AfterSending(state, us))}
<1>1. <<>> \in G
  <2>1. ParseEntity(fields, ser, <<>>) = fields /\ AfterSending(state, <<>>) = state
    BY ParseEntityEmpty, AfterSendingEmpty
  <2>2. <<>> \in Seq(Sendable(data))
    OBVIOUS
  <2> QED
    BY <2>1, <2>2
<1>2. ASSUME NEW us \in Seq(Sendable(data)), NEW e \in Sendable(data), us \in G
      PROVE  Append(us, e) \in G
  <2>1. Append(us, e) \in Seq(Sendable(data))
    BY AppendProperties
  <2>2. Reflects(ParseEntity(fields, ser, us), AfterSending(state, us))
    BY <1>2
  <2>3. Reflects(SetField(ParseEntity(fields, ser, us), ser, e), Put(AfterSending(state, us), e.path, e.datum))
    BY <2>2, SetFieldReflects
  <2> HIDE DEF ser
  <2>4. /\ ParseEntity(fields, ser, Append(us, e)) = SetField(ParseEntity(fields, ser, us), ser, e)
        /\ AfterSending(state, Append(us, e)) = Put(AfterSending(state, us), e.path, e.datum)
    BY ParseEntityAppend, AfterSendingAppend
  <2> QED
    BY <2>1, <2>3, <2>4
<1> HIDE DEF G
<1>3. \A us \in Seq(Sendable(data)) : us \in G
  BY <1>1, <1>2, SequenceInduction
<1>4. updates \in G
  BY <1>3, UpdatesTyped
<1> QED
  BY <1>4 DEF G

\* Nothing was sent to an entity without fields.
LEMMA NothingReflects == Reflects(<<>>, <<>>)
BY DEF Reflects

\* What the server sends can be read.
LEMMA UpdatesDefined ==
  ASSUME Announcement(msg), Plain, Complete, NEW data, NEW updates \in Updates(data)
  PROVE  ~Undefined(serializer_map[Class], updates)
<1>1. ASSUME NEW i \in DOMAIN updates PROVE updates[i].path \in ServerPaths
  <2>1. updates[i] \in Sendable(data)
    BY UpdatesTyped, LenProperties, ElementOfSeq
  <2> QED
    BY <2>1 DEF Sendable
<1>2. \A i \in DOMAIN updates : WalkEnds(serializer_map[Class], updates[i].path)
  BY <1>1, PathWalked
<1> QED
  BY <1>2 DEF Undefined

\* What the server has does not change.
LEMMA MsgKept ==
  ASSUME msg' = msg
  PROVE  /\ ServerNodes' = ServerNodes
         /\ Usual' = Usual
         /\ ServerPaths' = ServerPaths
<1>1. ServerNodes' = ServerNodes
  BY DEF ServerNodes, Below, ChildrenOf, FieldsOf, ElementsOf, LastDefinition, Definitions
<1>2. Usual' = Usual
  BY DEF Usual, Ordered, Plain, Uses, Definitions
<1>3. ServerPaths' = ServerPaths
  BY <1>1 DEF ServerPaths, HasValue, ChildrenOf, FieldsOf, ElementsOf, LastDefinition, Definitions
<1> QED
  BY <1>1, <1>2, <1>3

\* The nodes depend on nothing but the message.
LEMMA NodesKept ==
  ASSUME msg' = msg
  PROVE  \A path : NodeAt(path)' = NodeAt(path) /\ KeyOf(path)' = KeyOf(path)
<1>1. ServerNodes' = ServerNodes
  BY MsgKept
<1> QED
  BY <1>1 DEF NodeAt, KeyOf

\* So what an entity reflects stays.
LEMMA ReflectsKept ==
  ASSUME msg' = msg, NEW fields, NEW state, Reflects(fields, state)
  PROVE  Reflects(fields, state)'
<1>1. ServerNodes' = ServerNodes /\ ServerPaths' = ServerPaths
  BY MsgKept
<1>2. \A path : NodeAt(path)' = NodeAt(path) /\ KeyOf(path)' = KeyOf(path)
  BY NodesKept
<1> QED
  BY <1>1, <1>2 DEF Reflects

-----------------------------------------------------------------------------
(* While serializers are parsed.                                            *)

\* The fields of a serializer before a position, as they are kept.
FieldsBefore(s, n) == [i \in 1 .. n |-> field_map[msg.serializers[s].fields[i]]]

\* The fields of the serializer that is being parsed, up to the current one.
Position ==
  /\ serializer \in 1 .. Len(msg.serializers) + 1
  /\ serializer <= Len(msg.serializers) =>
       /\ field \in 1 .. Len(Current.fields) + 1
       /\ parsed_fields = FieldsBefore(serializer, field - 1)
       /\ \A i \in 1 .. field - 1 : Current.fields[i] \in DOMAIN field_map

\* The fields that are kept, among them all of the serializers that are kept.
FieldsKept ==
  /\ DOMAIN field_map \subseteq DOMAIN msg.fields
  /\ \A index \in DOMAIN field_map : ~Broken(GetFieldMetadata(msg.fields[index]).decoder)
  /\ \A s \in 1 .. serializer - 1 : \A i \in DOMAIN msg.serializers[s].fields :
       msg.serializers[s].fields[i] \in DOMAIN field_map

\* A serializer that is kept is the last one of its name so far.
IsKept(name, d) ==
  /\ d \in Definitions(name) /\ d < serializer
  /\ \A t \in Definitions(name) : t < serializer => t <= d
  /\ serializer_map[name] = [def |-> d, fields |-> FieldsBefore(d, Len(msg.serializers[d].fields))]
\* The serializers that are kept are those before the current one, and each is
\* one of its name.
SerializersKept ==
  /\ DOMAIN serializer_map = {msg.serializers[t].name : t \in 1 .. serializer - 1}
  /\ \A name \in DOMAIN serializer_map : \E d \in DOMAIN msg.serializers : IsKept(name, d)

\* A field that is kept is what would be made of its proto now.
UsedBefore(index) ==
  \E s \in DOMAIN msg.serializers : s <= serializer /\ \E i \in DOMAIN msg.serializers[s].fields :
    index = msg.serializers[s].fields[i]
\* If versions are announced before they are used, a field that is kept is what
\* it would be now.
FieldsCurrent ==
  Ordered => \A index \in DOMAIN field_map :
               field_map[index] = NewField(msg.fields[index]) /\ UsedBefore(index)

\* The invariant of the parser.
ParseInv == msg \in Messages /\ Position /\ FieldsKept /\ SerializersKept /\ FieldsCurrent

\* Every message is an announcement.
LEMMA MessageIs == ASSUME msg \in Messages PROVE Announcement(msg)
BY FieldsAssumption

\* Once all serializers are parsed, the parser has what was announced.
LEMMA FieldsDone ==
  ASSUME ParseInv, Ordered, serializer > Len(msg.serializers)
  PROVE  Complete
<1>1. Announcement(msg)
  BY MessageIs DEF ParseInv
<1>2. /\ Len(msg.serializers) \in Nat /\ DOMAIN msg.serializers = 1 .. Len(msg.serializers)
      /\ \A s \in DOMAIN msg.serializers :
           /\ Len(msg.serializers[s].fields) \in Nat
           /\ DOMAIN msg.serializers[s].fields = 1 .. Len(msg.serializers[s].fields)
  BY <1>1, MessageTyped
<1>3. 1 .. serializer - 1 = DOMAIN msg.serializers /\ serializer \in Int
  BY <1>2 DEF ParseInv, Position
<1>4. ASSUME NEW proto \in Protos PROVE ~Broken(GetFieldMetadata(proto).decoder)
  <2>1. PICK s \in DOMAIN msg.serializers : \E i \in DOMAIN msg.serializers[s].fields :
          proto = msg.fields[msg.serializers[s].fields[i]]
    BY DEF Protos, Uses
  <2>2. PICK i \in DOMAIN msg.serializers[s].fields : proto = msg.fields[msg.serializers[s].fields[i]]
    BY <2>1
  <2> QED
    BY <1>3, <2>2 DEF ParseInv, FieldsKept
<1>5. ASSUME NEW s \in DOMAIN msg.serializers
      PROVE  LET name == msg.serializers[s].name
                 last == LastDefinition(name)
             IN  /\ name \in DOMAIN serializer_map
                 /\ serializer_map[name] =
                      [def |-> last,
                       fields |-> [i \in DOMAIN msg.serializers[last].fields |-> NewField(ProtoOf(last, i))]]
  <2> DEFINE name == msg.serializers[s].name
             last == LastDefinition(name)
  <2>1. name \in DOMAIN serializer_map
    BY <1>3 DEF ParseInv, SerializersKept
  <2>2. PICK d \in DOMAIN msg.serializers : IsKept(name, d)
    BY <2>1 DEF ParseInv, SerializersKept
  <2>3. s \in Definitions(name)
    BY DEF Definitions
  <2> HIDE DEF name
  <2>4. last \in Definitions(name) /\ \A t \in Definitions(name) : t <= last
    BY <1>1, <2>3, LastDefinitionIs
  <2>5. \A t \in Definitions(name) : t \in DOMAIN msg.serializers
    BY DEF Definitions
  <2> HIDE DEF last
  <2>6. d = last
    <3>1. last \in Nat /\ d \in Nat /\ last < serializer
      BY <1>2, <1>3, <2>4, <2>5
    <3>2. last <= d /\ d <= last
      BY <2>2, <2>4, <3>1 DEF IsKept
    <3> QED
      BY <3>1, <3>2
  <2>7. serializer_map[name] = [def |-> last, fields |-> FieldsBefore(last, Len(msg.serializers[last].fields))]
    BY <2>2, <2>6 DEF IsKept
  <2>8. last \in DOMAIN msg.serializers
    BY <2>4, <2>5
  <2>9. ASSUME NEW i \in DOMAIN msg.serializers[last].fields
        PROVE  field_map[msg.serializers[last].fields[i]] = NewField(ProtoOf(last, i))
    <3>1. msg.serializers[last].fields[i] \in DOMAIN field_map
      BY <1>3, <2>8 DEF ParseInv, FieldsKept
    <3> QED
      BY <3>1 DEF ParseInv, FieldsCurrent, ProtoOf
  <2>10. FieldsBefore(last, Len(msg.serializers[last].fields))
           = [i \in DOMAIN msg.serializers[last].fields |-> NewField(ProtoOf(last, i))]
    BY <1>2, <2>8, <2>9 DEF FieldsBefore
  <2> QED
    BY <2>1, <2>7, <2>10 DEF name, last
<1> QED
  BY <1>4, <1>5 DEF Complete

\* A new field depends on no more than its serializer.
LEMMA NewFieldKept ==
  ASSUME NEW proto, ByName(proto.ser)' = ByName(proto.ser)
  PROVE  NewField(proto)' = NewField(proto)
<1>1. \A m : FieldSerializer(proto, m)' = FieldSerializer(proto, m)
  BY DEF FieldSerializer
<1> QED
  BY <1>1 DEF NewField

\* The fields up to the next one.
LEMMA AppendsTo ==
  ASSUME NEW n \in Nat \ {0}, NEW f, NEW g, f = [i \in 1 .. n - 1 |-> g[i]], g = [i \in 1 .. n |-> g[i]]
  PROVE  Append(f, g[n]) = g
<1> DEFINE S == {g[i] : i \in 1 .. n}
           e == g[n]
<1>1. \A i \in 1 .. n : g[i] \in S
  OBVIOUS
<1>2. n \in 1 .. n /\ \A i \in 1 .. n - 1 : i \in 1 .. n
  OBVIOUS
<1>3. e \in S
  BY <1>1, <1>2
<1> HIDE DEF S, e
<1>4. f \in [1 .. n - 1 -> S] /\ g \in [1 .. n -> S] /\ n - 1 \in Nat
  BY <1>1, <1>2
<1>5. f \in Seq(S) /\ Len(f) = n - 1 /\ g \in Seq(S) /\ Len(g) = n
  BY <1>4
<1>6. /\ Append(f, e) \in Seq(S) /\ Len(Append(f, e)) = n /\ Append(f, e)[n] = e
      /\ \A i \in 1 .. n - 1 : Append(f, e)[i] = f[i]
  <2>1. /\ Append(f, e) \in Seq(S) /\ Len(Append(f, e)) = Len(f) + 1 /\ Append(f, e)[Len(f) + 1] = e
        /\ \A i \in 1 .. Len(f) : Append(f, e)[i] = f[i]
    BY <1>3, <1>5, AppendProperties
  <2> QED
    BY <1>5, <2>1
<1>7. \A i \in 1 .. n : Append(f, e)[i] = g[i]
  <2> SUFFICES ASSUME NEW i \in 1 .. n PROVE Append(f, e)[i] = g[i]
    OBVIOUS
  <2>1. i \in 1 .. n - 1 \/ i = n
    OBVIOUS
  <2> QED
    BY <1>6, <2>1 DEF e
<1>8. Append(f, e) = g
  BY <1>5, <1>6, <1>7, SeqEqual
<1> QED
  BY <1>8 DEF e

\* It holds before the parser begins.
LEMMA ParseInit == ASSUME FieldsInit PROVE ParseInv
<1>1. Announcement(msg) /\ msg \in Messages
  BY MessageIs DEF FieldsInit
<1>2. Len(msg.serializers) \in Nat /\ DOMAIN msg.serializers = 1 .. Len(msg.serializers)
      /\ \A s \in DOMAIN msg.serializers : Len(msg.serializers[s].fields) \in Nat
  BY <1>1, MessageTyped
<1>3. DOMAIN field_map = {} /\ DOMAIN serializer_map = {} /\ 1 .. serializer - 1 = {} /\ 1 .. field - 1 = {}
  BY DEF FieldsInit
<1>4. Position
  <2>1. parsed_fields = FieldsBefore(serializer, field - 1)
    BY <1>3 DEF FieldsInit, FieldsBefore
  <2> QED
    BY <1>2, <1>3, <2>1 DEF FieldsInit, Position, Current
<1> QED
  BY <1>1, <1>3, <1>4 DEF ParseInv, FieldsKept, SerializersKept, FieldsCurrent

\* It is kept by what changes no variable of the parser.
LEMMA ParseStays == ASSUME ParseInv, UNCHANGED <<msg, parseVars>> PROVE ParseInv'
<1>1. msg' = msg /\ serializer' = serializer /\ field' = field /\ parsed_fields' = parsed_fields
      /\ field_map' = field_map /\ serializer_map' = serializer_map
  BY DEF parseVars
<1>2. \A s, n : FieldsBefore(s, n)' = FieldsBefore(s, n)
  BY <1>1 DEF FieldsBefore
<1>3. Position'
  BY <1>1, <1>2 DEF ParseInv, Position, Current
<1>4. FieldsKept'
  BY <1>1 DEF ParseInv, FieldsKept
<1>5. SerializersKept'
  <2>1. \A name, d : IsKept(name, d)' <=> IsKept(name, d)
    BY <1>1, <1>2 DEF IsKept, Definitions
  <2> QED
    BY <1>1, <2>1 DEF ParseInv, SerializersKept
<1>6. FieldsCurrent'
  <2>1. Usual' = Usual /\ Ordered' = Ordered
    BY <1>1 DEF Usual, Ordered, Plain, Uses, Definitions
  <2>2. \A ser : ByName(ser)' = ByName(ser)
    BY <1>1 DEF ByName
  <2>3. \A proto : NewField(proto)' = NewField(proto)
    BY <2>2, NewFieldKept
  <2> QED
    BY <1>1, <2>1, <2>3 DEF ParseInv, FieldsCurrent, UsedBefore
<1> QED
  BY <1>1, <1>3, <1>4, <1>5, <1>6 DEF ParseInv

\* What a field that is kept says stays, while others come.
LEMMA ParsingIs ==
  ASSUME ParseInv, Parsing, field <= Len(Current.fields)
  PROVE  /\ serializer \in DOMAIN msg.serializers /\ field \in Nat \ {0}
         /\ field \in DOMAIN Current.fields /\ Current.fields[field] \in DOMAIN msg.fields
         /\ parsed_fields = FieldsBefore(serializer, field - 1)
         /\ \A i \in 1 .. field - 1 : Current.fields[i] \in DOMAIN field_map
         /\ Len(Current.fields) \in Nat
<1>1. Announcement(msg)
  BY MessageIs DEF ParseInv
<1>2. serializer \in DOMAIN msg.serializers
  BY <1>1, MessageTyped DEF ParseInv, Position, Parsing
<1>3. /\ Len(Current.fields) \in Nat /\ DOMAIN Current.fields = 1 .. Len(Current.fields)
      /\ \A i \in DOMAIN Current.fields : Current.fields[i] \in DOMAIN msg.fields
  BY <1>1, <1>2, MessageTyped DEF Current
<1>4. /\ field \in 1 .. Len(Current.fields) + 1
      /\ parsed_fields = FieldsBefore(serializer, field - 1)
      /\ \A i \in 1 .. field - 1 : Current.fields[i] \in DOMAIN field_map
  BY DEF ParseInv, Position, Parsing
<1>5. field \in Nat \ {0} /\ field \in DOMAIN Current.fields
  BY <1>3, <1>4
<1> QED
  BY <1>2, <1>3, <1>4, <1>5

\* It is kept by the steps of the parser.
LEMMA ReuseKeeps == ASSUME ParseInv, ReuseField PROVE ParseInv'
<1>1. /\ msg' = msg /\ serializer' = serializer /\ field' = field + 1
      /\ field_map' = field_map /\ serializer_map' = serializer_map
      /\ parsed_fields' = Append(parsed_fields, field_map[Current.fields[field]])
      /\ Parsing /\ field <= Len(Current.fields) /\ Current.fields[field] \in DOMAIN field_map
  BY DEF ReuseField
<1>2. /\ serializer \in DOMAIN msg.serializers /\ field \in Nat \ {0}
      /\ parsed_fields = FieldsBefore(serializer, field - 1)
      /\ \A i \in 1 .. field - 1 : Current.fields[i] \in DOMAIN field_map
      /\ Len(Current.fields) \in Nat
  BY <1>1, ParsingIs
<1>3. \A s, n : FieldsBefore(s, n)' = FieldsBefore(s, n)
  BY <1>1 DEF FieldsBefore
<1>4. Position'
  <2>1. parsed_fields' = FieldsBefore(serializer, field)
    <3> DEFINE f == FieldsBefore(serializer, field - 1)
               g == FieldsBefore(serializer, field)
    <3>1. g[field] = field_map[Current.fields[field]]
      <4>1. field \in 1 .. field
        BY <1>2
      <4> QED
        BY <4>1 DEF FieldsBefore, Current
    <3>2. f = [i \in 1 .. field - 1 |-> g[i]] /\ g = [i \in 1 .. field |-> g[i]]
      <4>1. \A i \in 1 .. field - 1 : i \in 1 .. field
        BY <1>2
      <4> QED
        BY <4>1 DEF FieldsBefore
    <3> HIDE DEF f, g
    <3>3. Append(f, g[field]) = g
      BY <1>2, <3>2, AppendsTo
    <3> QED
      BY <1>1, <1>2, <3>1, <3>3 DEF f, g
  <2>2. \A i \in 1 .. field : Current.fields[i] \in DOMAIN field_map
    <3> SUFFICES ASSUME NEW i \in 1 .. field PROVE Current.fields[i] \in DOMAIN field_map
      OBVIOUS
    <3>1. i = field \/ i \in 1 .. field - 1
      BY <1>2
    <3> QED
      BY <1>1, <1>2, <3>1
  <2>3. field' - 1 = field /\ field' \in 1 .. Len(Current.fields) + 1
    BY <1>1, <1>2
  <2>4. Current' = Current
    BY <1>1 DEF Current
  <2>5. serializer' \in 1 .. Len(msg'.serializers) + 1
    BY <1>1 DEF ParseInv, Position
  <2>7. parsed_fields' = [i \in 1 .. field' - 1 |-> field_map'[msg'.serializers[serializer'].fields[i]]]
    BY <1>1, <2>1, <2>3 DEF FieldsBefore
  <2>8. \A i \in 1 .. field' - 1 : Current'.fields[i] \in DOMAIN field_map'
    BY <1>1, <2>2, <2>3, <2>4
  <2> QED
    BY <2>3, <2>4, <2>5, <2>7, <2>8 DEF Position, FieldsBefore
<1>5. FieldsKept'
  BY <1>1 DEF ParseInv, FieldsKept
<1>6. SerializersKept'
  <2>1. \A name, d : IsKept(name, d)' <=> IsKept(name, d)
    BY <1>1, <1>3 DEF IsKept, Definitions
  <2> QED
    BY <1>1, <2>1 DEF ParseInv, SerializersKept
<1>7. FieldsCurrent'
  <2>1. Ordered' = Ordered
    BY <1>1 DEF Ordered, Uses, Definitions
  <2>2. \A ser : ByName(ser)' = ByName(ser)
    BY <1>1 DEF ByName
  <2>3. \A proto : NewField(proto)' = NewField(proto)
    BY <2>2, NewFieldKept
  <2> QED
    BY <1>1, <2>1, <2>3 DEF ParseInv, FieldsCurrent, UsedBefore
<1> QED
  BY <1>1, <1>4, <1>5, <1>6, <1>7 DEF ParseInv

LEMMA ParseKeeps == ASSUME ParseInv, ParseField PROVE ParseInv'
<1>0. PICK index : index = Current.fields[field]
  OBVIOUS
<1> DEFINE new == NewField(msg.fields[index])
<1>1. CASE Broken(new.metadata.decoder)
  <2>1. UNCHANGED <<msg, parseVars>>
    BY <1>0, <1>1 DEF ParseField, parseVars
  <2> QED
    BY <2>1, ParseStays
<1>2. CASE ~Broken(new.metadata.decoder)
  <2>1. /\ msg' = msg /\ serializer' = serializer /\ field' = field + 1
        /\ serializer_map' = serializer_map
        /\ Parsing /\ field <= Len(Current.fields) /\ index \notin DOMAIN field_map
        /\ field_map' = Put(field_map, index, new)
        /\ parsed_fields' = Append(parsed_fields, new)
    BY <1>0, <1>2 DEF ParseField
  <2>2. /\ serializer \in DOMAIN msg.serializers /\ field \in Nat \ {0}
        /\ field \in DOMAIN Current.fields /\ index \in DOMAIN msg.fields
        /\ parsed_fields = FieldsBefore(serializer, field - 1)
        /\ \A i \in 1 .. field - 1 : Current.fields[i] \in DOMAIN field_map
        /\ Len(Current.fields) \in Nat
    BY <1>0, <2>1, ParsingIs
  <2>3. GetFieldMetadata(msg.fields[index]) = new.metadata
    BY DEF NewField, Field
  <2>4. \A ser : ByName(ser)' = ByName(ser)
    BY <2>1 DEF ByName
  <2>5. \A proto : NewField(proto)' = NewField(proto)
    BY <2>4, NewFieldKept
  <2>6. /\ DOMAIN field_map' = DOMAIN field_map \union {index} /\ field_map'[index] = new
        /\ \A k \in DOMAIN field_map : field_map'[k] = field_map[k]
    <3> HIDE DEF new
    <3> QED
      BY <2>1 DEF Put
  <2>7. Current' = Current
    BY <2>1 DEF Current
  <2>9. Position'
    <3> HIDE DEF new
    <3>1. parsed_fields = [i \in 1 .. field - 1 |-> field_map'[msg'.serializers[serializer'].fields[i]]]
      <4>1. \A i \in 1 .. field - 1 :
              field_map'[msg.serializers[serializer].fields[i]] = field_map[msg.serializers[serializer].fields[i]]
        BY <2>2, <2>6 DEF Current
      <4> QED
        BY <2>1, <2>2, <4>1 DEF FieldsBefore
    <3>2. \A i \in 1 .. field : Current.fields[i] \in DOMAIN field_map'
      <4> SUFFICES ASSUME NEW i \in 1 .. field PROVE Current.fields[i] \in DOMAIN field_map'
        OBVIOUS
      <4>1. i = field \/ i \in 1 .. field - 1
        BY <2>2
      <4> QED
        BY <1>0, <2>2, <2>6, <4>1
    <3>3. parsed_fields' = [i \in 1 .. field |-> field_map'[msg'.serializers[serializer'].fields[i]]]
      <4> DEFINE f == parsed_fields
                 g == [i \in 1 .. field |-> field_map'[msg'.serializers[serializer'].fields[i]]]
                 S == {g[i] : i \in 1 .. field}
      <4>1. f = [i \in 1 .. field - 1 |-> field_map'[msg'.serializers[serializer'].fields[i]]]
        BY <3>1
      <4>2. f = [i \in 1 .. field - 1 |-> g[i]] /\ g = [i \in 1 .. field |-> g[i]] /\ g[field] = new
        <5>1. \A i \in 1 .. field - 1 : i \in 1 .. field
          BY <2>2
        <5>2. field \in 1 .. field
          BY <2>2
        <5> QED
          BY <1>0, <2>1, <2>6, <4>1, <5>1, <5>2 DEF Current
      <4> HIDE DEF f, g
      <4>3. Append(f, new) = g
        BY <2>2, <4>2, AppendsTo
      <4> QED
        BY <2>1, <4>3 DEF f, g
    <3>4. field' - 1 = field /\ field' \in 1 .. Len(Current.fields) + 1
      BY <2>1, <2>2
    <3>5. serializer' \in 1 .. Len(msg'.serializers) + 1
      BY <2>1 DEF ParseInv, Position
    <3>6. parsed_fields' = [i \in 1 .. field' - 1 |-> field_map'[msg'.serializers[serializer'].fields[i]]]
      BY <3>3, <3>4
    <3>7. \A i \in 1 .. field' - 1 : Current'.fields[i] \in DOMAIN field_map'
      BY <2>7, <3>2, <3>4
    <3> QED
      BY <2>7, <3>4, <3>5, <3>6, <3>7 DEF Position, FieldsBefore
  <2>10. FieldsKept'
    <3> HIDE DEF new
    <3> QED
      BY <1>2, <2>1, <2>2, <2>3, <2>6 DEF ParseInv, FieldsKept
  <2>11. SerializersKept'
    <3>1. ASSUME NEW name, NEW d \in DOMAIN msg.serializers, IsKept(name, d) PROVE IsKept(name, d)'
      <4>1. d \in 1 .. serializer - 1
        BY <2>2, <3>1, MessageIs, MessageTyped DEF IsKept, ParseInv
      <4>2. Len(msg.serializers[d].fields) \in Nat
            /\ DOMAIN msg.serializers[d].fields = 1 .. Len(msg.serializers[d].fields)
        BY MessageIs, MessageTyped DEF ParseInv
      <4>3. FieldsBefore(d, Len(msg.serializers[d].fields))' = FieldsBefore(d, Len(msg.serializers[d].fields))
        <5>1. \A i \in 1 .. Len(msg.serializers[d].fields) : msg.serializers[d].fields[i] \in DOMAIN field_map
          BY <4>1, <4>2 DEF ParseInv, FieldsKept
        <5>2. \A i \in 1 .. Len(msg.serializers[d].fields) :
                field_map'[msg.serializers[d].fields[i]] = field_map[msg.serializers[d].fields[i]]
          BY <2>6, <5>1
        <5> QED
          BY <2>1, <5>2 DEF FieldsBefore
      <4> QED
        BY <2>1, <3>1, <4>3 DEF IsKept, Definitions
    <3> QED
      BY <2>1, <3>1 DEF ParseInv, SerializersKept
  <2>12. FieldsCurrent'
    <3>1. Ordered' = Ordered
      BY <2>1 DEF Ordered, Uses, Definitions
    <3>2. UsedBefore(index)'
      <4>1. serializer <= serializer
        BY <2>2, MessageIs, MessageTyped DEF ParseInv
      <4> QED
        BY <1>0, <2>1, <2>2, <4>1 DEF UsedBefore, Current
    <3>3. \A k : UsedBefore(k) => UsedBefore(k)'
      BY <2>1 DEF UsedBefore
    <3>4. ASSUME Ordered, NEW k \in DOMAIN field_map'
          PROVE  field_map'[k] = NewField(msg.fields[k])' /\ UsedBefore(k)'
      <4>1. CASE k = index
        BY <2>1, <2>5, <2>6, <3>2, <4>1
      <4>2. CASE k # index
        <5>1. k \in DOMAIN field_map /\ field_map'[k] = field_map[k]
          BY <2>6, <4>2
        <5> QED
          BY <2>1, <2>5, <3>3, <3>4, <5>1 DEF ParseInv, FieldsCurrent
      <4> QED
        BY <4>1, <4>2
    <3> QED
      BY <3>1, <3>4 DEF FieldsCurrent
  <2> QED
    BY <2>1, <2>9, <2>10, <2>11, <2>12 DEF ParseInv
<1> QED
  BY <1>1, <1>2

LEMMA FinishKeeps == ASSUME ParseInv, FinishSerializer PROVE ParseInv'
<1>0. PICK ser, here : ser = Current.name /\ here = serializer
  OBVIOUS
<1>1. /\ msg' = msg /\ serializer' = serializer + 1 /\ field' = 1 /\ parsed_fields' = <<>>
      /\ field_map' = field_map /\ Parsing /\ field > Len(Current.fields)
      /\ serializer_map' = Put(serializer_map, ser, [def |-> serializer, fields |-> parsed_fields])
  BY <1>0 DEF FinishSerializer
<1>2. Announcement(msg)
  BY MessageIs DEF ParseInv
<1>3. /\ Len(msg.serializers) \in Nat /\ DOMAIN msg.serializers = 1 .. Len(msg.serializers)
      /\ \A s \in DOMAIN msg.serializers :
           /\ Len(msg.serializers[s].fields) \in Nat
           /\ DOMAIN msg.serializers[s].fields = 1 .. Len(msg.serializers[s].fields)
           /\ msg.serializers[s].name # NoSymbol
  BY <1>2, MessageTyped
<1>4. serializer \in Nat \ {0} /\ serializer <= Len(msg.serializers) /\ serializer \in DOMAIN msg.serializers
  BY <1>1, <1>3 DEF ParseInv, Position, Parsing
<1>5. /\ field - 1 = Len(Current.fields)
      /\ parsed_fields = FieldsBefore(serializer, Len(msg.serializers[serializer].fields))
      /\ \A i \in DOMAIN msg.serializers[serializer].fields : msg.serializers[serializer].fields[i] \in DOMAIN field_map
  <2>1. /\ field \in 1 .. Len(Current.fields) + 1 /\ parsed_fields = FieldsBefore(serializer, field - 1)
        /\ \A i \in 1 .. field - 1 : Current.fields[i] \in DOMAIN field_map
    BY <1>4 DEF ParseInv, Position
  <2>2. Len(Current.fields) \in Nat
    BY <1>3, <1>4 DEF Current
  <2>3. field - 1 = Len(Current.fields)
    BY <1>1, <2>1, <2>2
  <2> QED
    BY <1>3, <1>4, <2>1, <2>3 DEF Current
<1>6. /\ DOMAIN serializer_map' = DOMAIN serializer_map \union {ser}
      /\ serializer_map'[ser] = [def |-> serializer, fields |-> parsed_fields]
      /\ \A n \in DOMAIN serializer_map : n # ser => serializer_map'[n] = serializer_map[n]
  BY <1>1 DEF Put
<1>7. \A s, n : FieldsBefore(s, n)' = FieldsBefore(s, n)
  BY <1>1 DEF FieldsBefore
<1>8. ser = msg.serializers[serializer].name
  BY <1>0 DEF Current
<1>9. serializer' - 1 = serializer /\ \A t : t \in 1 .. serializer <=> t \in 1 .. serializer - 1 \/ t = serializer
  BY <1>1, <1>4
<1>10. Position'
  <2>1. serializer' \in 1 .. Len(msg'.serializers) + 1
    BY <1>1, <1>3, <1>4
  <2>2. field' - 1 = 0 /\ 1 .. 0 = {}
    BY <1>1
  <2>3. parsed_fields' = [i \in 1 .. field' - 1 |-> field_map'[msg'.serializers[serializer'].fields[i]]]
    BY <1>1, <2>2
  <2>4. serializer' <= Len(msg'.serializers) => field' \in 1 .. Len(Current'.fields) + 1
    <3> SUFFICES ASSUME serializer + 1 <= Len(msg.serializers) PROVE field' \in 1 .. Len(Current'.fields) + 1
      BY <1>1
    <3>1. serializer + 1 \in DOMAIN msg.serializers
      BY <1>3, <1>4
    <3>2. Len(Current'.fields) \in Nat
      BY <1>1, <1>3, <3>1 DEF Current
    <3> QED
      BY <1>1, <3>2
  <2> QED
    BY <2>1, <2>2, <2>3, <2>4 DEF Position, FieldsBefore
<1>11. FieldsKept'
  BY <1>1, <1>5, <1>9 DEF ParseInv, FieldsKept
<1>12. SerializersKept'
  <2>1. DOMAIN serializer_map' = {msg.serializers[t].name : t \in 1 .. serializer}
    BY <1>6, <1>8, <1>9 DEF ParseInv, SerializersKept
  <2>2. \A n : Definitions(n)' = Definitions(n)
    BY <1>1 DEF Definitions
  <2>3. \A n : \A t \in Definitions(n) : t \in Nat /\ t \in DOMAIN msg.serializers
    BY <1>3 DEF Definitions
  <2>4. IsKept(ser, here)'
    <3>1. here \in Definitions(ser)
      BY <1>0, <1>4, <1>8 DEF Definitions
    <3>2. here < serializer + 1 /\ \A t \in Definitions(ser) : t < serializer + 1 => t <= here
      BY <1>0, <1>4, <2>3
    <3>3. PICK n : n = Len(msg.serializers[here].fields)
      OBVIOUS
    <3>4. serializer_map'[ser] = [def |-> here, fields |-> FieldsBefore(here, n)]
      BY <1>0, <1>5, <1>6, <3>3
    <3>5. serializer_map'[ser] = [def |-> here, fields |-> FieldsBefore(here, n)']
      BY <1>7, <3>4
    <3> QED
      BY <1>1, <2>2, <3>1, <3>2, <3>3, <3>5 DEF IsKept
  <2>5. ASSUME NEW n \in DOMAIN serializer_map, n # ser, NEW d \in DOMAIN msg.serializers, IsKept(n, d)
        PROVE  IsKept(n, d)'
    <3>1. serializer \notin Definitions(n)
      BY <1>8, <2>5 DEF Definitions
    <3>2. d < serializer + 1 /\ \A t \in Definitions(n) : t < serializer + 1 => t <= d
      BY <1>3, <1>4, <2>3, <2>5, <3>1 DEF IsKept
    <3>3. PICK m : m = Len(msg.serializers[d].fields)
      OBVIOUS
    <3>4. serializer_map'[n] = [def |-> d, fields |-> FieldsBefore(d, m)']
      BY <1>6, <1>7, <2>5, <3>3 DEF IsKept
    <3>5. d \in Definitions(n)
      BY <2>5 DEF IsKept
    <3> QED
      BY <1>1, <2>2, <3>2, <3>3, <3>4, <3>5 DEF IsKept
  <2>6. ASSUME NEW n \in DOMAIN serializer_map' PROVE \E d \in DOMAIN msg.serializers : IsKept(n, d)'
    <3>1. CASE n = ser
      BY <1>0, <1>4, <2>4, <3>1
    <3>2. CASE n # ser
      <4>1. n \in DOMAIN serializer_map
        BY <1>6, <3>2
      <4>2. PICK d \in DOMAIN msg.serializers : IsKept(n, d)
        BY <4>1 DEF ParseInv, SerializersKept
      <4> QED
        BY <2>5, <3>2, <4>1, <4>2
    <3> QED
      BY <3>1, <3>2
  <2> QED
    BY <1>1, <1>9, <2>1, <2>6 DEF SerializersKept
<1>13. FieldsCurrent'
  <2>1. Ordered' = Ordered
    BY <1>1 DEF Ordered, Uses, Definitions
  <2>2. \A n : n # ser => ByName(n)' = ByName(n)
    BY <1>6 DEF ByName
  <2>3. ASSUME Ordered, NEW k \in DOMAIN field_map
        PROVE  field_map[k] = NewField(msg.fields[k])' /\ UsedBefore(k)'
    <3>1. field_map[k] = NewField(msg.fields[k]) /\ UsedBefore(k)
      BY <2>3 DEF ParseInv, FieldsCurrent
    <3>2. PICK s \in DOMAIN msg.serializers : s <= serializer
            /\ \E i \in DOMAIN msg.serializers[s].fields : k = msg.serializers[s].fields[i]
      BY <3>1 DEF UsedBefore
    <3>3. UsedBefore(k)'
      <4>1. s <= serializer + 1
        BY <1>3, <1>4, <3>2
      <4> QED
        BY <1>1, <3>2, <4>1 DEF UsedBefore
    <3>4. msg.fields[k].ser # ser
      <4> SUFFICES ASSUME msg.fields[k].ser = ser PROVE FALSE
        OBVIOUS
      <4>1. msg.fields[k] \in Uses(s)
        BY <3>2 DEF Uses
      <4>2. msg.fields[k].ser # NoSymbol
        BY <1>3, <1>4, <1>8
      <4>3. \A d \in Definitions(msg.fields[k].ser) : d < s
        BY <2>3, <4>1, <4>2 DEF Ordered
      <4>4. serializer \in Definitions(msg.fields[k].ser)
        BY <1>4, <1>8 DEF Definitions
      <4>5. serializer < s
        BY <4>3, <4>4
      <4> QED
        BY <1>3, <1>4, <3>2, <4>5
    <3>5. ByName(msg.fields[k].ser)' = ByName(msg.fields[k].ser)
      BY <1>1, <2>2, <3>4
    <3>6. \A proto : proto.ser # ser => NewField(proto)' = NewField(proto)
      BY <2>2, NewFieldKept
    <3>7. NewField(msg.fields[k])' = NewField(msg.fields[k])
      BY <1>1, <3>4, <3>6
    <3> QED
      BY <3>1, <3>3, <3>7
  <2> QED
    BY <1>1, <2>1, <2>3 DEF FieldsCurrent
<1> QED
  BY <1>1, <1>10, <1>11, <1>12, <1>13 DEF ParseInv

-----------------------------------------------------------------------------
(* Entities.                                                                *)

\* The invariant of entities: with a usual message, every one of them, and the
\* baseline, is what was sent to it.
EntityInv ==
  /\ phase \in {"serializers", "entities", "failed", "undefined"}
  /\ phase \in {"entities", "undefined"} => serializer > Len(msg.serializers)
  /\ phase \in {"serializers", "failed"} => entities = <<>> /\ baseline = <<>>
  /\ UncheckedChildSound
  /\ DOMAIN entities \subseteq Indexes
  /\ Usual =>
       /\ \A index \in DOMAIN entities : index \in DOMAIN sent /\ Reflects(entities[index], sent[index])
       /\ baseline # <<>> => "baseline" \in DOMAIN sent /\ Reflects(baseline[1], sent["baseline"])

\* The inductive invariant.
FieldsInv == ParseInv /\ EntityInv

\* While there are entities, the parser is done.
LEMMA AllParsed ==
  ASSUME FieldsInv, Usual, phase \in {"entities", "undefined"}
  PROVE  Announcement(msg) /\ Plain /\ Complete
<1>1. Announcement(msg)
  BY MessageIs DEF FieldsInv, ParseInv
<1>2. ParseInv /\ Ordered /\ serializer > Len(msg.serializers)
  BY DEF FieldsInv, EntityInv, Usual
<1>3. Complete
  BY <1>2, FieldsDone
<1> QED
  BY <1>1, <1>3 DEF Usual

\* The invariant of entities is kept by the steps of the parser.
LEMMA EntityStays ==
  ASSUME EntityInv, UNCHANGED <<msg, entityVars>>,
         phase' = phase \/ (phase = "serializers" /\ phase' = "failed"),
         phase \in {"entities", "undefined"} => serializer' = serializer
  PROVE  EntityInv'
<1>1. msg' = msg /\ entities' = entities /\ baseline' = baseline /\ sent' = sent
  BY DEF entityVars
<1>2. Usual' = Usual
  BY <1>1, MsgKept
<1>3. \A f, s : Reflects(f, s) => Reflects(f, s)'
  BY <1>1, ReflectsKept
<1>4. Usual' => /\ \A index \in DOMAIN entities' :
                     index \in DOMAIN sent' /\ Reflects(entities[index], sent[index])'
                /\ baseline' # <<>> =>
                     "baseline" \in DOMAIN sent' /\ Reflects(baseline[1], sent["baseline"])'
  BY <1>1, <1>2, <1>3 DEF EntityInv
<1>5. UncheckedChildSound'
  BY <1>2 DEF EntityInv, UncheckedChildSound
<1> QED
  BY <1>1, <1>4, <1>5 DEF EntityInv

\* An entity starts with what the baseline has.
LEMMA CreatesFrom ==
  ASSUME FieldsInv, Usual, phase = "entities", NEW index \in Indexes, NEW data, NEW own \in Updates(data),
         NEW base, NEW sentBase, Reflects(base, sentBase),
         entities' = Put(entities, index, ParseEntity(base, serializer_map[Class], own)),
         sent' = Put(Put(sent, "baseline", sentBase), index, AfterSending(sentBase, own))
  PROVE  /\ DOMAIN entities' \subseteq Indexes
         /\ \A i \in DOMAIN entities' : i \in DOMAIN sent' /\ Reflects(entities'[i], sent'[i])
         /\ "baseline" \in DOMAIN sent' /\ sent'["baseline"] = sentBase
<1>1. PICK fields, state : /\ fields = ParseEntity(base, serializer_map[Class], own)
                           /\ state = AfterSending(sentBase, own)
  OBVIOUS
<1>2. Reflects(fields, state)
  BY <1>1, AllParsed, ParseReflects
<1>3. index # "baseline"
  BY FieldsAssumption
<1>4. /\ DOMAIN entities' = DOMAIN entities \union {index} /\ entities'[index] = fields
      /\ \A i \in DOMAIN entities : i # index => entities'[i] = entities[i]
  BY <1>1 DEF Put
<1>5. /\ DOMAIN sent' = DOMAIN sent \union {"baseline", index}
      /\ sent'[index] = state /\ sent'["baseline"] = sentBase
      /\ \A i \in DOMAIN sent : i \notin {"baseline", index} => sent'[i] = sent[i]
  BY <1>1, <1>3 DEF Put
<1>6. DOMAIN entities \subseteq Indexes
      /\ \A i \in DOMAIN entities : i \in DOMAIN sent /\ Reflects(entities[i], sent[i])
  BY DEF FieldsInv, EntityInv
<1>7. \A i \in DOMAIN entities : i # "baseline"
  BY <1>6, FieldsAssumption
<1>8. ASSUME NEW i \in DOMAIN entities' PROVE i \in DOMAIN sent' /\ Reflects(entities'[i], sent'[i])
  <2>1. CASE i = index
    BY <1>2, <1>4, <1>5, <2>1
  <2>2. CASE i # index
    BY <1>4, <1>5, <1>6, <1>7, <2>2
  <2> QED
    BY <2>1, <2>2
<1> QED
  BY <1>4, <1>5, <1>6, <1>8

\* What is left to show of a step that is taken for an entity.
LEMMA EntityStep ==
  ASSUME FieldsInv, phase = "entities", msg' = msg, serializer' = serializer,
         phase' = "entities" \/ (phase' = "undefined" /\ ~Usual),
         DOMAIN entities' \subseteq Indexes,
         Usual => /\ \A i \in DOMAIN entities' : i \in DOMAIN sent' /\ Reflects(entities'[i], sent'[i])
                  /\ baseline' # <<>> =>
                       "baseline" \in DOMAIN sent' /\ Reflects(baseline'[1], sent'["baseline"])
  PROVE  EntityInv'
<1>2. Usual' = Usual
  BY MsgKept
<1>3. \A f, s : Reflects(f, s) => Reflects(f, s)'
  BY ReflectsKept
<1>4. Usual' => /\ \A index \in DOMAIN entities' :
                     index \in DOMAIN sent' /\ Reflects(entities[index], sent[index])'
                /\ baseline' # <<>> =>
                     "baseline" \in DOMAIN sent' /\ Reflects(baseline[1], sent["baseline"])'
  BY <1>2, <1>3
<1>5. UncheckedChildSound'
  BY <1>2 DEF UncheckedChildSound
<1>6. serializer' > Len(msg'.serializers)
  BY DEF FieldsInv, EntityInv
<1> QED
  BY <1>4, <1>5, <1>6 DEF EntityInv

\* It is kept when an entity is created, from a baseline that was parsed before
\* or is parsed now,
LEMMA CreateKeeps ==
  ASSUME FieldsInv, NEW index \in Indexes, NEW data, NEW own \in Updates(data), HandleCreate(index, own)
  PROVE  EntityInv'
<1> DEFINE ser == serializer_map[Class]
           From(base, sentBase) ==
             /\ entities' = Put(entities, index, ParseEntity(base, ser, own))
             /\ sent' = Put(Put(sent, "baseline", sentBase), index, AfterSending(sentBase, own))
<1>1. phase = "entities" /\ msg' = msg /\ serializer' = serializer
  BY DEF HandleCreate, parseVars
<1>2. Usual => \A d : \A us \in Updates(d) : ~Undefined(ser, us)
  BY <1>1, AllParsed, UpdatesDefined
<1>3. \/ (\E d : \E us \in Updates(d) : Undefined(ser, us)) /\ phase' = "undefined" /\ UNCHANGED entityVars
      \/ baseline # <<>> /\ From(baseline[1], sent["baseline"]) /\ UNCHANGED <<phase, baseline>>
      \/ \E base \in Updates({0}) :
           /\ From(ParseEntity(<<>>, ser, base), AfterSending(<<>>, base))
           /\ baseline' = <<ParseEntity(<<>>, ser, base)>> /\ UNCHANGED phase
  <2> HIDE DEF ser
  <2>1. CASE Undefined(ser, own)
    BY <2>1 DEF HandleCreate, ser
  <2>2. CASE ~Undefined(ser, own) /\ baseline # <<>>
    BY <2>2 DEF HandleCreate, ser
  <2>3. CASE ~Undefined(ser, own) /\ ~(baseline # <<>>)
    BY <2>3 DEF HandleCreate, ser
  <2> QED
    BY <2>1, <2>2, <2>3
<1>4. CASE (\E d : \E us \in Updates(d) : Undefined(ser, us)) /\ phase' = "undefined" /\ UNCHANGED entityVars
  <2>1. ~Usual
    BY <1>2, <1>4
  <2>2. DOMAIN entities' \subseteq Indexes
    BY <1>4 DEF FieldsInv, EntityInv, entityVars
  <2> QED
    BY <1>1, <1>4, <2>1, <2>2, EntityStep
<1>5. CASE baseline # <<>> /\ From(baseline[1], sent["baseline"]) /\ UNCHANGED <<phase, baseline>>
  <2>1. DOMAIN entities' \subseteq Indexes
    BY <1>5 DEF FieldsInv, EntityInv, Put
  <2>2. ASSUME Usual
        PROVE  /\ \A i \in DOMAIN entities' : i \in DOMAIN sent' /\ Reflects(entities'[i], sent'[i])
               /\ "baseline" \in DOMAIN sent' /\ Reflects(baseline'[1], sent'["baseline"])
    <3>1. Reflects(baseline[1], sent["baseline"])
      BY <1>5, <2>2 DEF FieldsInv, EntityInv
    <3>2. PICK base, sentBase : base = baseline[1] /\ sentBase = sent["baseline"]
      OBVIOUS
    <3>3. /\ \A i \in DOMAIN entities' : i \in DOMAIN sent' /\ Reflects(entities'[i], sent'[i])
          /\ "baseline" \in DOMAIN sent' /\ sent'["baseline"] = sentBase
      BY <1>1, <1>5, <2>2, <3>1, <3>2, CreatesFrom
    <3> QED
      BY <1>5, <3>1, <3>2, <3>3
  <2> QED
    BY <1>1, <1>5, <2>1, <2>2, EntityStep
<1>6. ASSUME NEW base \in Updates({0}),
             From(ParseEntity(<<>>, ser, base), AfterSending(<<>>, base)),
             baseline' = <<ParseEntity(<<>>, ser, base)>>, UNCHANGED phase
      PROVE  EntityInv'
  <2>1. DOMAIN entities' \subseteq Indexes
    BY <1>6 DEF FieldsInv, EntityInv, Put
  <2>2. ASSUME Usual
        PROVE  /\ \A i \in DOMAIN entities' : i \in DOMAIN sent' /\ Reflects(entities'[i], sent'[i])
               /\ "baseline" \in DOMAIN sent' /\ Reflects(baseline'[1], sent'["baseline"])
    <3>1. PICK fields, state : fields = ParseEntity(<<>>, ser, base) /\ state = AfterSending(<<>>, base)
      OBVIOUS
    <3>2. Reflects(fields, state)
      BY <1>1, <2>2, <3>1, AllParsed, NothingReflects, ParseReflects
    <3>3. /\ \A i \in DOMAIN entities' : i \in DOMAIN sent' /\ Reflects(entities'[i], sent'[i])
          /\ "baseline" \in DOMAIN sent' /\ sent'["baseline"] = state
      BY <1>1, <1>6, <2>2, <3>1, <3>2, CreatesFrom
    <3>4. baseline'[1] = fields
      BY <1>6, <3>1
    <3> QED
      BY <3>2, <3>3, <3>4
  <2> QED
    BY <1>1, <1>6, <2>1, <2>2, EntityStep
<1> QED
  BY <1>3, <1>4, <1>5, <1>6

\* when it is updated,
LEMMA UpdateKeeps ==
  ASSUME FieldsInv, NEW index \in Indexes, NEW data, NEW own \in Updates(data), HandleUpdate(index, own)
  PROVE  EntityInv'
<1> DEFINE ser == serializer_map[Class]
<1>1. phase = "entities" /\ msg' = msg /\ serializer' = serializer /\ index \in DOMAIN entities
  BY DEF HandleUpdate, parseVars
<1>2. CASE Undefined(ser, own)
  <2>1. ~Usual
    BY <1>1, <1>2, AllParsed, UpdatesDefined
  <2>2. phase' = "undefined" /\ UNCHANGED entityVars
    BY <1>2 DEF HandleUpdate
  <2>3. DOMAIN entities' \subseteq Indexes
    BY <2>2 DEF FieldsInv, EntityInv, entityVars
  <2> QED
    BY <1>1, <2>1, <2>2, <2>3, EntityStep
<1>3. CASE ~Undefined(ser, own)
  <2>1. /\ entities' = [entities EXCEPT ![index] = ParseEntity(entities[index], ser, own)]
        /\ sent' = [sent EXCEPT ![index] = AfterSending(sent[index], own)]
        /\ UNCHANGED <<phase, baseline>>
    BY <1>3 DEF HandleUpdate
  <2>2. DOMAIN entities' = DOMAIN entities /\ DOMAIN sent' = DOMAIN sent
    BY <2>1
  <2>3. DOMAIN entities' \subseteq Indexes
    BY <2>2 DEF FieldsInv, EntityInv
  <2>4. ASSUME Usual
        PROVE  /\ \A i \in DOMAIN entities' : i \in DOMAIN sent' /\ Reflects(entities'[i], sent'[i])
               /\ baseline' # <<>> => "baseline" \in DOMAIN sent' /\ Reflects(baseline'[1], sent'["baseline"])
    <3>1. /\ \A i \in DOMAIN entities : i \in DOMAIN sent /\ Reflects(entities[i], sent[i])
          /\ baseline # <<>> => "baseline" \in DOMAIN sent /\ Reflects(baseline[1], sent["baseline"])
      BY <2>4 DEF FieldsInv, EntityInv
    <3>2. Reflects(ParseEntity(entities[index], ser, own), AfterSending(sent[index], own))
      BY <1>1, <2>4, <3>1, AllParsed, ParseReflects
    <3>3. index # "baseline"
      BY FieldsAssumption
    <3> HIDE DEF ser
    <3>4. /\ entities'[index] = ParseEntity(entities[index], ser, own)
          /\ sent'[index] = AfterSending(sent[index], own)
          /\ \A i \in DOMAIN entities : i # index => entities'[i] = entities[i]
          /\ \A i \in DOMAIN sent : i # index => sent'[i] = sent[i]
      BY <1>1, <2>1, <3>1
    <3> QED
      BY <2>1, <2>2, <3>1, <3>2, <3>3, <3>4
  <2> QED
    BY <1>1, <2>1, <2>3, <2>4, EntityStep
<1> QED
  BY <1>2, <1>3

\* and when it is deleted.
LEMMA DeleteKeeps ==
  ASSUME FieldsInv, NEW index \in Indexes, HandleDelete(index)
  PROVE  EntityInv'
<1>1. /\ phase = "entities" /\ msg' = msg /\ serializer' = serializer
      /\ phase' = phase /\ baseline' = baseline
      /\ entities' = [i \in DOMAIN entities \ {index} |-> entities[i]]
      /\ sent' = [i \in DOMAIN sent \ {index} |-> sent[i]]
  BY DEF HandleDelete, parseVars, Restrict
<1>2. index # "baseline"
  BY FieldsAssumption
<1>3. DOMAIN entities' \subseteq Indexes
  BY <1>1 DEF FieldsInv, EntityInv
<1>4. ASSUME Usual
      PROVE  /\ \A i \in DOMAIN entities' : i \in DOMAIN sent' /\ Reflects(entities'[i], sent'[i])
             /\ baseline' # <<>> => "baseline" \in DOMAIN sent' /\ Reflects(baseline'[1], sent'["baseline"])
  <2>1. /\ \A i \in DOMAIN entities : i \in DOMAIN sent /\ Reflects(entities[i], sent[i])
        /\ baseline # <<>> => "baseline" \in DOMAIN sent /\ Reflects(baseline[1], sent["baseline"])
    BY <1>4 DEF FieldsInv, EntityInv
  <2> QED
    BY <1>1, <1>2, <2>1
<1> QED
  BY <1>1, <1>3, <1>4, EntityStep

\* Parsing keeps all of this, and so do creating, updating and deleting entities.
THEOREM FieldsInvariant == FieldsSpec => []FieldsInv
<1>1. FieldsInit => FieldsInv
  <2> SUFFICES ASSUME FieldsInit PROVE FieldsInv
    OBVIOUS
  <2>1. ParseInv
    BY ParseInit
  <2>2. DOMAIN entities = {} /\ entities = <<>> /\ baseline = <<>> /\ phase = "serializers"
    BY DEF FieldsInit
  <2>3. EntityInv
    BY <2>2 DEF EntityInv, UncheckedChildSound
  <2> QED
    BY <2>1, <2>3 DEF FieldsInv
<1>2. FieldsInv /\ [FieldsNext]_fieldVars => FieldsInv'
  <2> SUFFICES ASSUME FieldsInv, [FieldsNext]_fieldVars PROVE FieldsInv'
    OBVIOUS
  <2>0. ParseInv /\ EntityInv
    BY DEF FieldsInv
  <2>1. CASE ReuseField
    <3>1. UNCHANGED <<msg, entityVars>> /\ phase' = phase /\ phase = "serializers"
      BY <2>1 DEF ReuseField, Parsing, entityVars
    <3> QED
      BY <2>0, <2>1, <3>1, ReuseKeeps, EntityStays DEF FieldsInv
  <2>2. CASE ParseField
    <3>1. UNCHANGED <<msg, entityVars>> /\ phase' \in {phase, "failed"} /\ phase = "serializers"
      BY <2>2 DEF ParseField, Parsing, entityVars
    <3> QED
      BY <2>0, <2>2, <3>1, ParseKeeps, EntityStays DEF FieldsInv
  <2>3. CASE FinishSerializer
    <3>1. UNCHANGED <<msg, entityVars>> /\ phase' = phase /\ phase = "serializers"
      BY <2>3 DEF FinishSerializer, Parsing, entityVars
    <3> QED
      BY <2>0, <2>3, <3>1, FinishKeeps, EntityStays DEF FieldsInv
  <2>4. CASE FinishParse
    <3>1. /\ UNCHANGED <<msg, parseVars>> /\ entities' = entities /\ baseline' = baseline
          /\ phase' = "entities" /\ phase = "serializers" /\ serializer > Len(msg.serializers)
          /\ serializer' = serializer /\ msg' = msg
      BY <2>4 DEF FinishParse, parseVars, entityVars
    <3>2. entities' = <<>> /\ baseline' = <<>>
      BY <2>0, <3>1 DEF EntityInv
    <3>3. DOMAIN entities' = {}
      BY <3>2
    <3>4. EntityInv'
      BY <3>1, <3>2, <3>3 DEF EntityInv, UncheckedChildSound
    <3> QED
      BY <2>0, <3>1, <3>4, ParseStays DEF FieldsInv
  <2>5. ASSUME NEW index \in Indexes, NEW own \in Updates(Data), HandleCreate(index, own) PROVE FieldsInv'
    <3>1. UNCHANGED <<msg, parseVars>>
      BY <2>5 DEF HandleCreate
    <3> QED
      BY <2>0, <2>5, <3>1, CreateKeeps, ParseStays DEF FieldsInv
  <2>6. ASSUME NEW index \in Indexes, NEW own \in Updates(Data), HandleUpdate(index, own) PROVE FieldsInv'
    <3>1. UNCHANGED <<msg, parseVars>>
      BY <2>6 DEF HandleUpdate
    <3> QED
      BY <2>0, <2>6, <3>1, UpdateKeeps, ParseStays DEF FieldsInv
  <2>7. ASSUME NEW index \in Indexes, HandleDelete(index) PROVE FieldsInv'
    <3>1. UNCHANGED <<msg, parseVars>>
      BY <2>7 DEF HandleDelete
    <3> QED
      BY <2>0, <2>7, <3>1, DeleteKeeps, ParseStays DEF FieldsInv
  <2>8. CASE UNCHANGED fieldVars
    <3>1. UNCHANGED <<msg, parseVars>> /\ UNCHANGED <<msg, entityVars>> /\ phase' = phase /\ serializer' = serializer
      BY <2>8 DEF fieldVars, parseVars
    <3> QED
      BY <2>0, <3>1, ParseStays, EntityStays DEF FieldsInv
  <2> QED
    BY <2>1, <2>2, <2>3, <2>4, <2>5, <2>6, <2>7, <2>8 DEF FieldsNext
<1> QED
  BY <1>1, <1>2, PTL DEF FieldsSpec

\* The variables have their types, and what is kept of serializers and fields is
\* what the message has, for every message (flattenedserializers.rs:245-326).
THEOREM FieldsTyped == FieldsSpec => []FieldsOK
<1>1. FieldsInv => FieldsOK
  <2> SUFFICES ASSUME FieldsInv PROVE FieldsOK
    OBVIOUS
  <2>1. Announcement(msg)
    BY MessageIs DEF FieldsInv, ParseInv
  <2>2. ASSUME NEW name \in DOMAIN serializer_map
        PROVE  LET ser == serializer_map[name]
               IN  msg.serializers[ser.def].name = name
                   /\ Len(ser.fields) = Len(msg.serializers[ser.def].fields)
    <3>1. PICK d \in DOMAIN msg.serializers : IsKept(name, d)
      BY DEF FieldsInv, ParseInv, SerializersKept
    <3> DEFINE n == Len(msg.serializers[d].fields)
    <3>2. d \in Definitions(name) /\ serializer_map[name] = [def |-> d, fields |-> FieldsBefore(d, n)]
      BY <3>1 DEF IsKept
    <3>3. n \in Nat
      BY <2>1, MessageTyped
    <3> HIDE DEF n
    <3>4. Len(FieldsBefore(d, n)) = n
      BY <3>3 DEF FieldsBefore
    <3>5. msg.serializers[d].name = name
      BY <3>2 DEF Definitions
    <3> QED
      BY <3>2, <3>4, <3>5 DEF n
  <2> QED
    BY <2>2 DEF FieldsInv, ParseInv, EntityInv, FieldsKept, FieldsOK
<1> QED
  BY <1>1, FieldsInvariant, PTL

\* No path of a server that announces serializers before they are used, without
\* nested arrays, makes the code access a child that does not exist or decode
\* what has no value (flattenedserializers.rs:202-210; entities.rs:226-258).
THEOREM ChildrenExist == FieldsSpec => []UncheckedChildSound
<1>1. FieldsInv => UncheckedChildSound
  BY DEF FieldsInv, EntityInv
<1> QED
  BY <1>1, FieldsInvariant, PTL

-----------------------------------------------------------------------------
(* What a field descends into, for every message, usual or not.              *)

\* The serializer of a new field is the one that its name stands for, whatever
\* is nested in the field's type.
LEMMA NewNested ==
  ASSUME Announcement(msg), NEW proto \in Protos, proto.ser # NoSymbol,
         ~Broken(GetFieldMetadata(proto).decoder)
  PROVE  NestedSerializer(NewField(proto)) = ByName(proto.ser)
<1> DEFINE type == proto.type
           metadata == GetFieldMetadata(proto)
           named == ByName(proto.ser)
           new == NewField(proto)
<1>1. PICK inner : metadata = Visit(type, proto, inner)
  BY OuterVisits, FieldsAssumption DEF GetFieldMetadata
<1>2. type.kind \in Kinds /\ (type.kind = "Array" /\ type.len.kind = "Num" => type.len.num \in Nat \ {0})
  <2>1. PICK f \in DOMAIN msg.fields : proto = msg.fields[f]
    BY MessageTyped
  <2>2. WellFormed(type)
    BY <2>1 DEF Announcement
  <2> QED
    BY <2>1, <2>2, FieldsAssumption, WellFormedKinds DEF Announcement
<1>3. \A d, e : Metadata(d, e).decoder = e /\ Metadata(d, e).descriptor = d
  BY DEF Metadata
<1>4. /\ NoDescriptor.is = "none" /\ PointerDescriptor.is = "Pointer"
      /\ DynamicSerializerArray.is = "DynamicSerializerArray"
      /\ \A n : FixedArray(n).is = "FixedArray" /\ FixedArray(n).length = n
  BY DEF NoDescriptor, PointerDescriptor, DynamicSerializerArray, FixedArray
<1>5. \A ident : VisitIdent(ident, proto).descriptor \in {NoDescriptor, PointerDescriptor, DynamicSerializerArray}
  BY <1>3 DEF VisitIdent, VisitPointer
<1>6. VisitTemplate(type.expr, proto, inner).descriptor \in {NoDescriptor, PointerDescriptor, DynamicSerializerArray}
  BY <1>3, <1>5 DEF VisitTemplate
<1>7. \/ VisitArray(type.expr, type.len, proto, inner).descriptor = NoDescriptor
      \/ /\ KnownLength(type.len)
         /\ VisitArray(type.expr, type.len, proto, inner).descriptor = FixedArray(ArrayLength(type.len))
  BY <1>3 DEF VisitArray, Inside
<1>8. \/ metadata.descriptor \in {NoDescriptor, PointerDescriptor, DynamicSerializerArray}
      \/ /\ type.kind = "Array" /\ KnownLength(type.len)
         /\ metadata.descriptor = FixedArray(ArrayLength(type.len))
  <2>1. CASE type.kind = "Ident"
    BY <1>1, <1>5, <2>1 DEF Visit
  <2>2. CASE type.kind = "Template"
    BY <1>1, <1>6, <2>2 DEF Visit
  <2>3. CASE type.kind = "Array"
    BY <1>1, <1>7, <2>3 DEF Visit
  <2>4. CASE type.kind = "Pointer"
    BY <1>1, <1>3, <2>4 DEF Visit, VisitPointer
  <2> QED
    BY <1>2, <2>1, <2>2, <2>3, <2>4 DEF Kinds
<1>9. new.metadata = metadata /\ new.field_serializer = FieldSerializer(proto, metadata)
  BY DEF NewField, Field
<1>10. \A h, m, child : Field(h, m, child).field_serializer = child
  BY DEF Field
<1>11. \A fields : Unnamed(fields).fields = fields
  BY DEF Unnamed
<1> HIDE DEF new, metadata, named, type
<1>12. CASE metadata.descriptor \in {NoDescriptor, PointerDescriptor}
  <2>1. metadata.descriptor.is \notin {"FixedArray", "DynamicArray", "DynamicSerializerArray"}
    BY <1>4, <1>12
  <2>2. FieldSerializer(proto, metadata) = named
    BY <2>1 DEF FieldSerializer, named
  <2> QED
    BY <1>9, <2>1, <2>2 DEF NestedSerializer, new, named
<1>13. CASE metadata.descriptor = DynamicSerializerArray
  <2>1. metadata.descriptor.is = "DynamicSerializerArray"
    BY <1>4, <1>13
  <2> DEFINE element == Field(DefaultHash, DefaultMetadata, named)
  <2>2. FieldSerializer(proto, metadata) = Unnamed(<<element>>)
    BY <2>1 DEF FieldSerializer, named
  <2>3. element.field_serializer = named
    BY <1>10
  <2> HIDE DEF element
  <2>4. new.field_serializer.fields[1].field_serializer = named
    <3>1. new.field_serializer.fields = <<element>>
      BY <1>9, <1>11, <2>2
    <3> QED
      BY <2>3, <3>1
  <2> QED
    BY <1>9, <2>1, <2>4 DEF NestedSerializer, new, named
<1>14. CASE /\ type.kind = "Array" /\ KnownLength(type.len)
            /\ metadata.descriptor = FixedArray(ArrayLength(type.len))
  <2> DEFINE length == ArrayLength(type.len)
             element == Field(HashBytes(proto.name), metadata, named)
             elements == [i \in 1 .. length |-> element]
  <2>1. length \in Nat \ {0}
    <3>1. CASE type.len.kind = "Num"
      BY <1>2, <1>14, <3>1 DEF ArrayLength, type
    <3>2. CASE type.len.kind # "Num"
      BY <3>2 DEF ArrayLength
    <3> QED
      BY <3>1, <3>2
  <2>2. metadata.descriptor.is = "FixedArray" /\ metadata.descriptor.length = length
    BY <1>4, <1>14
  <2>3. FieldSerializer(proto, metadata) = Unnamed(elements)
    BY <2>2 DEF FieldSerializer, named
  <2>4. element.field_serializer = named
    BY <1>10
  <2> HIDE DEF length, element
  <2>5. elements[1] = element
    BY <2>1
  <2> HIDE DEF elements
  <2>6. new.field_serializer.fields[1].field_serializer = named
    BY <1>9, <1>11, <2>3, <2>4, <2>5
  <2> QED
    BY <1>9, <2>2, <2>6 DEF NestedSerializer, new, named
<1> QED
  BY <1>8, <1>12, <1>13, <1>14

\* A field that is kept has its name, and descends into what was newest when the
\* first serializer that has it was parsed.
FieldResolved(index) ==
  /\ field_map[index].var_name = HashBytes(msg.fields[index].name)
  /\ ResolvedWhenMet(field_map[index], index)
FieldsResolved == \A index \in DOMAIN field_map : FieldResolved(index)

\* What a name stands for is the newest of its serializers so far.
LEMMA ByNameIsNewest ==
  ASSUME ParseInv, FieldsResolved, NEW name
  PROVE  IsNewestBefore(ByName(name), name, serializer)
<1> DEFINE known == {d \in Definitions(name) : d < serializer}
<1>1. Announcement(msg)
  BY MessageIs DEF ParseInv
<1>2. /\ Len(msg.serializers) \in Nat /\ DOMAIN msg.serializers = 1 .. Len(msg.serializers)
      /\ \A s \in DOMAIN msg.serializers :
           /\ Len(msg.serializers[s].fields) \in Nat
           /\ DOMAIN msg.serializers[s].fields = 1 .. Len(msg.serializers[s].fields)
  BY <1>1, MessageTyped
<1>3. serializer \in Nat
  BY <1>2 DEF ParseInv, Position
<1>4. name \in DOMAIN serializer_map <=> known # {}
  <2>1. DOMAIN serializer_map = {msg.serializers[t].name : t \in 1 .. serializer - 1}
    BY DEF ParseInv, SerializersKept
  <2>2. ASSUME name \in DOMAIN serializer_map PROVE known # {}
    <3>1. PICK d \in DOMAIN msg.serializers : IsKept(name, d)
      BY <2>2 DEF ParseInv, SerializersKept
    <3> QED
      BY <3>1 DEF IsKept
  <2>3. ASSUME NEW d \in known PROVE name \in DOMAIN serializer_map
    <3>1. d \in DOMAIN msg.serializers /\ msg.serializers[d].name = name /\ d < serializer
      BY DEF Definitions
    <3>2. d \in 1 .. serializer - 1
      BY <1>2, <1>3, <3>1
    <3> QED
      BY <2>1, <3>1, <3>2
  <2> QED
    BY <2>2, <2>3
<1>5. CASE name \notin DOMAIN serializer_map
  BY <1>4, <1>5 DEF IsNewestBefore, ByName
<1>6. CASE name \in DOMAIN serializer_map
  <2>1. PICK d \in DOMAIN msg.serializers : IsKept(name, d)
    BY <1>6 DEF ParseInv, SerializersKept
  <2> DEFINE n == Len(msg.serializers[d].fields)
             fields == FieldsBefore(d, n)
  <2>2. d \in known /\ \A e \in known : e <= d
    BY <2>1 DEF IsKept
  <2>3. ByName(name) = [def |-> d, fields |-> fields]
    BY <1>6, <2>1 DEF ByName, IsKept
  <2>4. /\ DOMAIN fields = DOMAIN msg.serializers[d].fields
        /\ \A i \in DOMAIN fields : fields[i] = field_map[msg.serializers[d].fields[i]]
    BY <1>2, <2>1 DEF FieldsBefore
  <2>5. \A i \in DOMAIN msg.serializers[d].fields : msg.serializers[d].fields[i] \in DOMAIN field_map
    <3>1. d < serializer /\ d \in 1 .. serializer - 1
      BY <1>2, <1>3, <2>1 DEF IsKept
    <3> QED
      BY <3>1 DEF ParseInv, FieldsKept
  <2> HIDE DEF n, fields
  <2>6. \A i \in DOMAIN msg.serializers[d].fields :
          fields[i].var_name = HashBytes(msg.fields[msg.serializers[d].fields[i]].name)
    BY <2>4, <2>5 DEF FieldsResolved, FieldResolved
  <2>7. ByName(name).def = d /\ ByName(name).fields = fields
    BY <2>3
  <2>8. IsVersion(ByName(name), d)
    BY <2>4, <2>6, <2>7 DEF IsVersion
  <2> QED
    BY <2>2, <2>8 DEF IsNewestBefore
<1> QED
  BY <1>5, <1>6

\* It stays what it is while other fields come.
LEMMA ResolvedStays ==
  ASSUME msg' = msg, NEW index, field_map'[index] = field_map[index], FieldResolved(index)
  PROVE  FieldResolved(index)'
<1>1. UsedBy(index)' = UsedBy(index)
  BY DEF UsedBy
<1>2. \A name : Definitions(name)' = Definitions(name)
  BY DEF Definitions
<1>3. \A ser, d : IsVersion(ser, d)' <=> IsVersion(ser, d)
  BY DEF IsVersion
<1>4. \A ser, name, s : IsNewestBefore(ser, name, s)' <=> IsNewestBefore(ser, name, s)
  BY <1>2, <1>3 DEF IsNewestBefore
<1>5. NestedSerializer(field_map[index])' = NestedSerializer(field_map[index])
  BY DEF NestedSerializer
<1> QED
  BY <1>1, <1>4, <1>5 DEF FieldResolved, ResolvedWhenMet

\* A field that is parsed is resolved, and was not met before.
LEMMA ParseResolves == ASSUME ParseInv, FieldsResolved, ParseField PROVE FieldsResolved'
<1>0. PICK index : index = Current.fields[field]
  OBVIOUS
<1> DEFINE new == NewField(msg.fields[index])
<1>1. CASE Broken(new.metadata.decoder)
  <2>1. msg' = msg /\ field_map' = field_map
    BY <1>0, <1>1 DEF ParseField
  <2> QED
    BY <2>1, ResolvedStays DEF FieldsResolved
<1>2. CASE ~Broken(new.metadata.decoder)
  <2>1. /\ msg' = msg /\ Parsing /\ field <= Len(Current.fields) /\ index \notin DOMAIN field_map
        /\ field_map' = Put(field_map, index, new)
    BY <1>0, <1>2 DEF ParseField
  <2>2. /\ serializer \in DOMAIN msg.serializers /\ field \in DOMAIN Current.fields
        /\ index \in DOMAIN msg.fields
    BY <1>0, <2>1, ParsingIs
  <2>3. Announcement(msg)
    BY MessageIs DEF ParseInv
  <2>4. /\ Len(msg.serializers) \in Nat /\ DOMAIN msg.serializers = 1 .. Len(msg.serializers)
    BY <2>3, MessageTyped
  <2>5. msg.fields[index] \in Protos
    <3>1. msg.fields[index] \in Uses(serializer)
      BY <1>0, <2>2 DEF Uses, Current
    <3> QED
      BY <2>2, <3>1 DEF Protos
  <2>6. new.var_name = HashBytes(msg.fields[index].name) /\ new.metadata = GetFieldMetadata(msg.fields[index])
    BY DEF NewField, Field
  <2>7. msg.fields[index].ser # NoSymbol => NestedSerializer(new) = ByName(msg.fields[index].ser)
    BY <1>2, <2>3, <2>5, <2>6, NewNested
  <2>8. serializer \in UsedBy(index)
    BY <1>0, <2>2 DEF UsedBy, Current
  <2>9. ASSUME NEW s \in UsedBy(index) PROVE serializer <= s
    <3>1. PICK i \in DOMAIN msg.serializers[s].fields : msg.serializers[s].fields[i] = index
      BY DEF UsedBy
    <3>2. s \in DOMAIN msg.serializers
      BY DEF UsedBy
    <3>3. s \notin 1 .. serializer - 1
      BY <2>1, <3>1 DEF ParseInv, FieldsKept
    <3> QED
      BY <2>2, <2>4, <3>2, <3>3
  <2>10. IsNewestBefore(ByName(msg.fields[index].ser), msg.fields[index].ser, serializer)
    BY ByNameIsNewest
  <2> HIDE DEF new
  <2>11. /\ DOMAIN field_map' = DOMAIN field_map \union {index} /\ field_map'[index] = new
         /\ \A k \in DOMAIN field_map : field_map'[k] = field_map[k]
    BY <2>1 DEF Put
  <2>12. FieldResolved(index)'
    <3>1. UsedBy(index)' = UsedBy(index)
      BY <2>1 DEF UsedBy
    <3>2. \A ser, name, s : IsNewestBefore(ser, name, s)' <=> IsNewestBefore(ser, name, s)
      BY <2>1 DEF IsNewestBefore, IsVersion, Definitions
    <3>3. NestedSerializer(field_map[index])' = NestedSerializer(new)
      BY <2>11 DEF NestedSerializer
    <3> QED
      BY <2>1, <2>6, <2>7, <2>8, <2>9, <2>10, <2>11, <3>1, <3>2, <3>3 DEF FieldResolved, ResolvedWhenMet
  <2>13. \A k \in DOMAIN field_map : FieldResolved(k)'
    BY <2>1, <2>11, ResolvedStays DEF FieldsResolved
  <2> QED
    BY <2>11, <2>12, <2>13 DEF FieldsResolved
<1> QED
  BY <1>1, <1>2

\* Every field that is kept is resolved, always.
LEMMA AlwaysResolved == FieldsSpec => []FieldsResolved
<1>1. FieldsInit => FieldsResolved
  <2>1. DOMAIN <<>> = {}
    OBVIOUS
  <2> QED
    BY <2>1 DEF FieldsInit, FieldsResolved
<1>2. ParseInv /\ FieldsResolved /\ [FieldsNext]_fieldVars => FieldsResolved'
  <2> SUFFICES ASSUME ParseInv, FieldsResolved, [FieldsNext]_fieldVars PROVE FieldsResolved'
    OBVIOUS
  <2>1. CASE ParseField
    BY <2>1, ParseResolves
  <2>2. CASE UNCHANGED <<msg, field_map>>
    BY <2>2, ResolvedStays DEF FieldsResolved
  <2>3. ReuseField \/ FinishSerializer \/ FinishParse => UNCHANGED <<msg, field_map>>
    BY DEF ReuseField, FinishSerializer, FinishParse, parseVars
  <2>4. \A index \in Indexes : \A own \in Updates(Data) :
          HandleCreate(index, own) \/ HandleUpdate(index, own) => UNCHANGED <<msg, field_map>>
    BY DEF HandleCreate, HandleUpdate, parseVars
  <2>5. \A index \in Indexes : HandleDelete(index) => UNCHANGED <<msg, field_map>>
    BY DEF HandleDelete, parseVars
  <2>6. UNCHANGED fieldVars => UNCHANGED <<msg, field_map>>
    BY DEF fieldVars, parseVars
  <2> QED
    BY <2>1, <2>2, <2>3, <2>4, <2>5, <2>6 DEF FieldsNext
<1>3. FieldsInv => ParseInv
  BY DEF FieldsInv
<1> QED
  BY <1>1, <1>2, <1>3, FieldsInvariant, PTL DEF FieldsSpec

\* The fields of a serializer that is kept.
LEMMA KeptField ==
  ASSUME ParseInv, NEW name \in DOMAIN serializer_map, NEW i \in DOMAIN serializer_map[name].fields
  PROVE  /\ IndexOf(serializer_map[name], i) \in DOMAIN field_map
         /\ serializer_map[name].fields[i] = field_map[IndexOf(serializer_map[name], i)]
<1>1. PICK d \in DOMAIN msg.serializers : IsKept(name, d)
  BY DEF ParseInv, SerializersKept
<1> DEFINE n == Len(msg.serializers[d].fields)
<1>2. /\ Len(msg.serializers) \in Nat /\ DOMAIN msg.serializers = 1 .. Len(msg.serializers)
      /\ n \in Nat /\ DOMAIN msg.serializers[d].fields = 1 .. n
  BY MessageIs, MessageTyped DEF ParseInv
<1> HIDE DEF n
<1>3. serializer_map[name] = [def |-> d, fields |-> FieldsBefore(d, n)] /\ d < serializer
  BY <1>1 DEF IsKept, n
<1>4. i \in 1 .. n /\ serializer_map[name].fields[i] = field_map[msg.serializers[d].fields[i]]
      /\ serializer_map[name].def = d
  BY <1>2, <1>3 DEF FieldsBefore
<1>5. d \in 1 .. serializer - 1
  BY <1>2, <1>3 DEF ParseInv, Position
<1>6. msg.serializers[d].fields[i] \in DOMAIN field_map
  BY <1>2, <1>4, <1>5 DEF ParseInv, FieldsKept
<1> QED
  BY <1>4, <1>6 DEF IndexOf

\* For every message, in whatever order it announces serializers, and however
\* serializers share fields: a field descends into the newest version of its
\* serializer that came before the first serializer that has the field, and into
\* nothing if none did (flattenedserializers.rs:256-260, 265-318, 321-324).
THEOREM FieldsDescend == FieldsSpec => []ResolvedAtFirstUse
<1>1. ParseInv /\ FieldsResolved => ResolvedAtFirstUse
  <2> SUFFICES ASSUME ParseInv, FieldsResolved,
                      NEW name \in DOMAIN serializer_map, NEW i \in DOMAIN serializer_map[name].fields
               PROVE  ResolvedWhenMet(serializer_map[name].fields[i], IndexOf(serializer_map[name], i))
    BY DEF ResolvedAtFirstUse
  <2>1. /\ IndexOf(serializer_map[name], i) \in DOMAIN field_map
        /\ serializer_map[name].fields[i] = field_map[IndexOf(serializer_map[name], i)]
    BY KeptField
  <2>2. \A index \in DOMAIN field_map : ResolvedWhenMet(field_map[index], index)
    BY DEF FieldsResolved, FieldResolved
  <2> QED
    BY <2>1, <2>2
<1>2. FieldsInv => ParseInv
  BY DEF FieldsInv
<1> QED
  BY <1>1, <1>2, FieldsInvariant, AlwaysResolved, PTL

\* The comment at flattenedserializers.rs:64-68, that fields always reference the
\* highest version: what it comes to for the field of a serializer that is
\* announced after all versions of the field's own.
DescendsToHighest(f, index, s) ==
  LET versions == Definitions(msg.fields[index].ser)
  IN  versions # {} /\ (\A d \in versions : d < s) =>
        NestedSerializer(f).def = LastDefinition(msg.fields[index].ser)

HighestVersions ==
  phase = "entities" =>
    \A name \in DOMAIN serializer_map : \A i \in DOMAIN serializer_map[name].fields :
      DescendsToHighest(serializer_map[name].fields[i], IndexOf(serializer_map[name], i),
                        serializer_map[name].def)

\* A field that is resolved when it is met descends into the last version, if
\* all versions come before whatever refers to them.
LEMMA ResolvedIsHighest ==
  ASSUME msg \in Messages, Ordered, NEW f, NEW index, NEW s, ResolvedWhenMet(f, index)
  PROVE  DescendsToHighest(f, index, s)
<1> DEFINE name == msg.fields[index].ser
           versions == Definitions(name)
<1> SUFFICES ASSUME versions # {} PROVE NestedSerializer(f).def = LastDefinition(name)
  BY DEF DescendsToHighest
<1>1. Announcement(msg)
  BY MessageIs
<1>2. /\ DOMAIN msg.serializers = 1 .. Len(msg.serializers) /\ Len(msg.serializers) \in Nat
      /\ \A d \in DOMAIN msg.serializers : msg.serializers[d].name # NoSymbol
  BY <1>1, MessageTyped
<1>3. name # NoSymbol /\ \A d \in versions : d \in Nat
  BY <1>2 DEF Definitions
<1>4. PICK first \in UsedBy(index) : IsNewestBefore(NestedSerializer(f), name, first)
  BY <1>3 DEF ResolvedWhenMet
<1>5. first \in DOMAIN msg.serializers /\ msg.fields[index] \in Uses(first)
  BY DEF UsedBy, Uses
<1>6. \A d \in versions : d < first
  BY <1>3, <1>5 DEF Ordered
<1>7. LastDefinition(name) \in versions /\ \A t \in versions : t <= LastDefinition(name)
  BY <1>1, LastDefinitionIs
<1> HIDE DEF versions
<1>8. PICK d \in versions : NestedSerializer(f).def = d /\ \A e \in versions : e <= d
  BY <1>4, <1>6 DEF IsNewestBefore, IsVersion, versions
<1>9. d <= LastDefinition(name) /\ LastDefinition(name) <= d /\ d \in Nat /\ LastDefinition(name) \in Nat
  BY <1>3, <1>7, <1>8
<1> QED
  BY <1>8, <1>9

\* What that comment says is so for every message that announces all versions of
\* a serializer before a field refers to it.  For others it is not: a field that
\* is shared may have been resolved between two versions.
THEOREM VersionsHighest == FieldsSpec => [](Ordered => HighestVersions)
<1>1. FieldsInv /\ ResolvedAtFirstUse => (Ordered => HighestVersions)
  <2> SUFFICES ASSUME FieldsInv, ResolvedAtFirstUse, Ordered,
                      NEW name \in DOMAIN serializer_map, NEW i \in DOMAIN serializer_map[name].fields
               PROVE  DescendsToHighest(serializer_map[name].fields[i], IndexOf(serializer_map[name], i),
                                        serializer_map[name].def)
    BY DEF HighestVersions
  <2>1. ResolvedWhenMet(serializer_map[name].fields[i], IndexOf(serializer_map[name], i))
    BY DEF ResolvedAtFirstUse
  <2>2. msg \in Messages
    BY DEF FieldsInv, ParseInv
  <2> QED
    BY <2>1, <2>2, ResolvedIsHighest
<1> QED
  BY <1>1, FieldsInvariant, FieldsDescend, PTL

-----------------------------------------------------------------------------
(* What the entities have.                                                   *)

\* Of an entity that is there, and one of its fields.
LEMMA EntryIs ==
  ASSUME FieldsInv, Usual, NEW index \in DOMAIN entities
  PROVE  /\ Announcement(msg) /\ Plain /\ Complete
         /\ Reflects(entities[index], sent[index])
<1>1. entities # <<>>
  <2>1. DOMAIN <<>> = {}
    OBVIOUS
  <2> QED
    BY <2>1
<1>2. phase \in {"entities", "undefined"}
  BY <1>1 DEF FieldsInv, EntityInv
<1> QED
  BY <1>2, AllParsed DEF FieldsInv, EntityInv

\* Every value of an entity was read with the decoder of the type of the node
\* that the server wrote it for (entities.rs:226-273; flattenedserializers.rs:265-311).
THEOREM DecodedAsSent == FieldsSpec => []DecodesAsSent
<1>1. FieldsInv => DecodesAsSent
  <2> SUFFICES ASSUME FieldsInv, Usual, NEW index \in DOMAIN entities, NEW key \in DOMAIN entities[index]
               PROVE  LET entry == entities[index][key]
                          node == NodeAt(entry.value.sent.path)
                      IN  entry.value.made = VisitAny(node.type, node.proto).decoder
    BY DEF DecodesAsSent, Entries
  <2>1. Reflects(entities[index], sent[index])
    BY EntryIs
  <2> QED
    BY <2>1 DEF Reflects
<1> QED
  BY <1>1, FieldsInvariant, PTL

\* With different names in each serializer, every entity has under the key of a
\* field what the server sent last for it, after any creations, updates and
\* deletions and whatever the baseline held, but for elements of fixed arrays,
\* which share a key (entities.rs:218-281, 383-465).
THEOREM EntitiesAsSent == FieldsSpec => []EntityAsSent
<1>1. FieldsInv => EntityAsSent
  <2> SUFFICES ASSUME FieldsInv, Usual, Distinct, NEW index \in DOMAIN entities
               PROVE  /\ \A path \in DOMAIN sent[index] :
                           /\ KeyOf(path) \in DOMAIN entities[index]
                           /\ LET value == entities[index][KeyOf(path)].value
                              IN  /\ value.sent.datum = sent[index][value.sent.path]
                                  /\ value.sent.path # path =>
                                       InFixedArray(path) /\ KeyOf(value.sent.path) = KeyOf(path)
                      /\ \A entry \in Entries(index) : entry.value.sent.path \in DOMAIN sent[index]
    BY DEF EntityAsSent
  <2>1. Announcement(msg) /\ Plain /\ Complete /\ Reflects(entities[index], sent[index])
    BY EntryIs
  <2>2. /\ \A path \in DOMAIN sent[index] : path \in ServerPaths /\ KeyOf(path) \in DOMAIN entities[index]
        /\ \A key \in DOMAIN entities[index] :
             LET value == entities[index][key].value
             IN  /\ value.sent.path \in DOMAIN sent[index] /\ KeyOf(value.sent.path) = key
                 /\ value.sent.datum = sent[index][value.sent.path]
    BY <2>1 DEF Reflects
  <2>3. ASSUME NEW path \in ServerPaths, NEW other \in ServerPaths, other # path, KeyOf(other) = KeyOf(path)
        PROVE  InFixedArray(path)
    <3>1. /\ NodeAt(path) \in ServerNodes /\ NodeAt(path).path = path
          /\ NodeAt(other) \in ServerNodes /\ NodeAt(other).path = other
      BY <2>1, PathWalked
    <3>2. NodeAt(path).key = NodeAt(other).key
      BY <2>3 DEF KeyOf
    <3> QED
      BY <2>1, <2>3, <3>1, <3>2, KeysDiffer
  <2>4. ASSUME NEW path \in DOMAIN sent[index]
        PROVE  LET value == entities[index][KeyOf(path)].value
               IN  /\ value.sent.datum = sent[index][value.sent.path]
                   /\ value.sent.path # path => InFixedArray(path) /\ KeyOf(value.sent.path) = KeyOf(path)
    <3> DEFINE other == entities[index][KeyOf(path)].value.sent.path
    <3>1. path \in ServerPaths /\ KeyOf(path) \in DOMAIN entities[index]
      BY <2>2
    <3>2. /\ other \in DOMAIN sent[index] /\ KeyOf(other) = KeyOf(path)
          /\ entities[index][KeyOf(path)].value.sent.datum = sent[index][other]
      BY <2>2, <3>1
    <3> HIDE DEF other
    <3>3. other # path => InFixedArray(path)
      BY <2>2, <2>3, <3>1, <3>2
    <3> QED
      BY <3>2, <3>3 DEF other
  <2> QED
    BY <2>2, <2>4 DEF Entries
<1> QED
  BY <1>1, FieldsInvariant, PTL

\* The field that a user finds for a path is the one that its value was decoded
\* with (entities.rs:324-342).
THEOREM LookupsAgree == FieldsSpec => []LookupAgrees
<1>1. FieldsInv => LookupAgrees
  <2> SUFFICES ASSUME FieldsInv, Usual, NEW index \in DOMAIN entities, NEW key \in DOMAIN entities[index],
                      ~InLaterElement(entities[index][key].path)
               PROVE  Lookup(serializer_map[Class], entities[index][key].path) =
                        Walk(serializer_map[Class], entities[index][key].path).field
    BY DEF LookupAgrees, Entries
  <2>1. Announcement(msg) /\ Plain /\ Complete /\ Reflects(entities[index], sent[index])
    BY EntryIs
  <2> DEFINE path == entities[index][key].path
  <2>2. path \in ServerPaths
    BY <2>1 DEF Reflects
  <2> HIDE DEF path
  <2>3. /\ NodeAt(path) \in ServerNodes /\ NodeAt(path).path = path
        /\ Walk(serializer_map[Class], path).field = FieldOf(NodeAt(path))
    BY <2>1, <2>2, PathWalked
  <2>4. ~InLaterElement(path) => Lookup(serializer_map[Class], path) = FieldOf(NodeAt(path))
    BY <2>1, <2>3, LookupIsThere
  <2> QED
    BY <2>3, <2>4 DEF path
<1> QED
  BY <1>1, FieldsInvariant, PTL
=============================================================================
