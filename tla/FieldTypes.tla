----------------------------- MODULE FieldTypes -----------------------------
(***************************************************************************)
(* What the type of a field means to the parser: whether the field is an    *)
(* array, a pointer or neither, and which decoder reads it                  *)
(* (crates/haste_core/src/fieldmetadata.rs, fielddecoder.rs).               *)
(*                                                                         *)
(* A field is what the proto says of it: type, name, ser (the name of its   *)
(* serializer), enc (its encoder), bits, and the flags and range of a       *)
(* quantized float.                                                         *)
(***************************************************************************)
EXTENDS Integers, QuantizedFloat, TypeExprs

CONSTANT MaxNesting  \* types are nested in each other at most that deep

NoSymbol == "none"   \* a symbol that the proto does not give

\* A decoder is told by the FieldValue it makes and by how it reads it.
Decoder(makes, reads) == [makes |-> makes, reads |-> reads]
InvalidDecoder == Decoder("nothing", "unreachable")
DefaultU64 == Decoder("U64", "varint")
\* The construction panics (unimplemented!, unreachable!) or returns an error.
Panics == Decoder("nothing", "panic")
Fails  == Decoder("nothing", "error")
Broken(d) == d \in {Panics, Fails}

U64Decoder(field) ==
  IF field.enc = "fixed64" THEN Decoder("U64", "fixed64") ELSE DefaultU64

\* InternalF32Decoder: how the floats of a field are read.
FloatReads(field) ==
  CASE field.name \in {"m_flSimulationTime", "m_flAnimTime"} -> "simulation time"
    [] OTHER ->
  CASE field.enc \in {"coord", "normal"} -> field.enc
    [] field.enc \notin {"coord", "normal", NoSymbol} -> "panic"
    [] OTHER ->
  CASE field.bits \in {0, 32} -> "noscale"
    [] ContradictoryFlags(field.flags, field.low, field.high) -> "error"
    [] OTHER -> "quantized"

FloatsDecoder(makes, field) ==
  CASE FloatReads(field) = "panic" -> Panics
    [] FloatReads(field) = "error" -> Fails
    [] OTHER -> Decoder(makes, FloatReads(field))

Vector3Decoder(field) ==
  IF field.enc = "normal" THEN Decoder("Vector3", "vec3normal") ELSE FloatsDecoder("Vector3", field)

QAngleDecoder(field) ==
  CASE field.enc = "qangle_pitch_yaw" -> Decoder("QAngle", "pitch and yaw")
    [] field.enc = "qangle_precise"   -> Decoder("QAngle", "precise")
    [] field.enc \in {"qangle", "QAngle", NoSymbol} ->
         IF field.bits = 0 THEN Decoder("QAngle", "coords") ELSE Decoder("QAngle", "angles")
    [] OTHER -> Panics

-----------------------------------------------------------------------------
NoDescriptor == [is |-> "none"]
DynamicSerializerArray == [is |-> "DynamicSerializerArray"]
PointerDescriptor == [is |-> "Pointer"]
FixedArray(length) == [is |-> "FixedArray", length |-> length]
DynamicArray(decoder) == [is |-> "DynamicArray", decoder |-> decoder]

Metadata(descriptor, decoder) == [descriptor |-> descriptor, decoder |-> decoder]
DefaultMetadata == Metadata(NoDescriptor, InvalidDecoder)

PointerIdents == {
  "CBodyComponentDCGBaseAnimating", "CBodyComponentBaseAnimating",
  "CBodyComponentBaseAnimatingOverlay", "CBodyComponentBaseModelEntity", "CBodyComponent",
  "CBodyComponentSkeletonInstance", "CBodyComponentPoint", "CLightComponent",
  "CRenderComponent", "C_BodyComponentBaseAnimating", "C_BodyComponentBaseAnimatingOverlay",
  "CPhysicsComponent"}
SpecialIdents == {"m_SpeechBubbles", "DOTA_CombatLogQueryProgress"}
VectorIdents  == {"CNetworkUtlVectorBase", "CUtlVectorEmbeddedNetworkVar", "CUtlVector"}

IdentDecoder(ident, field) ==
  CASE ident \in {"int8", "int16", "int32", "int64"} -> Decoder("I64", "varint")
    [] ident = "bool" -> Decoder("Bool", "bool")
    [] ident \in {"CUtlSymbolLarge", "CUtlString"} -> Decoder("String", "string")
    [] ident \in {"float32", "CNetworkedQuantizedFloat", "GameTime_t"} -> FloatsDecoder("F32", field)
    [] ident = "QAngle" -> QAngleDecoder(field)
    [] ident = "Vector" -> Vector3Decoder(field)
    [] ident = "Vector2D" -> FloatsDecoder("Vector2", field)
    [] ident = "Vector4D" -> FloatsDecoder("Vector4", field)
    [] OTHER -> U64Decoder(field)

VisitPointer == Metadata(PointerDescriptor, Decoder("Bool", "bool"))

VisitIdent(ident, field) ==
  CASE ident \in PointerIdents -> VisitPointer
    [] ident \in SpecialIdents -> Metadata(DynamicSerializerArray, DefaultU64)
    [] OTHER -> Metadata(NoDescriptor, IdentDecoder(ident, field))

\* The length of an array: Panics stands for the literal that cannot be there.
KnownLength(len) == len.kind = "Num" \/ len = Ident("MAX_ABILITY_DRAFT_ABILITIES")
ArrayLength(len) == IF len.kind = "Num" THEN len.num ELSE 48

\* An error or a panic of what is inside goes through.
Inside(inner, outer) == IF Broken(inner.decoder) THEN Metadata(NoDescriptor, inner.decoder) ELSE outer

\* inner is what the visit of the inner type makes, if there is one.
VisitTemplate(expr, field, inner) ==
  CASE expr.kind # "Ident" -> Metadata(NoDescriptor, Panics)
    [] expr.kind = "Ident" /\ expr.name \notin VectorIdents -> VisitIdent(expr.name, field)
    [] OTHER ->
         IF field.ser # NoSymbol THEN Metadata(DynamicSerializerArray, DefaultU64)
         ELSE Inside(inner, Metadata(DynamicArray(inner.decoder), DefaultU64))

VisitArray(expr, len, field, inner) ==
  CASE expr = Ident("char") -> Metadata(NoDescriptor, Decoder("String", "string"))
    [] expr # Ident("char") /\ ~KnownLength(len) -> Metadata(NoDescriptor, Fails)
    [] OTHER -> Inside(inner, Metadata(FixedArray(ArrayLength(len)), inner.decoder))

Visit(type, field, inner) ==
  CASE type.kind = "Ident"    -> VisitIdent(type.name, field)
    [] type.kind = "Template" -> VisitTemplate(type.expr, field, inner)
    [] type.kind = "Array"    -> VisitArray(type.expr, type.len, field, inner)
    [] type.kind = "Pointer"  -> VisitPointer

\* The types that are nested in a type, from the outside.
Inner(type) == IF type.kind = "Template" THEN type.arg ELSE type.expr
Nested(type) ==
  LET nested[n \in 0 .. MaxNesting] == IF n = 0 THEN type ELSE Inner(nested[n - 1])
  IN  nested

WellFormed(type) ==
  \E n \in 0 .. MaxNesting :
    /\ Nested(type)[n].kind \in {"Ident", "Pointer"}
    /\ \A k \in 0 .. n - 1 : Nested(type)[k].kind \in {"Template", "Array"}

\* The visits return from the inside; visited[n] is that of the type below
\* which there are up to n more.
VisitAny(type, field) ==
  LET visited[n \in 0 .. MaxNesting] ==
        Visit(Nested(type)[MaxNesting - n], field, IF n = 0 THEN DefaultMetadata ELSE visited[n - 1])
  IN  visited[MaxNesting]

GetFieldMetadata(field) == VisitAny(field.type, field)
IsDynamicArray(descriptor) == descriptor.is \in {"DynamicArray", "DynamicSerializerArray"}
=============================================================================
