---------------------------- MODULE EntityFields ----------------------------
(***************************************************************************)
(* The fields of entities: the serializers are parsed from the message that *)
(* announces them (core/flattenedserializers.rs), and then tell what the    *)
(* paths of an update of an entity mean (core/entities.rs).                 *)
(*                                                                         *)
(* A name is a sequence of character codes.  A hash is the sequence of the  *)
(* numbers that were hashed into it, a key the sequence of the hashes: two  *)
(* are equal only if they were computed from the same, except that hashing  *)
(* zero into zero is zero (fxhash.rs:63).                                   *)
(***************************************************************************)
EXTENDS FieldTypes, Sequences, FiniteSets, SequencesExt

CONSTANTS
  Messages,     \* the messages that announce serializers
  CharCodes(_), \* the characters of a name
  Class,        \* the serializer of the entities that are created
  Indexes,      \* of entities
  MaxElements,  \* a dynamic array has at most that many elements
  MaxDepth,     \* fields are that deep inside of those of an entity
  MaxPaths,     \* an update has at most that many paths
  MaxSent,      \* an entity is sent at most that many different fields
  Data          \* what a field may contain; 0 is not one of them

\* What every message of a server has: its indexes are those of fields, the
\* class is there, types are types, and arrays have elements.  Different
\* names have different hashes.
Announcement(m) ==
  /\ m.serializers \in Seq([name : STRING, fields : Seq(DOMAIN m.fields)])
  /\ \A s \in DOMAIN m.serializers : m.serializers[s].name # NoSymbol
  /\ \E s \in DOMAIN m.serializers : m.serializers[s].name = Class
  /\ \A f \in DOMAIN m.fields :
       LET proto == m.fields[f]
       IN  /\ WellFormed(proto.type)
           /\ proto.type.kind = "Array" /\ proto.type.len.kind = "Num" =>
                proto.type.len.num \in Nat \ {0}
           /\ \A g \in DOMAIN m.fields :
                CharCodes(proto.name) = CharCodes(m.fields[g].name) => proto.name = m.fields[g].name

ASSUME FieldsAssumption ==
  /\ \A m \in Messages : Announcement(m)
  /\ "baseline" \notin Indexes
  /\ MaxNesting \in Nat \ {0}
  /\ MaxElements \in Nat /\ MaxDepth \in Nat /\ MaxPaths \in Nat

VARIABLES
  msg,                   \* fields, and serializers in their order
  phase,                 \* "serializers", "entities", "failed" or "undefined"
  serializer, field,     \* positions in msg of what is parsed next
  parsed_fields,         \* the fields of the serializer that is being parsed
  field_map, serializer_map,
  baseline, entities,    \* EntityContainer: the parsed baseline, the entities
  sent                   \* history: what the server sent to the baseline and entities

parseVars  == <<serializer, field, parsed_fields, field_map, serializer_map>>
entityVars == <<baseline, entities, sent>>
fieldVars  == <<msg, phase, parseVars, entityVars>>

-----------------------------------------------------------------------------
\* HashMap::insert
Put(map, key, value) ==
  [k \in DOMAIN map \union {key} |-> IF k = key THEN value ELSE map[k]]

(* Hashes and keys *)

AddToHash(hash, n) == IF hash = <<>> /\ n = 0 THEN <<>> ELSE Append(hash, n)
HashBytes(name)    == CharCodes(name)
IndexHash(i)       == AddToHash(<<>>, i)
DefaultHash        == <<>>

\* fkey_from_path, of the names (as characters) that a user gives.
FkeyFromPath(path) == [i \in DOMAIN path |-> FoldLeft(AddToHash, <<>>, path[i])]

-----------------------------------------------------------------------------
(* Serializers.  def is history: which of the message's serializers it is.   *)

NoSerializer == [def |-> 0, fields |-> <<>>]
Unnamed(fields) == [def |-> -1, fields |-> fields]

Field(hash, metadata, child) == [var_name |-> hash, metadata |-> metadata, field_serializer |-> child]

ByName(ser) == IF ser \in DOMAIN serializer_map THEN serializer_map[ser] ELSE NoSerializer

\* Mutant of ElementField: an element is read like the number of elements.
ElementFieldAsLength(decoder) == Field(DefaultHash, Metadata(NoDescriptor, DefaultU64), NoSerializer)

\* The field of all elements of a dynamic array.
ElementField(decoder) == Field(DefaultHash, Metadata(NoDescriptor, decoder), NoSerializer)

\* The serializer of a new field: named, or made up for an array.
FieldSerializer(proto, metadata) ==
  LET named == ByName(proto.ser)
      hash  == HashBytes(proto.name)
      descriptor == metadata.descriptor
  IN CASE descriptor.is = "FixedArray" ->
            Unnamed([i \in 1 .. descriptor.length |-> Field(hash, metadata, named)])
       [] descriptor.is = "DynamicArray" ->
            Unnamed(<<ElementField(descriptor.decoder)>>)
       [] descriptor.is = "DynamicSerializerArray" ->
            Unnamed(<<Field(DefaultHash, DefaultMetadata, named)>>)
       [] OTHER -> named

NewField(proto) ==
  LET metadata == GetFieldMetadata(proto)
  IN  Field(HashBytes(proto.name), metadata, FieldSerializer(proto, metadata))

FieldsInit ==
  /\ msg \in Messages
  /\ phase = "serializers"
  /\ serializer = 1 /\ field = 1
  /\ parsed_fields = <<>>
  /\ field_map = <<>> /\ serializer_map = <<>>
  /\ baseline = <<>> /\ entities = <<>>
  /\ sent = <<>>

Current == msg.serializers[serializer]
Parsing == phase = "serializers" /\ serializer <= Len(msg.serializers)

ReuseField ==
  /\ Parsing /\ field <= Len(Current.fields)
  /\ Current.fields[field] \in DOMAIN field_map
  /\ parsed_fields' = Append(parsed_fields, field_map[Current.fields[field]])
  /\ field' = field + 1
  /\ UNCHANGED <<msg, phase, serializer, field_map, serializer_map, entityVars>>

ParseField ==
  /\ Parsing /\ field <= Len(Current.fields)
  /\ LET index == Current.fields[field]
         new == NewField(msg.fields[index])
     IN /\ index \notin DOMAIN field_map
        /\ IF Broken(new.metadata.decoder)
           THEN phase' = "failed" /\ UNCHANGED <<field, parsed_fields, field_map>>
           ELSE /\ field_map' = Put(field_map, index, new)
                /\ parsed_fields' = Append(parsed_fields, new)
                /\ field' = field + 1
                /\ UNCHANGED phase
  /\ UNCHANGED <<msg, serializer, serializer_map, entityVars>>

\* Mutant of FinishSerializer: the fields stay for the next serializer.
FinishSerializerKeeping ==
  /\ Parsing /\ field > Len(Current.fields)
  /\ serializer_map' = Put(serializer_map, Current.name, [def |-> serializer, fields |-> parsed_fields])
  /\ serializer' = serializer + 1 /\ field' = 1
  /\ UNCHANGED <<msg, phase, parsed_fields, field_map, entityVars>>

\* Mutant of FinishSerializer: the first version stays.
FinishSerializerOnce ==
  /\ Parsing /\ field > Len(Current.fields)
  /\ serializer_map' =
       serializer_map @@ (Current.name :> [def |-> serializer, fields |-> parsed_fields])
  /\ serializer' = serializer + 1
  /\ field' = 1 /\ parsed_fields' = <<>>
  /\ UNCHANGED <<msg, phase, field_map, entityVars>>

FinishSerializer ==
  /\ Parsing /\ field > Len(Current.fields)
  /\ serializer_map' = Put(serializer_map, Current.name, [def |-> serializer, fields |-> parsed_fields])
  /\ serializer' = serializer + 1
  /\ field' = 1 /\ parsed_fields' = <<>>
  /\ UNCHANGED <<msg, phase, field_map, entityVars>>

FinishParse ==
  /\ phase = "serializers" /\ serializer > Len(msg.serializers)
  /\ phase' = "entities"
  /\ UNCHANGED <<msg, parseVars, entityVars>>

-----------------------------------------------------------------------------
(* What the server has: the tree of its own types, where a nested type is    *)
(* the last one of its name.  A node is a path, its names, and a type.      *)

Definitions(ser) == {s \in DOMAIN msg.serializers : msg.serializers[s].name = ser}
LastDefinition(ser) ==
  CHOOSE s \in Definitions(ser) : \A t \in Definitions(ser) : t <= s

Node(path, names, key, type, proto) ==
  [path |-> path, names |-> names, key |-> key, type |-> type, proto |-> proto]
Name(text) == [name |-> text, number |-> -1]
Number(n)  == [name |-> NoSymbol, number |-> n]

IsFixedArray(type) == type.kind = "Array" /\ type.expr # Ident("char")
IsVector(type) ==
  \/ /\ type.kind = "Template" /\ type.expr.kind = "Ident"
     /\ type.expr.name \in VectorIdents \union SpecialIdents
  \/ type.kind = "Ident" /\ type.name \in SpecialIdents
ElementType(type) == IF type.kind = "Ident" THEN Ident("embedded") ELSE Inner(type)

\* The key of a node is made of the names on its path and the indexes of
\* vectors.  An index of a fixed array does not show: the element has the
\* name of the array.
FieldsOf(s, path, names, key) ==
  {LET proto == msg.fields[msg.serializers[s].fields[i]]
   IN  Node(Append(path, i - 1), Append(names, Name(proto.name)),
            Append(key, HashBytes(proto.name)), proto.type, proto)
     : i \in DOMAIN msg.serializers[s].fields}

ElementsOf(node, n) ==
  {Node(Append(node.path, i), Append(node.names, Number(i)),
        Append(node.key, IF IsFixedArray(node.type) THEN HashBytes(node.proto.name) ELSE IndexHash(i)),
        ElementType(node.type), node.proto)
     : i \in 0 .. n - 1}

ChildrenOf(node) ==
  IF IsFixedArray(node.type) THEN ElementsOf(node, ArrayLength(node.type.len))
  ELSE IF IsVector(node.type) THEN ElementsOf(node, MaxElements)
  ELSE IF node.proto.ser \in {msg.serializers[s].name : s \in DOMAIN msg.serializers}
  THEN FieldsOf(LastDefinition(node.proto.ser), node.path, node.names, node.key)
  ELSE {}

\* Nodes that have a value of their own: a plain field, the length of a
\* vector, whether a pointer is there.
IsPointer(type, proto) == VisitAny(type, proto).descriptor = PointerDescriptor
HasValue(node) ==
  \/ ChildrenOf(node) = {} /\ node.proto.ser = NoSymbol
  \/ IsVector(node.type)
  \/ ~IsFixedArray(node.type) /\ IsPointer(node.type, node.proto)

Below(nodes) == UNION {ChildrenOf(n) : n \in nodes}
ServerNodes ==
  LET level[n \in 0 .. MaxDepth] ==
        IF n = 0 THEN FieldsOf(LastDefinition(Class), <<>>, <<>>, <<>>) ELSE Below(level[n - 1])
  IN  UNION {level[n] : n \in 0 .. MaxDepth}
NodeAt(path) == CHOOSE n \in ServerNodes : n.path = path
ServerPaths == {n.path : n \in {m \in ServerNodes : HasValue(m)}}

-----------------------------------------------------------------------------
(* Entity::parse *)

\* Mutant of Step: an element is the child of its index.
StepByIndex(at, i) ==
  LET fields == at.field.field_serializer.fields
  IN  IF at.undefined \/ i + 1 \notin DOMAIN fields THEN [at EXCEPT !.undefined = TRUE]
      ELSE [undefined |-> FALSE, field |-> fields[i + 1],
            key |-> Append(at.key, IF IsDynamicArray(at.field.metadata.descriptor)
                                   THEN IndexHash(i) ELSE fields[i + 1].var_name)]

\* The walk along a path: the field, or none where the code would access a
\* child that does not exist, and its key.
Step(at, i) ==
  LET dynamic == IsDynamicArray(at.field.metadata.descriptor)
      fields  == at.field.field_serializer.fields
      child   == IF dynamic THEN 1 ELSE i + 1
  IN  IF at.undefined \/ child \notin DOMAIN fields THEN [at EXCEPT !.undefined = TRUE]
      ELSE [undefined |-> FALSE, field |-> fields[child],
            key |-> Append(at.key, IF dynamic THEN IndexHash(i) ELSE fields[child].var_name)]

\* The serializer of the entity is that of a field whose children are those of
\* the top level.
RootField(ser) == Field(DefaultHash, DefaultMetadata, ser)

Walk(ser, path) ==
  LET walked[n \in 0 .. Len(path)] ==
        IF n = 0 THEN [undefined |-> FALSE, field |-> RootField(ser), key |-> <<>>]
        ELSE Step(walked[n - 1], path[n])
  IN  walked[Len(path)]

WalkEnds(ser, path) ==
  ~Walk(ser, path).undefined /\ Walk(ser, path).field.metadata.decoder # InvalidDecoder

\* Mutant of SetField: a field that is there keeps its value.
SetFieldOnce(fields, ser, update) ==
  LET at == Walk(ser, update.path)
      value == [made |-> at.field.metadata.decoder, sent |-> update]
  IN  fields @@ (at.key :> [path |-> update.path, value |-> value])

\* One path of an update and what is read for it.
SetField(fields, ser, update) ==
  LET at == Walk(ser, update.path)
      value == [made |-> at.field.metadata.decoder, sent |-> update]
      first == IF at.key \in DOMAIN fields THEN fields[at.key].path ELSE update.path
  IN  Put(fields, at.key, [path |-> first, value |-> value])

ParseEntity(fields, ser, updates) ==
  LET parsed[n \in 0 .. Len(updates)] ==
        IF n = 0 THEN fields ELSE SetField(parsed[n - 1], ser, updates[n])
  IN  parsed[Len(updates)]

\* An update: paths in the server's order, each with a datum.
PathBefore(p, q) ==
  \E i \in 1 .. Len(q) :
    /\ \A j \in 1 .. i - 1 : j <= Len(p) /\ p[j] = q[j]
    /\ i > Len(p) \/ p[i] < q[i]
Updates(data) ==
  {us \in UNION {[1 .. n -> [path : ServerPaths, datum : data]] : n \in 1 .. MaxPaths} :
     \A i \in 1 .. Len(us) - 1 : PathBefore(us[i].path, us[i + 1].path)}

\* What the server has after an update.
AfterSending(state, updates) ==
  LET after[n \in 0 .. Len(updates)] ==
        IF n = 0 THEN state ELSE Put(after[n - 1], updates[n].path, updates[n].datum)
  IN  after[Len(updates)]
MaySend(state, updates) ==
  Cardinality(DOMAIN state \union {updates[i].path : i \in DOMAIN updates}) <= MaxSent

Undefined(ser, updates) == \E i \in DOMAIN updates : ~WalkEnds(ser, updates[i].path)

HandleCreate(index, own) ==
  /\ phase = "entities"
  /\ LET ser == serializer_map[Class]
         From(base, sentBase) ==
           /\ MaySend(sentBase, own)
           /\ entities' = Put(entities, index, ParseEntity(base, ser, own))
           /\ sent' = Put(Put(sent, "baseline", sentBase), index, AfterSending(sentBase, own))
     IN IF Undefined(ser, own)
        THEN phase' = "undefined" /\ UNCHANGED entityVars
        ELSE IF baseline # <<>>
        THEN From(baseline[1], sent["baseline"]) /\ UNCHANGED <<phase, baseline>>
        ELSE \E base \in Updates({0}) :
               IF Undefined(ser, base)
               THEN phase' = "undefined" /\ UNCHANGED entityVars
               ELSE LET fields == ParseEntity(<<>>, ser, base)
                    IN /\ From(fields, AfterSending(<<>>, base))
                       /\ baseline' = <<fields>>
                       /\ UNCHANGED phase
  /\ UNCHANGED <<msg, parseVars>>

HandleUpdate(index, own) ==
  /\ phase = "entities" /\ index \in DOMAIN entities
  /\ LET ser == serializer_map[Class]
     IN IF Undefined(ser, own)
        THEN phase' = "undefined" /\ UNCHANGED entityVars
        ELSE /\ MaySend(sent[index], own)
             /\ entities' = [entities EXCEPT ![index] = ParseEntity(@, ser, own)]
             /\ sent' = [sent EXCEPT ![index] = AfterSending(@, own)]
             /\ UNCHANGED <<phase, baseline>>
  /\ UNCHANGED <<msg, parseVars>>

HandleDelete(index) ==
  /\ phase = "entities" /\ index \in DOMAIN entities
  /\ entities' = Restrict(entities, DOMAIN entities \ {index})
  /\ sent' = Restrict(sent, DOMAIN sent \ {index})
  /\ UNCHANGED <<msg, phase, parseVars, baseline>>

\* get_child: the default field stands for none.
Child(f, i) == IF i + 1 \in DOMAIN f.field_serializer.fields
               THEN f.field_serializer.fields[i + 1] ELSE RootField(NoSerializer)

\* Mutant of Lookup: the component of the top level is skipped twice.
LookupSkipping(ser, path) ==
  LET found[n \in 0 .. Len(path)] ==
        CASE n = 0 -> RootField(ser)
          [] n = 2 -> found[1]
          [] OTHER -> Child(found[n - 1], path[n])
  IN  found[Len(path)]

\* get_serializer_field
Lookup(ser, path) ==
  LET found[n \in 0 .. Len(path)] ==
        IF n = 0 THEN RootField(ser) ELSE Child(found[n - 1], path[n])
  IN  found[Len(path)]

FieldsNext ==
  \/ ReuseField \/ ParseField \/ FinishSerializer \/ FinishParse
  \/ \E index \in Indexes :
       \/ \E own \in Updates(Data) : HandleCreate(index, own) \/ HandleUpdate(index, own)
       \/ HandleDelete(index)

FieldsSpec == FieldsInit /\ [][FieldsNext]_fieldVars

-----------------------------------------------------------------------------
(* Messages for which the code was written.                                 *)

Uses(s) == {msg.fields[msg.serializers[s].fields[i]] : i \in DOMAIN msg.serializers[s].fields}

\* Every version of a serializer is announced before a field refers to it.
Ordered ==
  \A s \in DOMAIN msg.serializers : \A proto \in Uses(s) :
    proto.ser # NoSymbol =>
      Definitions(proto.ser) # {} /\ \A d \in Definitions(proto.ser) : d < s

\* No array holds arrays or pointers, and an ident that is known to be a
\* vector has a serializer.
Plain ==
  \A s \in DOMAIN msg.serializers : \A proto \in Uses(s) :
    LET element == ElementType(proto.type)
        special == Metadata(DynamicSerializerArray, DefaultU64)
    IN /\ IsFixedArray(proto.type) \/ IsVector(proto.type) =>
            ~IsFixedArray(element) /\ ~IsVector(element) /\ ~IsPointer(element, proto)
       /\ VisitAny(proto.type, proto) = special => proto.ser # NoSymbol

Usual == Ordered /\ Plain

\* The fields of a serializer have different names.
Distinct ==
  \A s \in DOMAIN msg.serializers : \A i, j \in DOMAIN msg.serializers[s].fields :
    LET NameOf(k) == msg.fields[msg.serializers[s].fields[k]].name
    IN  NameOf(i) = NameOf(j) => i = j


-----------------------------------------------------------------------------
(* Properties *)

KeyOf(path) == NodeAt(path).key

InFixedArray(path) ==
  \E i \in 1 .. Len(path) - 1 : IsFixedArray(NodeAt(SubSeq(path, 1, i)).type)

Entries(index) == {entities[index][key] : key \in DOMAIN entities[index]}

(* The variables have their types, and what is kept of serializers and       *)
(* fields is what the message has.                                          *)
FieldsOK ==
  /\ phase \in {"serializers", "entities", "failed", "undefined"}
  /\ DOMAIN field_map \subseteq DOMAIN msg.fields
  /\ \A name \in DOMAIN serializer_map :
       LET ser == serializer_map[name]
       IN  msg.serializers[ser.def].name = name
           /\ Len(ser.fields) = Len(msg.serializers[ser.def].fields)
  /\ DOMAIN entities \subseteq Indexes

(* No child that does not exist is accessed, and no value is read with the   *)
(* decoder that only marks fields without one, for an update of the server, *)
(* if serializers are announced before they are used and arrays are not     *)
(* nested (flattenedserializers.rs:136-142, 202-210; entities.rs:226-258).  *)
UncheckedChildSound == phase = "undefined" => ~Usual

(* A field descends into the newest version of its serializer that had been  *)
(* announced when the field was first met, whole, and in every serializer   *)
(* that shares the field: neither into an older one, nor into one that came *)
(* later, nor into anything if there was none (flattenedserializers.rs:     *)
(* 256-260, 265-318, 321-324).                                              *)
NestedSerializer(f) ==
  IF f.metadata.descriptor.is \in {"FixedArray", "DynamicSerializerArray"}
  THEN f.field_serializer.fields[1].field_serializer ELSE f.field_serializer

UsedBy(index) ==
  {s \in DOMAIN msg.serializers :
     \E i \in DOMAIN msg.serializers[s].fields : msg.serializers[s].fields[i] = index}

IsVersion(ser, d) ==
  LET announced == msg.serializers[d].fields
  IN  /\ ser.def = d
      /\ DOMAIN ser.fields = DOMAIN announced
      /\ \A i \in DOMAIN announced :
           ser.fields[i].var_name = HashBytes(msg.fields[announced[i]].name)

IsNewestBefore(ser, name, s) ==
  LET known == {d \in Definitions(name) : d < s}
  IN  IF known = {} THEN ser = NoSerializer
      ELSE \E d \in known : (\A e \in known : e <= d) /\ IsVersion(ser, d)

ResolvedWhenMet(f, index) ==
  LET name == msg.fields[index].ser
  IN  name # NoSymbol =>
        \E first \in UsedBy(index) :
          /\ \A s \in UsedBy(index) : first <= s
          /\ IsNewestBefore(NestedSerializer(f), name, first)

\* Which of the message's fields it is.
IndexOf(ser, i) == msg.serializers[ser.def].fields[i]

ResolvedAtFirstUse ==
  \A name \in DOMAIN serializer_map : \A i \in DOMAIN serializer_map[name].fields :
    ResolvedWhenMet(serializer_map[name].fields[i], IndexOf(serializer_map[name], i))

(* Every value is read with the decoder of the type that the server has at   *)
(* its path: through vectors, fixed arrays, pointers and nested serializers *)
(* (flattenedserializers.rs:265-311, entities.rs:236-258).                  *)
DecodesAsSent ==
  Usual => \A index \in DOMAIN entities : \A entry \in Entries(index) :
    LET node == NodeAt(entry.value.sent.path)
    IN  entry.value.made = VisitAny(node.type, node.proto).decoder

(* If the fields of a serializer have different names, an entity has what    *)
(* the server sent last for each of its fields, or its baseline, and nothing *)
(* of other entities; only elements of the same fixed array take each       *)
(* other's place (entities.rs:262-273, 400-427, 449-465).                   *)
EntityAsSent ==
  Usual /\ Distinct => \A index \in DOMAIN entities :
    /\ \A path \in DOMAIN sent[index] :
         /\ KeyOf(path) \in DOMAIN entities[index]
         /\ LET value == entities[index][KeyOf(path)].value
            IN  /\ value.sent.datum = sent[index][value.sent.path]
                /\ value.sent.path # path =>
                     InFixedArray(path) /\ KeyOf(value.sent.path) = KeyOf(path)
    /\ \A entry \in Entries(index) : entry.value.sent.path \in DOMAIN sent[index]

(* get_serializer_field, of the path that an entity keeps for a field, finds  *)
(* the field that the value was read with, except in a vector, where it     *)
(* finds the first element only (entities.rs:324-342).                      *)
InLaterElement(path) ==
  \E i \in 2 .. Len(path) : path[i] > 0 /\ IsVector(NodeAt(SubSeq(path, 1, i - 1)).type)
LookupAgrees ==
  Usual => \A index \in DOMAIN entities : \A entry \in Entries(index) :
    ~InLaterElement(entry.path) =>
      Lookup(serializer_map[Class], entry.path) = Walk(serializer_map[Class], entry.path).field

(* fkey_from_path generates the key of a given path, and a user builds a key  *)
(* that has numbers by hashing all parts (entities.rs:137, 242-245): what   *)
(* was read for a path is found under the key of its names and numbers.     *)
UserPath(path) ==
  LET names == NodeAt(path).names
  IN  [i \in DOMAIN names |-> IF names[i].number = -1 THEN CharCodes(names[i].name)
                                                      ELSE <<names[i].number>>]
UserKeyFinds ==
  Usual /\ Distinct => \A index \in DOMAIN entities : \A path \in DOMAIN sent[index] :
    /\ FkeyFromPath(UserPath(path)) \in DOMAIN entities[index]
    /\ entities[index][FkeyFromPath(UserPath(path))].value.sent.path = path
=============================================================================
