---------------------------- MODULE MCEntityData ----------------------------
(***************************************************************************)
(* The machines that read the data of a demo, explored one beside the other: *)
(* a behaviour is one of the part that its first state chooses.             *)
(***************************************************************************)
EXTENDS EntityFields, VarTypes, FloatDecoding, StringHistory, DemoFile, BitReader

\* Fields

MCCharCodes(name) ==
  CASE name = "m_flSimulationTime" -> <<116>>
    [] name = "a" -> <<97>>  [] name = "p" -> <<112>> [] name = "v" -> <<118>>
    [] name = "w" -> <<119>> [] name = "f" -> <<102>> [] name = "g" -> <<103>>
    [] name = "e" -> <<101>> [] name = "s" -> <<115>> [] name = "n" -> <<110>>
    [] name = "h" -> <<104>> [] name = "q" -> <<113>> [] name = "x" -> <<120>>
    [] name = "y" -> <<121>> [] name = "z" -> <<122>> [] name = "l" -> <<108>>
    [] name = "d" -> <<100>> [] name = "b" -> <<98>>

Proto(name, type, ser, enc) ==
  [name |-> name, type |-> type, ser |-> ser, enc |-> enc, bits |-> 0,
   flags |-> {}, low |-> 0, high |-> 0]
Vec(arg) == Template(Ident("CNetworkUtlVectorBase"), arg)

\* Fields 1 and 2 are those of the nested serializer.
MCFields == <<
  Proto("x", Ident("bool"), NoSymbol, NoSymbol),
  Proto("y", Ident("QAngle"), NoSymbol, "qangle_precise"),
  Proto("a", Ident("int32"), NoSymbol, NoSymbol),
  Proto("p", Ident("CBodyComponent"), "S", NoSymbol),
  Proto("v", Vec(Ident("Vector")), NoSymbol, "coord"),
  Proto("w", Vec(Ident("S_t")), "S", NoSymbol),
  Proto("f", Array(Ident("int32"), Num(2)), NoSymbol, NoSymbol),
  Proto("g", Array(Ident("S_t"), Num(2)), "S", NoSymbol),
  Proto("e", Ident("S_t"), "S", NoSymbol),
  Proto("s", Array(Ident("char"), Num(4)), NoSymbol, NoSymbol),
  Proto("q", Pointer(Ident("S_t")), "S", NoSymbol),
  Proto("d", Ident("DOTA_CombatLogQueryProgress"), "S", NoSymbol),
  Proto("m_flSimulationTime", Ident("float32"), NoSymbol, NoSymbol),
  Proto("z", Array(Template(Ident("CHandle"), Ident("S_t")), Num(2)), NoSymbol, "fixed64"),
  Proto("n", Vec(Vec(Ident("bool"))), NoSymbol, NoSymbol),
  Proto("h", Array(Vec(Ident("S_t")), Num(2)), "S", NoSymbol),
  Proto("l", Pointer(Ident("C_t")), "C", NoSymbol),
  Proto("b", Ident("float32"), NoSymbol, "unheard_of"),
  [Proto("b", Ident("float32"), NoSymbol, NoSymbol) EXCEPT !.bits = 8, !.flags = {"down", "up"}],
  Proto("b", Array(Ident("int32"), Ident("MAX_SOMETHING")), NoSymbol, NoSymbol),
  Proto("b", Template(Pointer(Ident("S_t")), Ident("S_t")), NoSymbol, NoSymbol)
>>

Serializer(name, fields) == [name |-> name, fields |-> fields]
ClassFields == {<<f>> : f \in 3 .. Len(MCFields)} \union
  {<<3, 4>>, <<5, 6>>, <<7, 3>>, <<8, 9>>, <<10, 11>>, <<12, 14>>, <<4, 5, 7>>}
Orders(fields) ==
  LET one == Serializer("S", <<1>>)
      two == Serializer("S", <<1, 2>>)
      c   == Serializer("C", fields)
  IN {<<two, c>>, <<one, two, c>>, <<one, c, two>>, <<c, two>>,
      <<two, Serializer("B", fields), c>>, <<one, Serializer("B", fields), two, c>>}
MCMessages == {[fields |-> MCFields, serializers |-> s] : s \in UNION {Orders(f) : f \in ClassFields}}

\* Names of types
Alphabet == {"<", ">", "[", "]", "*", "a", "7", " "}
MCInputs == UNION {[1 .. n -> Alphabet] : n \in 0 .. 4} \union {
  <<"a", "<", " ", "a", "<", "a", "*", ">", " ", ">">>,
  <<"a", "<", "a", ">", "[", "7", "7", "]">>,
  <<"a", "<", "a", "[", "a", "_", "7", "]", ">", "*">>,
  <<"a", "<", "a", "]", ">">>, <<"a", "[", "9", "]", "*">>,
  <<"a", "*", "[", "7", "]", "<", "a", ">">>, <<"a", "[", "?", "]">>, <<"a", "<", "?">>, <<"?", "a">>
}
MCFitsUsize(text) == "9" \notin {text[i] : i \in DOMAIN text}

\* Floats
MCHalves == -4 .. 4

\* Keys of string tables
MCKeys == {<<1>>, <<1, 2>>, <<2, 2, 1>>}

\* Demos: the last command is the file info, and the file may end earlier.
Laid(sizes) ==
  LET start(k) == HeaderSize +
        FoldLeft(LAMBDA sum, c : sum + c[1] + c[2], 0, SubSeq(sizes, 1, k - 1))
  IN  [k \in DOMAIN sizes |-> Command(start(k), sizes[k][1], sizes[k][2], sizes[k][3])]
MCCommands == {
  Laid(<<<<1, 2, 0>>, <<2, 1, 2>>, <<1, 0, 0>>, <<1, 2, 1>>>>),
  Laid(<<<<2, 1, -1>>, <<1, 4, 0>>, <<1, 1, 0>>>>),
  Laid(<<<<1, 1, 3>>, <<2, 5, 0>>, <<1, 2, -1>>>>)}
MCFiles ==
  {[stamped |-> stamped, commands |-> commands, length |-> length, info |-> info] :
     stamped \in BOOLEAN, commands \in MCCommands, length \in 0 .. 12, info \in {0, 3, 4}}

\* Bits: values at the edges of their encodings.
Sample(kind, values) == {[kind |-> kind, value |-> v] : v \in values}
Normal(x, y, negative) == <<x, y, Third(x, y, negative)>>
MCSamples == UNION {
  Sample("bool", {{0}}), Sample("fixed64", {{1, 63}}),
  Sample("ubitvar", {{3}, {7, 11}, {12, 31}}),
  Sample("ubitvarfp", {{1}, {16}, {0, 30}}),
  Sample("bitangle", {{19}}),
  Sample("uvarint32", {{31}}), Sample("varint32", {0 .. 31}), Sample("varint64", {{0, 62}}),
  Sample("bitcoord", {-5, 32 * 16384}), Sample("vec3coord", {<<0, -7, 96>>}),
  Sample("vec3normal", {Normal(0, 1000, FALSE), Normal(-2047, 2047, TRUE)}),
  Sample("string", {<<{0, 6}, NewLine>>, <<{6}, {6}, {6}>>}), Sample("line", {<<{6}>>})}

-----------------------------------------------------------------------------
VARIABLE part

parts == <<fieldVars, varTypeVars, floatVars, historyVars, demoVars, bitVars>>

Init ==
  /\ part \in {"fields", "types", "floats", "history", "demo", "bits"}
  /\ IF part = "fields" THEN msg \in Messages ELSE msg = CHOOSE m \in Messages : TRUE
  /\ IF part = "types" THEN input \in Inputs ELSE input = <<>>
  /\ IF part = "demo" THEN file \in Files ELSE file = CHOOSE f \in Files : TRUE
  /\ FieldsInit /\ VarTypesInit /\ FloatInit /\ HistoryInit /\ DemoInit /\ BitsInit

Next ==
  /\ UNCHANGED part
  /\ \/ /\ part = "fields"  /\ FieldsNext
        /\ UNCHANGED <<varTypeVars, floatVars, historyVars, demoVars, bitVars>>
     \/ /\ part = "types"   /\ VarTypesNext
        /\ UNCHANGED <<fieldVars, floatVars, historyVars, demoVars, bitVars>>
     \/ /\ part = "floats"  /\ FloatNext
        /\ UNCHANGED <<fieldVars, varTypeVars, historyVars, demoVars, bitVars>>
     \/ /\ part = "history" /\ HistoryNext
        /\ UNCHANGED <<fieldVars, varTypeVars, floatVars, demoVars, bitVars>>
     \/ /\ part = "demo"    /\ DemoNext
        /\ UNCHANGED <<fieldVars, varTypeVars, floatVars, historyVars, bitVars>>
     \/ /\ part = "bits"    /\ BitsNext
        /\ UNCHANGED <<fieldVars, varTypeVars, floatVars, historyVars, demoVars>>

Spec == Init /\ [][Next]_<<part, parts>>
=============================================================================
