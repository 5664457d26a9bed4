----------------------------- MODULE TypeExprs ------------------------------
(***************************************************************************)
(* The expressions that crates/haste_vartype makes of the name of a type,   *)
(* and that core/fieldmetadata.rs visits.                                   *)
(***************************************************************************)
Ident(name)      == [kind |-> "Ident", name |-> name]
Num(num)         == [kind |-> "Num", num |-> num]
Pointer(e)       == [kind |-> "Pointer", expr |-> e]
Template(e, arg) == [kind |-> "Template", expr |-> e, arg |-> arg]
Array(e, len)    == [kind |-> "Array", expr |-> e, len |-> len]
=============================================================================
