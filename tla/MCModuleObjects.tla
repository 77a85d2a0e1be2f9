-------------------------- MODULE MCModuleObjects ---------------------------
(***************************************************************************)
(* The module of docs/MODULES.md, one field of each kind: a number, a      *)
(* string, a constant and an array of structs, and a struct besides.       *)
(***************************************************************************)
EXTENDS ModuleObjects, TLC

Field(base, array, const) == [base |-> base, array |-> array, const |-> const]

MCFields ==
    "size" :> Field("num", FALSE, FALSE) @@ "path" :> Field("str", FALSE, FALSE)
        @@ "FILE_CREATE" :> Field("num", FALSE, TRUE)
        @@ "sections" :> Field("struct", TRUE, FALSE)
        @@ "info" :> Field("struct", FALSE, FALSE)

MCSubFields ==
    <<"sections", "name">> :> "str" @@ <<"sections", "bytes">> :> "num"
        @@ <<"info", "owner">> :> "str"

\* A module with an array of numbers and one of strings.
MCScalarFields ==
    "size" :> Field("num", FALSE, FALSE) @@ "FILE_CREATE" :> Field("num", FALSE, TRUE)
        @@ "ports" :> Field("num", TRUE, FALSE) @@ "names" :> Field("str", TRUE, FALSE)

NoSubFields == [p \in {} |-> "num"]
=============================================================================
