----------------------------- MODULE MCCompiler -----------------------------
(***************************************************************************)
(* Files that agree and files that collide: two that define a private rule *)
(* of the same name, one with a type error and an unknown rule, one that   *)
(* uses a module's name as a string, one with a syntax error, one whose    *)
(* rule references itself, one that references a rule outside a `for`, one *)
(* for a module the host program must include, and one whose first name is *)
(* that of a private rule, by which anonymous rules are found as well.     *)
(***************************************************************************)
EXTENDS Compiler

ImportOf(m) == [kind |-> "import", name |-> m]
RuleOf(name, private, event, refs) ==
    [kind |-> "rule", name |-> name, private |-> private, anonymous |-> FALSE, event |-> event,
     refs |-> refs, bare |-> {}, strings |-> {}, typed |-> TRUE]
Anonymous(event, refs) ==
    [RuleOf(NoName, TRUE, event, refs) EXCEPT !.anonymous = TRUE]
ExternalOf(name) == [kind |-> "external", name |-> name]
SequenceOf(name, rules) == [kind |-> "sequence", name |-> name, rules |-> rules]

MCBody ==
    [f \in Files |->
        CASE f = "first" ->
                << ImportOf("file"), RuleOf("p", TRUE, "file", {}), RuleOf("q", FALSE, "file", {"p"}),
                   SequenceOf("s", <<ExternalOf("p"), Anonymous("file", {"q"}), ExternalOf("q")>>) >>
          [] f = "second" ->
                << ImportOf("process"), RuleOf("p", TRUE, "process", {}),
                   SequenceOf("t", <<Anonymous("process", {"p"}), ExternalOf("p")>>) >>
          [] f = "wrong" ->
                << RuleOf("w", FALSE, NoName, {}), [RuleOf("v", FALSE, NoName, {}) EXCEPT !.typed = FALSE],
                   SequenceOf("u", <<ExternalOf("p")>>) >>
          [] f = "string" ->
                << ImportOf("process"), [RuleOf("x", FALSE, "process", {}) EXCEPT !.strings = {"file"}] >>
          [] f = "lone" ->
                << RuleOf("p", TRUE, NoName, {}),
                   SequenceOf("z", <<Anonymous(NoName, {"p"}), ExternalOf("p")>>) >>
          [] f = "self" -> << ImportOf("file"), RuleOf("r", FALSE, "file", {"r"}) >>
          [] f = "bare" ->
                << ImportOf("file"), RuleOf("a", FALSE, "file", {}),
                   [RuleOf("b", FALSE, "file", {"a"}) EXCEPT !.bare = {"a"}] >>
          [] f = "host" -> << ImportOf("net"), RuleOf("n", FALSE, "net", {}) >>
          [] f = "syntax" -> << >>]

MCPrefixed == [m \in Defaults \cup Custom |-> {m}]
=============================================================================
