------------------------------ MODULE Compiler ------------------------------
(***************************************************************************)
(* The compiler object (libalca/compiler.c) with the scope checks of the   *)
(* checker it calls (libalca/checker.c): files are added, parsed, checked  *)
(* one after the other against one environment, and their statements       *)
(* compiled in order into the module, rule and sequence tables that the VM *)
(* runs.                                                                   *)
(*                                                                         *)
(* A rule's condition is reduced to what scopes and tables depend on: the  *)
(* rules it references, those of them outside a `for`, the other strings   *)
(* it interns and whether the rest of it type checks (CodeGen models its   *)
(* code).  Adding a file that cannot be read or scanned changes nothing.   *)
(* Table indices are those of the code plus one.                           *)
(***************************************************************************)
EXTENDS Naturals, Sequences, FiniteSets

CONSTANTS
    Files,        \* file names
    Body,         \* [Files -> Seq(Statement)]: what a file parses to
    Unparsable,   \* the files with a syntax error
    Defaults,     \* the modules ac_compiler_new includes
    Custom,       \* further modules the host program may include
    NoName,       \* no event type; anonymous rules have no name
    Prefixed,     \* [module -> the names that begin with its name]
    MaxSources    \* bound: files added to one compiler

Import == [kind: {"import"}, name: STRING]
Rule == [kind: {"rule"}, name: STRING, private: BOOLEAN, anonymous: BOOLEAN, event: STRING,
         refs: SUBSET STRING, bare: SUBSET STRING, strings: SUBSET STRING, typed: BOOLEAN]
External == [kind: {"external"}, name: STRING]
Sequence == [kind: {"sequence"}, name: STRING, rules: Seq(Rule \cup External)]

\* The anonymous rules are the ones written in a sequence.
Named(s) ==
    /\ s.kind = "rule" => ~s.anonymous
    /\ s.kind = "sequence" =>
          \A k \in 1..Len(s.rules) : s.rules[k].kind = "rule" => s.rules[k].anonymous

ASSUME CompilerAssumption ==
    /\ \A f \in Files : Body[f] \in Seq(Import \cup Rule \cup Sequence)
    /\ \A f \in Files : \A j \in 1..Len(Body[f]) : Named(Body[f][j])
    /\ Unparsable \subseteq Files
    /\ NoName \in STRING \ (Defaults \cup Custom)
    /\ \A m \in Defaults \cup Custom : m \in Prefixed[m]
    /\ MaxSources \in Nat

VARIABLES
    sources,         \* compiler->sources, file names in the order added
    modules,         \* the modules of compiler->ctx
    parsed,          \* compiler->asts is set
    locked, done,
    env,             \* the environment: [name -> what it names]
    privates,        \* priv_vars of the checker of the current file
    strings,         \* strings in the data arena
    module_table,    \* module names by ordinal
    rule_table,
    sequence_table,
    module_name,     \* builder->module_name
    pc,              \* "idle", "check", "compile", or "crashed"
    call,            \* the API function that runs the check
    file, stmt,      \* loop indices: file, statement in it
    indices,         \* rule_indices of the sequence being compiled, so far
    rejected,        \* the statements the current or last check refused
    err              \* the error to return, or last returned

front == <<sources, modules, parsed, locked>>
scope == <<env, privates, rejected>>
tables == <<strings, module_table, rule_table, sequence_table, module_name>>
vars == <<sources, modules, parsed, locked, done, env, privates, rejected, strings,
          module_table, rule_table, sequence_table, module_name, pc, call, file, stmt,
          indices, err>>

\* ac_compiler_new
Init ==
    /\ sources = <<>> /\ modules = Defaults
    /\ parsed = FALSE /\ locked = FALSE /\ done = FALSE
    /\ env = <<>> /\ privates = {} /\ rejected = {}
    /\ strings = {} /\ module_table = <<>> /\ rule_table = <<>> /\ sequence_table = <<>>
    /\ module_name = NoName
    /\ pc = "idle" /\ call = "compile" /\ file = 1 /\ stmt = 1 /\ indices = <<>>
    /\ err = "SUCCESS"

-----------------------------------------------------------------------------
(* The API; a call that is refused only returns an error.                  *)

ac_compiler_include_module(m) ==
    /\ pc = "idle" /\ ~locked /\ ~done
    /\ modules' = modules \cup {m}
    /\ UNCHANGED <<sources, parsed, locked, done, pc, call, file, stmt, indices, err>>
    /\ UNCHANGED <<scope, tables>>

ac_compiler_add_file(f) ==
    /\ pc = "idle" /\ ~locked /\ ~done
    /\ Len(sources) < MaxSources
    /\ sources' = Append(sources, f)
    /\ UNCHANGED <<modules, parsed, locked, done, pc, call, file, stmt, indices, err>>
    /\ UNCHANGED <<scope, tables>>

\* Every source has a syntax tree; with no source there is no list of trees.
AllParse == \A i \in 1..Len(sources) : sources[i] \notin Unparsable

ac_compiler_build_ast ==
    /\ pc = "idle"
    /\ IF ~locked /\ AllParse
       THEN locked' = TRUE /\ parsed' = (sources # <<>>) /\ err' = "SUCCESS"
       ELSE err' = (IF locked THEN "LOCKED" ELSE "UNSUCCESSFUL") /\ UNCHANGED <<locked, parsed>>
    /\ UNCHANGED <<sources, modules, done, pc, call, file, stmt, indices>>
    /\ UNCHANGED <<scope, tables>>

\* The check of every source begins.
StartCheck(caller) ==
    /\ pc' = "check" /\ call' = caller
    /\ file' = 1 /\ stmt' = 1
    /\ privates' = {} /\ rejected' = {}
    /\ err' = "SUCCESS"

ac_compiler_check_ast ==
    /\ pc = "idle" /\ parsed /\ ~done
    /\ StartCheck("check")
    /\ UNCHANGED <<front, done, env, tables, indices>>

\* ac_compiler_compile builds the trees itself, so a locked compiler, one whose
\* trees exist or whose check has failed before, is refused.
ac_compiler_compile ==
    /\ pc = "idle" /\ ~done /\ sources # <<>> /\ ~locked /\ AllParse
    /\ locked' = TRUE /\ parsed' = TRUE
    /\ StartCheck("compile")
    /\ UNCHANGED <<sources, modules, done, env, tables, indices>>

CompileRefused ==
    /\ pc = "idle"
    /\ err' = CASE done -> "DONE"
                [] ~done /\ sources = <<>> -> "NO_SOURCE"
                [] ~done /\ sources # <<>> /\ locked -> "LOCKED"
                [] OTHER -> "UNSUCCESSFUL"
    /\ done \/ sources = <<>> \/ locked \/ ~AllParse
    /\ UNCHANGED <<front, done, pc, call, file, stmt, indices>>
    /\ UNCHANGED <<scope, tables>>

-----------------------------------------------------------------------------
(* The checker *)

Statements == Body[sources[file]]
AtStatement(phase, kind) ==
    pc = phase /\ file <= Len(sources) /\ stmt <= Len(Statements) /\ Statements[stmt].kind = kind
Stmt == Statements[stmt]

\* A condition under environment e.  A name that is not a rule with the same
\* event type is an error.
check_type(r, e) ==
    r.typed /\ \A n \in r.refs : n \in DOMAIN e /\ e[n].type = "rule" /\ e[n].event = r.event

\* The rule's event type and its condition; the name is already in e.
check_body(r, e) == (r.event = NoName \/ r.event \in modules) /\ check_type(r, e)

Extend(name, item) == [n \in DOMAIN env \cup {name} |-> IF n = name THEN item ELSE env[n]]

Item(type, event) == [type |-> type, event |-> event, src |-> sources[file]]

\* On to the next statement, this one being refused or not.
Verdict(ok) ==
    /\ rejected' = IF ok THEN rejected ELSE rejected \cup {<<file, stmt>>}
    /\ stmt' = stmt + 1
    /\ UNCHANGED <<front, done, tables, pc, call, file, indices, err>>

checker_import ==
    /\ AtStatement("check", "import")
    /\ env' = IF Stmt.name \in DOMAIN env THEN env ELSE Extend(Stmt.name, Item("import", NoName))
    /\ UNCHANGED privates
    /\ Verdict(TRUE)

\* The name enters the environment before the condition is checked.
checker_check_rule ==
    /\ AtStatement("check", "rule")
    /\ IF Stmt.name \in DOMAIN env
       THEN Verdict(FALSE) /\ UNCHANGED <<env, privates>>
       ELSE /\ env' = Extend(Stmt.name, Item("rule", Stmt.event))
            /\ privates' = IF Stmt.private THEN privates \cup {Stmt.name} ELSE privates
            /\ Verdict(check_body(Stmt, env'))

\* An element of a sequence: an anonymous rule, or the name of a rule of this file.
check_element(r, e) ==
    IF r.kind = "external"
    THEN r.name \in DOMAIN e /\ e[r.name].type = "rule" /\ e[r.name].src = sources[file]
    ELSE check_body(r, e)

checker_check_sequence ==
    /\ AtStatement("check", "sequence")
    /\ UNCHANGED privates
    /\ IF Stmt.name \in DOMAIN env
       THEN Verdict(FALSE) /\ UNCHANGED env
       ELSE /\ env' = Extend(Stmt.name, Item("sequence", NoName))
            /\ Verdict(\A k \in 1..Len(Stmt.rules) : check_element(Stmt.rules[k], env'))

KeepsPrivates ==   \* mutant: checker_free_private_vars is not called
    /\ pc = "check" /\ file <= Len(sources) /\ stmt > Len(Statements)
    /\ privates' = {}
    /\ err' = IF \E p \in rejected : p[1] = file THEN "UNSUCCESSFUL" ELSE "SUCCESS"
    /\ file' = file + 1 /\ stmt' = 1
    /\ UNCHANGED <<front, done, env, rejected, tables, pc, call, indices>>

\* The end of a file: private rules leave the scope, and the file's verdict
\* replaces the one of the file before.
EndOfCheckedFile ==
    /\ pc = "check" /\ file <= Len(sources) /\ stmt > Len(Statements)
    /\ env' = [n \in DOMAIN env \ privates |-> env[n]]
    /\ privates' = {}
    /\ err' = IF \E p \in rejected : p[1] = file THEN "UNSUCCESSFUL" ELSE "SUCCESS"
    /\ file' = file + 1 /\ stmt' = 1
    /\ UNCHANGED <<front, done, rejected, tables, pc, call, indices>>

\* ac_compiler_check_ast returns; ac_compiler_compile goes on if it succeeded.
EndOfCheck ==
    /\ pc = "check" /\ file > Len(sources)
    /\ IF call = "compile" /\ err = "SUCCESS"
       THEN pc' = "compile" /\ done' = TRUE
       ELSE pc' = "idle" /\ UNCHANGED done
    /\ file' = 1 /\ stmt' = 1
    /\ UNCHANGED <<front, scope, tables, call, indices, err>>

-----------------------------------------------------------------------------
(* The statements compiled in order (compiler_compile_statements) *)

ImportUnknown ==   \* mutant: the module's existence is not checked
    /\ AtStatement("compile", "import")
    /\ strings' = strings \cup {Stmt.name}
    /\ module_table' = IF Stmt.name \in strings THEN module_table
                                                ELSE Append(module_table, Stmt.name)
    /\ stmt' = stmt + 1
    /\ UNCHANGED <<front, done, scope, rule_table, sequence_table, module_name, pc, call, file,
                   indices, err>>

\* A module whose name was already interned is taken to be in the table.
compiler_compile_import ==
    /\ AtStatement("compile", "import")
    /\ strings' = strings \cup {Stmt.name}
    /\ IF Stmt.name \in strings
       THEN UNCHANGED <<module_table, err>>
       ELSE IF Stmt.name \in modules
            THEN module_table' = Append(module_table, Stmt.name) /\ UNCHANGED err
            ELSE err' = "MODULE" /\ UNCHANGED module_table
    /\ stmt' = stmt + 1
    /\ UNCHANGED <<front, done, scope, rule_table, sequence_table, module_name, pc, call, file, indices>>

\* The first module whose name is a prefix of the event type; 0 if there is none.
compiler_find_module_ordinal(event) ==
    IF \E o \in 1..Len(module_table) : event \in Prefixed[module_table[o]]
    THEN CHOOSE o \in 1..Len(module_table) :
            /\ event \in Prefixed[module_table[o]]
            /\ \A p \in 1..(o - 1) : event \notin Prefixed[module_table[p]]
    ELSE 0

FindLast(table, name) ==   \* mutant: the loop does not stop at the first rule found
    IF \E i \in 1..Len(table) : table[i].name = name
    THEN CHOOSE i \in 1..Len(table) :
            table[i].name = name /\ \A j \in (i + 1)..Len(table) : table[j].name # name
    ELSE 0

\* The rule that a name stands for: the first of that name, 0 if there is none.
find_rule_idx_by_name(table, name) ==
    IF \E i \in 1..Len(table) : table[i].name = name
    THEN CHOOSE i \in 1..Len(table) :
            table[i].name = name /\ \A j \in 1..(i - 1) : table[j].name # name
    ELSE 0

OwnName(r) == IF r.anonymous THEN {} ELSE {r.name}

\* Compiling rule r, element k of a sequence (0 for a statement of its own).
RuleCompiles(r) == r.event = NoName \/
    (compiler_find_module_ordinal(r.event) # 0 /\ r.event \in modules)

ModuleAfter(r) == IF r.event = NoName THEN module_name ELSE r.event

\* Outside a `for` the emitter compares a rule's name with a null pointer.
NullIterator(r) == RuleCompiles(r) /\ ModuleAfter(r) # NoName /\ r.bare \ {ModuleAfter(r)} # {}

\* The string at offset 0 of the data arena: the name of the first statement.
FirstString ==
    LET i == CHOOSE i \in 1..Len(sources) :
                Body[sources[i]] # <<>> /\ \A j \in 1..(i - 1) : Body[sources[j]] = <<>>
    IN  Body[sources[i]][1].name

\* The name an entry is found by; that of an anonymous rule has offset 0.
EntryName(r) == IF r.anonymous THEN FirstString ELSE r.name

\* at, where the entry comes from in the sources, is known to the model only.
RuleEntry(r, k) ==
    [name |-> EntryName(r), private |-> r.private, anonymous |-> r.anonymous,
     ordinal |-> IF r.event = NoName THEN 0 ELSE compiler_find_module_ordinal(r.event),
     refs |-> r.refs, at |-> <<file, stmt, k>>]

ErrorForgotten(r, k) ==   \* mutant: returns success for a module not included
    IF RuleCompiles(r)
    THEN /\ strings' = strings \cup OwnName(r) \cup r.refs \cup r.strings
         /\ module_name' = ModuleAfter(r)
         /\ rule_table' = Append(rule_table, RuleEntry(r, k))
         /\ UNCHANGED err
    ELSE strings' = strings \cup OwnName(r) /\ UNCHANGED <<module_name, rule_table, err>>

compiler_compile_rule(r, k) ==
    IF RuleCompiles(r)
    THEN /\ strings' = strings \cup OwnName(r) \cup r.refs \cup r.strings
         /\ module_name' = ModuleAfter(r)
         /\ rule_table' = Append(rule_table, RuleEntry(r, k))
         /\ UNCHANGED err
    ELSE /\ strings' = strings \cup OwnName(r)
         /\ err' = IF compiler_find_module_ordinal(r.event) = 0 THEN "UNSUCCESSFUL" ELSE "MODULE"
         /\ UNCHANGED <<module_name, rule_table>>

CompileRule ==
    /\ AtStatement("compile", "rule")
    /\ ~NullIterator(Stmt)
    /\ compiler_compile_rule(Stmt, 0)
    /\ stmt' = stmt + 1
    /\ UNCHANGED <<front, done, scope, module_table, sequence_table, pc, call, file, indices>>

Element == Stmt.rules[Len(indices) + 1]
AtElement(kind) ==
    /\ AtStatement("compile", "sequence")
    /\ Len(indices) < Len(Stmt.rules)
    /\ Element.kind = kind

\* A rule that is not found leaves the index as it was allocated, 0.
IndexOf(i) == IF i = 0 THEN 1 ELSE i

CompileExternal ==
    /\ AtElement("external")
    /\ indices' = Append(indices, IndexOf(find_rule_idx_by_name(rule_table, Element.name)))
    /\ UNCHANGED <<front, done, scope, tables, pc, call, file, stmt, err>>

IndexBefore ==   \* mutant: the index is that of the entry before
    /\ AtElement("rule")
    /\ ~NullIterator(Element)
    /\ compiler_compile_rule(Element, Len(indices) + 1)
    /\ indices' = Append(indices, IndexOf(Len(rule_table)))
    /\ UNCHANGED <<front, done, scope, module_table, sequence_table, pc, call, file, stmt>>

CompileAnonymous ==
    /\ AtElement("rule")
    /\ ~NullIterator(Element)
    /\ compiler_compile_rule(Element, Len(indices) + 1)
    /\ indices' = Append(indices, IF RuleCompiles(Element) THEN Len(rule_table') ELSE IndexOf(0))
    /\ UNCHANGED <<front, done, scope, module_table, sequence_table, pc, call, file, stmt>>

\* The entry is added even when an element failed.
compiler_add_sequence_entry ==
    /\ AtStatement("compile", "sequence")
    /\ Len(indices) = Len(Stmt.rules)
    /\ strings' = strings \cup {Stmt.name}
    /\ sequence_table' = Append(sequence_table,
                                [name |-> Stmt.name, rules |-> indices, at |-> <<file, stmt>>])
    /\ indices' = <<>>
    /\ stmt' = stmt + 1
    /\ UNCHANGED <<front, done, scope, module_table, rule_table, module_name, pc, call, file, err>>

Crash ==
    /\ \/ AtStatement("compile", "rule") /\ NullIterator(Stmt)
       \/ AtElement("rule") /\ NullIterator(Element)
    /\ pc' = "crashed"
    /\ UNCHANGED <<front, done, scope, tables, call, file, stmt, indices, err>>

EndOfCompiledFile ==
    /\ pc = "compile" /\ file <= Len(sources) /\ stmt > Len(Statements)
    /\ file' = file + 1 /\ stmt' = 1
    /\ UNCHANGED <<front, done, scope, tables, pc, call, indices, err>>

EndOfCompile ==
    /\ pc = "compile" /\ file > Len(sources)
    /\ pc' = "idle"
    /\ file' = 1 /\ stmt' = 1
    /\ UNCHANGED <<front, done, scope, tables, call, indices, err>>

Step ==
    \/ checker_import \/ checker_check_rule \/ checker_check_sequence
    \/ EndOfCheckedFile \/ EndOfCheck
    \/ compiler_compile_import \/ CompileRule \/ CompileExternal \/ CompileAnonymous
    \/ compiler_add_sequence_entry \/ Crash \/ EndOfCompiledFile \/ EndOfCompile

Next ==
    \/ \E m \in Custom : ac_compiler_include_module(m)
    \/ \E f \in Files : ac_compiler_add_file(f)
    \/ ac_compiler_build_ast \/ ac_compiler_check_ast \/ ac_compiler_compile \/ CompileRefused
    \/ Step

Spec == Init /\ [][Next]_vars

\* Check and compilation are loops of the calling thread.
FairSpec == Spec /\ WF_vars(Step)

-----------------------------------------------------------------------------
Errors == {"SUCCESS", "UNSUCCESSFUL", "MODULE", "LOCKED", "DONE", "NO_SOURCE"}
Position == (1..MaxSources) \X (Nat \ {0})
Scoped == [type: {"rule", "sequence", "import"}, event: STRING, src: Files]
RuleRecord == [name: STRING, private: BOOLEAN, anonymous: BOOLEAN, ordinal: Nat,
               refs: SUBSET STRING, at: (1..MaxSources) \X (Nat \ {0}) \X Nat]
SequenceRecord == [name: STRING, rules: Seq(Nat \ {0}), at: Position]

TypeOK ==
    /\ sources \in Seq(Files) /\ Len(sources) <= MaxSources
    /\ modules \subseteq Defaults \cup Custom
    /\ parsed \in BOOLEAN /\ locked \in BOOLEAN /\ done \in BOOLEAN
    /\ \A n \in DOMAIN env : n \in STRING /\ env[n] \in Scoped
    /\ privates \subseteq STRING
    /\ rejected \subseteq Position
    /\ strings \subseteq STRING
    /\ module_table \in Seq(modules)
    /\ rule_table \in Seq(RuleRecord)
    /\ sequence_table \in Seq(SequenceRecord)
    /\ module_name \in STRING
    /\ pc \in {"idle", "check", "compile", "crashed"}
    /\ call \in {"check", "compile"}
    /\ file \in 1..(MaxSources + 1) /\ stmt \in Nat \ {0}
    /\ indices \in Seq(Nat \ {0})
    /\ err \in Errors

\* A private rule is known only while its own file is checked: a name in scope
\* is private to the file being checked, or some file defines it publicly.
PrivateStaysInFile ==
    /\ pc # "check" => privates = {}
    /\ \A n \in DOMAIN env \ privates :
          \E i \in 1..Len(sources) : \E d \in {Body[sources[i]][j] : j \in 1..Len(Body[sources[i]])} :
              d.name = n /\ (d.kind = "rule" => ~d.private)

\* Compilation of sources that passed the check, so far without an error.
Clean == done /\ rejected = {} /\ err = "SUCCESS"

\* In sources that passed the check a reference never resolves to a later rule:
\* rules cannot call each other in a circle, only a rule itself.
ReferencesGoBack ==
    Clean => \A i \in 1..Len(rule_table) : \A n \in rule_table[i].refs :
                 find_rule_idx_by_name(rule_table, n) \in 1..i

\* The element of the source that index k of a sequence entry stands for.
ElementOf(s, k) == Body[sources[s.at[1]]][s.at[2]].rules[k]

RuleNamesOf(i) ==
    {n \in {Body[sources[i]][j].name : j \in 1..Len(Body[sources[i]])} :
        \E j \in 1..Len(Body[sources[i]]) :
            Body[sources[i]][j].kind = "rule" /\ Body[sources[i]][j].name = n}

NamesUnique == \A i, j \in 1..Len(sources) : i # j => RuleNamesOf(i) \cap RuleNamesOf(j) = {}

\* Every index of a sequence entry is that of the rule written at that place:
\* the anonymous rule itself, or a rule of that name, of the same file if no
\* other file has a rule of that name.
SequencesResolve ==
    Clean => \A i \in 1..Len(sequence_table) :
        LET s == sequence_table[i]
        IN  \A k \in 1..Len(s.rules) :
              /\ s.rules[k] <= Len(rule_table)
              /\ LET e == rule_table[s.rules[k]]
                 IN  IF ElementOf(s, k).kind = "rule" THEN e.at = <<s.at[1], s.at[2], k>>
                     ELSE /\ e.name = ElementOf(s, k).name
                          /\ NamesUnique => e.at[1] = s.at[1]

\* The statements of the sources by position, and the rules written there: a
\* rule statement, or the anonymous rules of a sequence.
Written == UNION {{<<i, j>> : j \in 1..Len(Body[sources[i]])} : i \in 1..Len(sources)}
At(p) == Body[sources[p[1]]][p[2]]
RulesAt(p) ==
    CASE At(p).kind = "rule" -> {[at |-> <<p[1], p[2], 0>>, rule |-> At(p)]}
      [] At(p).kind = "sequence" ->
            {[at |-> <<p[1], p[2], k>>, rule |-> At(p).rules[k]] : k \in
                {m \in 1..Len(At(p).rules) : At(p).rules[m].kind = "rule"}}
      [] At(p).kind = "import" -> {}

\* When ac_compiler_compile returns success, every rule written in the sources
\* has one entry in the rule table, with its flags and the ordinal of its module.
SuccessIsComplete ==
    pc = "idle" /\ done /\ err = "SUCCESS" =>
        \A p \in Written : \A w \in RulesAt(p) :
            LET entries == {i \in 1..Len(rule_table) : rule_table[i].at = w.at}
            IN  /\ Cardinality(entries) = 1
                /\ \A i \in entries :
                      /\ rule_table[i].private = w.rule.private
                      /\ rule_table[i].anonymous = w.rule.anonymous
                      /\ w.rule.event # NoName =>
                            module_table[rule_table[i].ordinal] = w.rule.event

-----------------------------------------------------------------------------
\* What comments and documents say; see the findings.

\* docs/RULES.md: all types are checked at compile time.
SuccessMeansChecked == pc = "idle" /\ err = "SUCCESS" => rejected = {}

\* docs/RULES.md: a rule may include another rule's name; compiling one returns.
CompileReturns == pc = "compile" ~> pc = "idle"
=============================================================================
