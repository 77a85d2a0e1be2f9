# A specification of ALCA in TLA+

ALCA is a language for behavioural rules over event data: a compiler turns rule
files into bytecode, and a virtual machine runs the rules on every event a
sensor delivers, reports the rules that trigger and the *sequences* of rules
that triggered in order. This directory models the parts of it that carry its
logic, checks them with TLC and proves theorems of the event loop, the interpreter,
the modules' objects, the sensor session, the compiler and the scanner with TLAPS. All
paths below are relative to `src/`.

## The system

| component | code | state it keeps | operations |
|---|---|---|---|
| lexer | `libalca/lexer.c` | position in the source, line, tokens | `ac_lex_scan`, one `lex_scanToken` per lexeme |
| parser | `libalca/parser.c`, `expr.c` | current token, error flag, the trees | `ac_psr_ast` and one function per production |
| checker | `libalca/checker.c` | the environment (all files), `priv_vars` (this file), the iterator in scope | `ac_checker_check` per file, one function per kind of statement and expression |
| compiler | `libalca/compiler.c` | sources, trees, `locked`, `done`, module, rule and sequence tables | include a module, add a file, build trees, check, compile, export, free |
| code generator | `libalca/bytecode.c`, `arena.c` | code and data arenas, `module_name`, `iter` | one emitter per kind of expression |
| VM, event loop | `libalca/vm.c:186-376` | `ntriggers`, trigger times per sequence and rule, callbacks, module data | add a callback, `ac_vm_exec` |
| VM, interpreter | `libalca/vm.c:378-932` | the operand stack and `sp` (for the VM's life), accumulators and `ip` per call | one handler per instruction |
| module objects, context | `libalca/context.c`, `module.c` | modules, their field objects and values | load, unmarshal, read fields, clear |
| default modules | `libalca/modules/*.c` | – | field declarations and unmarshal callbacks |
| sensor session | `cli/alca.cpp`, `conn.cpp`, `modules.cpp`, `libalca/packet.c` | one stream socket, the VM | connect, await, submit, read packets and execute them |
| utilities | `libalca/utils.c` | – | memory, files, the wall clock |
| vendored or generated | `libalca/hashmap.c`, `cli/alca.fb.hpp`, `libs/include/pcre2.h` | – | – |

How they interact: the compiler calls parser, checker and code generator in
process; the only objects that pass on are the syntax trees and the tables. The
VM takes the compiler's tables and context by pointer. `ac_vm_exec` is called
with one event at a time; it calls the module's unmarshal callback, the
interpreter for each matching rule, and the host's trigger callbacks. The CLI is
such a host: it reads packets from the sensor and calls `ac_vm_exec` for each.
The library starts no threads and takes no locks. What makes it hard is not
parallelism but state that outlives a call, errors in the middle of one, and the
order of events, files and triggers.

### Behaviours that are hard, and what correctness means

- **Event loop and sequences.** Events arrive in any order and rules trigger
  again and again, yet a sequence keeps one time per rule. *Correct*: that time
  always is the one of the rule's latest trigger; a sequence is reported only if
  the whole trigger history justifies it; a failing rule neither stops the rules
  after it nor lets its error be lost; counters and module data are those of the
  current event; every call returns.
- **Interpreter and code generator.** Jump distances are byte counts; operands
  carry no type; one stack serves all rules forever, and rules that fail leave
  operands on it. *Correct*: a compiled rule yields what its source means,
  whatever ran before; it pops only what it pushed and takes every operand for
  what it is; jumps land on instructions; it ends.
- **Compiler and checker.** Files share one environment and one rule table, but
  private names belong to a file; the order of API calls and of statements
  decides. *Correct*: private names stay in their file, references go back,
  indices in the sequence table are those of the rules written there, success
  means that everything was checked and compiled.
- **Module objects.** Fields not set by an event keep the value of an earlier one
  unless cleared, also after a failure. *Correct*: rules see fields of the current
  event only; no pointer dangles; between events nothing stays allocated that is
  not accounted for.
- **Sensor session.** A stream socket returns parts of packets, may end anywhere,
  and sensors may send packets of any kind at any time. *Correct*: an event is
  executed once and in order; malformed packets cost nothing but themselves as long
  as the program is in step with the stream; the socket is closed; the session
  ends when the program is told of the end of the connection.
- **Lexer, parser, types.** A file may end in, at or after any lexeme; precedence is
  the order in which a dozen functions call each other; an error in a nested
  expression unwinds through functions that each free a part of the tree; types are
  stored in the nodes on the way and trusted from then on. *Correct*: the tokens are
  those that were written; the trees are those of the language; a file is handed on
  whole or not at all, and nothing is freed twice; it is accepted if it is well typed.

## The modules

| module | what it is |
|---|---|
| `SequenceDefs` | clock readings, the sequence table, and what it means for a trigger history to satisfy a sequence |
| `TriggerTimes` | abstract specification: a history of triggers and the sequence reports it justifies |
| `VmTriggers` | the event loop of `vm.c` and its properties |
| `VmTriggersProofs` | its theorems |
| `Lexer` | `lexer.c`: one step per lexeme |
| `LexicalGrammar` | the lexemes of the language, declared without the scanner's steps; files written in them, and the tokens that should come of them |
| `LexerProofs` | the theorems of `Lexer`: that the two agree |
| `Parser` | `parser.c`, `expr.c`: from tokens to statements and trees, and what is freed after an error |
| `TypeChecker` | the types of expressions in `checker.c`: from a tree to its type and the tree with types stored in it |
| `FrontEnd` | composes the three: a file from its text to the checker's verdict |
| `Language` | what the front end promises: trees and types declared without its steps, and the properties that compare them |
| `CodeGen` | `bytecode.c`: from typed syntax trees to a sequence of cells, one per byte |
| `VmInterp` | `ac_vm_exec_code`: one action per group of instructions that do the same thing to the stack |
| `StackShapes` | what the interpreter takes for granted of the code it runs, one instruction at a time |
| `VmInterpProofs` | the theorems of `VmInterp`, for all code of which that is true |
| `RuleExecution` | composes `TypeChecker`, `CodeGen` and `VmInterp`, works out the shapes of compiled code, and gives the meaning of an expression that their product must agree with |
| `Compiler` | compiler life cycle, scopes of the checker, the three tables |
| `CompilerProofs` | its theorems |
| `SensorSession` | the command line program from the connection to its end: submission, answer, event packets |
| `SensorSessionProofs` | its theorems |
| `ModuleObjects` | the object of a module: fields, arrays and structs through unmarshalling and clearing |
| `ModuleObjectsProofs` | its theorems |
| `MC...` | instances for TLC |

`FrontEnd` and `RuleExecution` meet in `TypeChecker`: the one checks whole files with
it, the other starts from trees as the parser leaves them and compiles what it
stores in them. `Compiler` takes of a file what its statements declare and name and
whether they type check, which is what `FrontEnd` decides.

`RuleExecution` and `VmTriggers` meet in what a rule's run returns: VmTriggers lets
a matching rule trigger, not trigger, or end in an error (an error never triggers),
which are the results VmInterp produces. The one exception, the full stack that
counts as a trigger, is the finding of the run `overflow`. `Compiler`
and `VmTriggers` meet in the rule and sequence tables: `RuleTable` and
`SequenceTable` are arbitrary constants for the VM, so what is proved about it
holds for every output of the compiler. `SensorSession` meets `VmTriggers` in the
order of `executed`, the calls of `ac_vm_exec`: an event that cannot be decoded
there is refused by `RejectEvent` or `RejectUnmarshal` and changes nothing.

### VmTriggers and the code

`pc = "rules"` is the loop over `rule_table` in `ac_vm_exec`, `cur` its index
plus one. `RejectEvent`, `RejectUnmarshal` and `AcceptEvent` are the ways into a
call; `SkipRule`, `RuleDoesNotTrigger` and `RuleTriggers` one iteration each, the
last with `vm_report_triggered` and `vm_update_sequences`; `Return` the end of
the loop. `monitored[s][r]` is the `triggered_at` of rule r in sequence s, with
second 0 for "never" as in the code. `Justified` in `SequenceDefs`, which the abstract
specification uses, measures the window in real time, seconds and microseconds, and is a
second more lenient than the documents (`WithinTolerance`): that is what the code's
comparison of whole seconds can tell. The documented window (`WithinSpan`) is the
property that `triggers_span` refutes. `data[m]` holds the numbers of the events
that the fields of module m have values of: an unmarshal callback sets any of
them. `hist`, `notes`, `ran` and `failed` are history; no guard reads them.

The clock is `gettimeofday`: any reading may follow any other
(`ClockMode = "any"`). `"strict"`, where readings increase, is an assumption of
`OnlyLastRuleCompletes` alone, and of the run that checks it. It is not always
so: the Windows branch of `ac_gettimeofday` (`libalca/utils.c:181-205`) has a
resolution of a millisecond and reads the clock twice.

### Lexer, Parser, TypeChecker, FrontEnd and the code

A source is a sequence of cells: a character that matters to the scanner, or a group
of letters that it takes as a whole. `lex_scanToken` has one disjunct per kind of
lexeme; EOF is added by the step that reaches the end, as in `lex_add_token`.

`LexicalGrammar` says what a lexeme is: a sign of one or two cells that the next cell
does not prolong, a word, a number, a string, a regex after `matches`, a comment, a
blank (`IsLexeme`), each with the token it stands for and what may follow it. A file is
`Lexical` if it is a sequence of lexemes none of which runs into the next; `Written` is
its tokens, each with the line on which its lexeme ends, and one EOF. `ScanSpec` is the
scanner by itself: steps of the rest of the front end stutter in it.

The parser is written as operators, one per function of `parser.c`: each takes the
parser `[current, error, freed, twice]` and returns it with a tree. A node is known
by the token at which it was made, so the set `freed` tells whether one is freed
again; reading a freed node is not looked for. `TypeChecker` follows `resolve_type`,
with the results of the code that are no types: `err` for `TOKEN_EOF`, `name` for the
error code that two exchanged arguments return in its place, `hang` and `crash` where
control does not come back.

`FrontEnd` runs `pc` through `scan`, `parse` (one statement per step), `check` (one
statement per step) to `done`, `failed` or `lost`. `Language` says what should come
out: the trees by splitting a whole range of tokens at its loosest operator, the types
by signatures of operators and the declared fields. Where the code is known to differ,
the property names the forms (`Overlooked`, `Unsupported`, `ForAny`), and those only.

### VmInterp and CodeGen and the code

Every byte of the code arena is one cell, so addresses, the constants 27, 10 and
15 of the code generator's jumps and the patched placeholders are the numbers of
the code. The code that runs is compiled from trees that `TypeChecker` has typed: whether `==`
compares strings, and whether a field is a value, is decided by what it stored.
`frames` is the chain of active calls of `ac_vm_exec_code` (OP_RULE
calls it recursively), each with `ip`, accumulators and the stack height at its
start; the stack is shared and outlives a run. A string operation or a regular
expression gives either answer. Division by zero (undefined in C) and the default
case of the switch have no step; a shift by the full width (undefined too) gives
either of the results a build produces.

The handlers look at nothing before they pop: that the operands are there, and are
of the kind they are read as, is up to the code. `StackShapes` says what that takes.
`Shape` gives for each instruction the operands that the running rule then has, each
as a set of values, and `CodeFits` compares one instruction with its successors: what
it reads is on top and of its kind, what it leaves is within the shape of wherever it
goes on. It says nothing of runs, of other rules, of errors or of what the stack holds
already; what follows from it about those is proved in `VmInterpProofs`. `Shapes` in `RuleExecution`
finds the shapes of compiled code in one pass, and TLC evaluates `CodeFits` for them in
every run of rules: the code that the generator makes of the rules does fit.

### Compiler and the code

`pc` says whether an API call is in its check loop or its compile loop, `file`
and `stmt` where it is; one action handles one statement. A rule's condition is
reduced to the names it references, the ones among them outside a `for`, the
other strings it interns and whether the rest type checks. Positions (`at`) are
history: they say where a table entry was written. `pc = "crashed"` is the
comparison with a null pointer in `bytecode_emit_literal`. The entry of an anonymous
rule has name offset 0, at which the data arena has the first string interned, so
`find_rule_idx_by_name` finds it by that name (`EntryName`, `FirstString`).

### SensorSession and the code

`run` is `connect`, `chunk_size`, `chunk_body` (`submit_local`, `submit_remote`),
`first_size` and `first_body` (the sensor's answer); `await` is `size` and `body`.
The stream is a sequence of cells: a packet's size, its header, its data. `recv`
returns any part of what was asked for, from one cell on, and the code takes it
for the whole, so that what is left is read in another part's place. A cell read as a
size where none is has any value; one read as a header where none is has no magic
number. A header may announce more data than its packet has (kind `long`, and any that
is cut): `ac_packet_read` copies what lies behind, and the program goes on with data
that are not the sensor's or dies (`RecvCrashes`). Two things are simplified: a size and
a header are each received in one
piece, and `whole`, chosen at the start, gives behaviours in which `recv` never
returns less than it was asked for. The sensor is the environment: it sends packets
of nine kinds in any order, and closes or loses the connection at any time.

`packet_size` is byte-swapped in place to announce it, and the swapped number is then the
number of bytes given to `send` (`alca.cpp:234`, `333`). `SendBody` has this number with
four digits of base 2 instead of four bytes (`Swapped`); `intact` counts the packets of
which it sends all bytes. With chunks of 10 kB (`PacketSizes`, the lower half of the
digits) the swapped number is always the larger one: nothing is cut off, but `send` is
given bytes behind the packet as well, which may make it fail (`SendFails`). What the
sensor makes of them is its own affair: it may send anything at any time.

`recv` may fail at any time and as often as may be (`RecvFails`); `await` starts again
with the next size every time. A connection that is lost (`ConnectionBreaks`) either
gives 0 from then on, which is how it ends for the program, or fails on every further
`recv` (`reset`), which it retries for ever: no document promises anything else, so
`SessionEnds` is not about those.

### ModuleObjects and the code

The module is declared by constants (`Fields`, `SubFields`), as its load callback
declares it. A value is the number of the event it comes from, 0 if it is zeroed;
whatever the code allocates is a block, named after the event and the slot, so
`live` says which pointers may be followed. Constants of the module have no slots:
nothing stores in them, and clearing passes them over. `ac_module_set_field` and
`ac_module_array_field_append` are the calls a callback may make, in any order;
`UnmarshalFails` may come after any of them. In `VmTriggers` the same data is the
set `data[m]`: `FieldsAreFresh` is what `Return` of that module assumes of
clearing, and an event in `spoilt` is what `PartialUnmarshal = TRUE` allows.
`pc = "crashed"` is `free` of a pointer that is none (`context.c:379`).

## The runs

Runs that hold:

| run | properties | what it shows |
|---|---|---|
| `triggers` | `TypeOK` `MonitoredIsLatest` `MatchingRulesRun` `ErrorSurvives` `CountIsReports` `RulesSeeThisEventOnly` `RefinesTriggerTimes` `OnlyLastRuleCompletes` `ExecReturns` | the event loop, clock readings that increase |
| `rules` | `TypeOK` `PopsOwnOperands` `OperandsHaveTheirKind` `AtInstruction` `ResultIsMeaning` `BelowBaseUntouched` `HaltLeavesNothing` `Terminates` | over 300 rules typed by the checker, compiled into one arena and run two in a row in every order |
| `frontend` | `TypeOK` `LexemesComeBack` `TreesHaveTheirShape` `OnlyWholePrograms` `NothingFreedTwice` `VerdictIsRight` | over 4500 files, whole and damaged, from text to verdict |
| `compiler` | `TypeOK` `PrivateStaysInFile` `ReferencesGoBack` `SequencesResolve` `SuccessIsComplete` | every list of up to three of nine files, every order of API calls |
| `objects` | `TypeOK` `FieldsAreFresh` `PointersAreLive` `ArraysAreWhole` `NothingLeft` | three events on a module with a field of each kind, callbacks that store in any order and fail anywhere |
| `session` | `TypeOK` `ExecutedInOrder` `NoEventLost` `SubmittedWhole` `ClosedOnReturn` `LeavesForAReason` `SessionEnds` | sessions of up to three packets of any kinds, with short reads, failing calls and a connection that ends anywhere |

Runs that show where the code departs from what its comments or documents say:

| run | property | what TLC finds |
|---|---|---|
| `triggers_span` | `ReportedWithinSpan` | only whole seconds are compared (`vm.c:271`), so triggers at 1.0 s and 2.1 s are reported with a span of one second |
| `triggers_carry` | `AscendingIsReported` | seconds and microseconds are compared separately (`vm.c:257`), so 1.9 s then 2.1 s is "descending" and the sequence is not reported |
| `at_least` | `ResultIsMeaning` | `for N` has the last condition's value when fewer than N hold (`bytecode.c:299`) |
| `overflow` | `TriggersOnlyByHalt` | operands left by failed rules fill the stack; a push on a full stack then counts as a trigger (`vm.c:42`) |
| `check_masked` | `SuccessMeansChecked` | only the last file's verdict counts (`compiler.c:368`) |
| `reference` | `CompileReturns` | a reference outside a `for` compares its name with a null pointer (`bytecode.c:150`) |

### Bounds, and why they are enough

- `triggers`: two modules, so that a call can pass over rules;
  four rules, one of each sort (public, private, anonymous, without an event
  type); two sequences that share rules, one of them listing rules against their
  order in the table and the other crossing modules with a span; three calls of
  `ac_vm_exec` (`MaxEvents`): the least number in which a rule triggers, another
  one does, and the first triggers again. Seconds 1..3 and
  microseconds 0..1 contain every relation of two readings that the comparisons
  tell apart, including the change of second; `MaxCallbacks` is 1, so that the
  callback table is both empty and full. The clock of the run is `"strict"`; for one
  that stands still or is set back the theorems below speak, which hold for both.
  The runs `triggers_...` have the same bounds.
- `frontend`: what the scanner, the parser and the types do depends on what stands
  next to what, so the files are: every two lexemes side by side, with nothing and with
  blanks, newlines and comments between them; every ending that is refused or lost;
  conditions with every two binary operators, with three of the loosest six levels, and
  with prefixes; 42 operands, of every type and of none, under operators of each class;
  ranges, one in another; statements of every form, with names that collide; and four
  sample files with one token left out, doubled, replaced, put in or with the end cut
  off, which takes the parser through every error of every function with something to
  free. Words of 6 bits make minutes wrap. `LongMax` is that of Windows, where a `long`
  has the bits of a word: the number 31 is refused and the numbers `95` and `0xA1` are
  saturated. Elsewhere it has twice as many, numbers wrap and none is refused; the
  theorems of `LexerProofs` hold for both.
- `rules`: every operator class stands between any two of 17 operands, as far as
  the checker accepts them; words of 4 bits keep all arithmetic small and still wrap; a range
  runs up to five times; `MaxRuns = 2` puts every rule after every other that may
  have failed and left operands. `StackMax` is above what two runs need; the run
  `overflow` has a stack of 4 and six rules instead. `MaxDepth = 2` is the depth
  a rule that references another needs.
- `compiler`: three files, since a wrong verdict, an import or a private name needs
  a file before and one after; the nine bodies contain each collision once, among
  them a file whose first statement is a rule, by whose name anonymous rules are found.
- `objects`: three events, so that one may fail, the next clear up
  and the third find what is left; two items (`MaxItems`), one to follow another.
- `session`: three packets (the answer, and two whose order and fate can differ),
  submissions of no, one and two chunks (`MaxChunks`). How often `recv` fails has no
  bound.

Every run has `CHECK_DEADLOCK FALSE`: after the last event, rule or file that the
bound allows the host does nothing more, which is no fault of the program.

### Fairness

Each of these state machines is one thread of sequential C. Weak fairness is
put on the steps inside a call (`Loop` of `VmTriggers`, `Step` of `VmInterp` and
of `Compiler`, `GetsOn` of `SensorSession`): once called, a function goes on as
long as it has a step; a `recv` with nothing to return has none. Nothing is assumed
about the host, which need not call again, nor about the sensor. Of the network
`SessionEnds` takes one thing for granted: `GetsOn` is every step of the program but a
`recv` that fails, so `recv` does not fail for ever where it has something to return,
data or the end of the connection. Where it has nothing else to return, after a reset,
it may fail for ever, and the property does not speak of it. `ExecReturns`,
`Terminates`, `CompileReturns` and `SessionEnds` need no more than that.

## What is proved

`VmTriggersProofs` proves, for all rule and sequence tables, numbers of events
and callbacks and every clock, from the assumptions named in `SequenceDefs` and
`VmTriggers` (types of the constants, and that a module's name agrees with itself):

| theorem | states | inductive argument |
|---|---|---|
| `TypeCorrect` | `Spec => []TypeOK` | `TypeOK` is inductive |
| `MonitoredCorrect` | `[]MonitoredIsLatest` | inductive with `TypeOK`: a trigger stamps all sequences that monitor the rule, and the appended trigger is the rule's only latest one |
| `Refinement` | `Spec => RefinesTriggerTimes` | with `MonitoredIsLatest` in the new state, the code's test over remembered times implies the abstract test over the history (`TimesSuffice`); a step that triggers is an abstract step, all others stutter |
| `LastRuleCorrect` | `OnlyLastRuleCompletes`, if `ClockMode = "strict"` | needs `ClockInv`: no remembered time is later than the last reading. A rule that has just been stamped is then later than all others, so it cannot come before one in a complete sequence |
| `MatchingRulesCorrect` | `[]MatchingRulesRun` | inductive with `TypeOK` |
| `ErrorsCorrect` | `[]ErrorSurvives` | inductive |
| `CountCorrect` | `[]CountIsReports` | needs `CountInv`: the reports are a finite set and none of them belongs to a later trigger or event, so those of a new trigger are new and the count grows by their number |
| `DataCorrect` | `[]RulesSeeThisEventOnly`, if `PartialUnmarshal = FALSE` | needs `DataFresh`: outside a call every module is empty, inside one all but the event's |

Each lemma about one step has one case per action. The refinement holds under
every clock because the code's comparison of order is stricter than the order of time
and its comparison of seconds implies the window with its tolerance: it
may miss a justified sequence (`triggers_carry`), never report an unjustified one.

`ModuleObjectsProofs` proves, for every declaration of a module's fields and all
bounds on events and items, from `ObjectsAssumption` (types of the constants; fields
of structs belong to structs):

| theorem | states | inductive argument |
|---|---|---|
| `TypeCorrect` | `[](TypeOK /\ EventsInOrder)` | inductive together: values are never of an event that is yet to come, and one of the event under way exists only once its callback has stored |
| `FreshCorrect` | `[]FieldsAreFresh` | needs `OnlyPending`, the same of every state: what a callback stores is of the event under way until it fails (then the event is in `spoilt`, because of `EventsInOrder`) or is cleared |
| `PointersCorrect` | `[]PointersAreLive` | inductive with `TypeOK`: clearing zeroes whatever it frees, and what it does not zero (`Nested`) it does not free |
| `ArraysCorrect` | `[]ArraysAreWhole` | inductive with both parts of `TypeCorrect`: an append fills the slot after the last item and no other array |
| `NothingLeftCorrect` | `[]NothingLeft` | needs `Accounted`: a block of the event under way is still pointed to, so clearing finds it |

`FieldsAreFresh` excepts the fields of structs, and `NothingLeft` what the code
does leak; both exceptions are in the properties, where they are read. That
clearing returns is false (`pc = "crashed"`); the theorems hold up to that crash.

`SensorSessionProofs` proves, for all bounds on packets and chunks, from
`SessionAssumption` (the bounds are numbers):

| theorem | states | inductive argument |
|---|---|---|
| `TypeCorrect` | `[]TypeOK` | inductive with the other parts of `TypeInv`: a chunk that is sent exists, a body that is read has a size |
| `ClosedCorrect` | `[]ClosedOnReturn` | with `TypeInv`: before it returns the program has closed nothing, so the last step closes |
| `SubmittedCorrect` | `[]SubmittedWhole` | needs `SubmitInv`: at every chunk those before it have been sent whole, because no packet is large enough for its reversed size to be smaller (`SwappedIsEnough`) |
| `OrderCorrect` | `[]ExecutedInOrder` | needs `WireInv` and `BehindInv`: the cells of the stream are in the order in which they were sent, and all of them are behind the header of every packet executed. The argument does not use that the program is in step, so it covers whatever `recv` leaves over |
| `LeavesCorrect` | `LeavesForAReason` | an action property, from `TypeInv`: a header that is read is that of a packet sent, and a `recv` that fails, once or for ever, does not leave the loop |
| `DeliveryCorrect` | `[]NoEventLost` | needs `ContiguousInv`, every cell in the stream is followed by the one sent after it, and `StepInv`, in step the next cell is the one that the program takes it for (`AtCell`) and no event before it was skipped (`NothingSkipped`) |

`CompilerProofs` proves, for all files, bodies, modules and numbers of sources, from
`CompilerAssumption` (types; that the rules written in sequences are the anonymous
ones; that a module's name begins with itself):

| theorem | states | inductive argument |
|---|---|---|
| `TypeCorrect` | `[]TypeOK` | inductive; the lookups return an ordinal or an index (`FoundModule`, `FoundRule`) |
| `PrivateCorrect` | `[]PrivateStaysInFile` | needs `Control` (which loop is under way, and that `privates` is empty where a file begins) and `Scoping`: what is in scope and not in `privates` is public |
| `BackCorrect` | `[]ReferencesGoBack` | the check and the compilation, two passes over the sources, meet in three invariants: `EnvInv` and `RefsInv`, what the first pass accepted was declared by a statement passed before; `EntriesInv` and `CompleteInv`, every place that the second pass has reached has one entry; so the rule that a new entry refers to has its entry already (`BackInv`) |
| `CompleteCorrect` | `[]SuccessIsComplete`, if no module's name begins with that of another (`PrefixFree`) | from `EntriesInv` and `CompleteInv` at the last place. The hypothesis is what the code needs: `compiler_find_module_ordinal` compares no more characters than the module in the table has, and takes the first that agrees |
| `SequencesCorrect` | `[]SequencesResolve` | needs `FirstInv` and `FirstEntryInv` besides: an anonymous rule is found by the first name of the sources, but if that name is a rule's, its entry is the first and is found before; `SequencesInv` says the same of the list of indices under way |

`Clean` in the properties (the sources passed the check) is needed: after a failed
check that a later file masks (`check_masked`) the tables may say anything.

`VmInterpProofs` proves, for all code with shapes that it fits (`CodeFits`), all rules,
event data and module functions, words of any width, stacks of any size, any number of
runs and any depth of calls, from `VmAssumption` (types of the constants; powers of two
and bitwise operations yield words, of which the provers know nothing) and `CodeFits`:

| theorem | states | inductive argument |
|---|---|---|
| `StackCorrect` | `[]StackInv` | the invariant of the others, below |
| `TypeCorrect` | `[]TypeOK` | from `StackInv`: every call starts at or below the top of the stack and is at an instruction |
| `OwnOperandsCorrect` | `[]PopsOwnOperands` | the running call has the operands of its shape, and `Fits` says that the instruction pops no more |
| `KindsCorrect` | `[]OperandsHaveTheirKind` | each of them is in its set, whose members have the kind that the instruction reads |
| `InstructionCorrect` | `[]AtInstruction` | an instruction goes on at one that has a shape |
| `BelowBaseCorrect` | `BelowBaseUntouched` | an action property: what a step pops is the running call's own, and an error leaves the rest |
| `HaltCorrect` | `HaltLeavesNothing` | an action property: at HLT the shape is one number |

What holds of one rule by its code alone does not survive a call by itself: OP_RULE runs
another rule on the same stack, which may call others, fail and leave operands behind, or
find the stack full, and only then does the caller go on. `StackInv` therefore speaks of
all active calls: they lie one above the other (`Nested`), each that waits has its
operands below those of the call above it, and these are of the shape that the
instruction after OP_RULE expects, but for the result on top; the last one runs
(`Ready`), or has been given a result and finds nothing else above its operands, or
an error and may find anything (`Innermost`). A result is a word only if it is that of
HLT; a call that ended because the stack was full left it full (`Returned`), which is why
its caller never gets 24 as an operand: the push of it fails as well. `WaitingStay` is the
lemma that carries the calls below through a step; `PushesGoOn`, `PopsGoOn`, `Quits` and
`Ends` are what all handlers come down to.

That the code generator makes fitting code of every rule is not proved, but evaluated
for the over 300 rules of the run `rules`: it recurses over syntax trees.

`LexerProofs` proves, for all tables of keywords, letters, digits and escapes, all tables
of lexemes, widths of words and longs, and all files put together of them, from
`LexerAssumption` (the sorts of cells
do not overlap but for the hexadecimal letters, which are letters as well; no keyword is
EOF; `x` is no digit) and `GrammarAssumption` (types; no lexeme is empty):

| theorem | states | inductive argument |
|---|---|---|
| `LexemesCorrect` | `ScanSpec => []LexemesComeBack` | needs `BetweenLexemes`: in a file that is `Lexical` the scanner always stands between two lexemes, its line counts the newlines of those taken, its tokens are theirs, and the last one is `matches` exactly if the grammar says so of the next lexeme |
| `ScannerTypeCorrect` | `ScanSpec => []ScannerTypeOK` | for every text, lexical or not. Needs `ScannerInv`: before an error the scanner is inside the source and has seen no more newlines than cells; what a step takes is there (`StepShape`), and no token but the last one of the source is EOF |

`LexemesComeBack` is about one file as a whole, the code about the next character. The
step between them is `LexemeIsTaken`: if the cells ahead are those of a lexeme with the
cell after it (`Before`), then the step takes these cells, all of them and no more, and
adds the token of the grammar. It has a lemma for each kind of lexeme; those of
words, numbers and modifiers come down to `RunIs` (the run of cells ends where the
lexeme does), that of comments and strings to `FirstIs` (nothing before the last cell
ends it), and for strings and regexes to `EscapesOfPrefix`: which backslashes begin an
escape sequence is decided by the cells before them, so the scanner, which sees the whole
rest of the source, and the grammar, which sees one lexeme, agree. The induction that
recursive functions need is `UpTo`, over the numbers up to a bound as a set, with
`StepByStep` for the existence of such a function. `ScannerTypeOK` is a part of the
`TypeOK` that the run `frontend` checks.

Only model-checked: liveness (`ExecReturns`, `Terminates`, `CompileReturns`,
`SessionEnds`), and all of `RuleExecution`, and of `FrontEnd` and `Language` what is not
about the scanner (`TypeOK` but for `ScannerTypeOK`, `TreesHaveTheirShape`,
`OnlyWholePrograms`, `NothingFreedTwice`, `VerdictIsRight`), because parser, checker, code
generator and the meaning of expressions recurse over syntax trees with RECURSIVE
operators, for which TLAPS has no backend here. That the front end's steps are steps of
`ScanSpec` is for the same reason read off `Next` of `FrontEnd`, not proved: one of its
disjuncts is `ScanNext`, the others leave `lexer` and `program` unchanged. That the
lexemes of the run are `Lexical` exactly in the files meant to be is an assumption that
TLC evaluates (`LexicalFiles` in `MCFrontEnd`).

## Where the properties make exceptions

The models do what the code does in the following cases; the properties name them as
exceptions, or do not speak of them.

- A file that is wrong is accepted (`Overlooked`): a field of a value
  (`checker.c:227` ends the walk at the first object that is no struct), an index
  inside a chain that is no integer, a wrong number of arguments (`checker.c:154`), a
  rule that references itself (`checker.c:485` returns before the check for recursion in
  `resolve_identifier_type`; also excepted by `ReferencesGoBack`).
- A file that is right is refused, or the check does not return (`Unsupported`): a
  member of a struct (`docs/RULES.md:65-66` describes it), a call without arguments,
  a field or an index of a grouping (the walk at `checker.c:266` has no step for
  it), a call of anything but a field of the module. `for any` of
  `docs/RULES.md:153-163` does not parse (`ForAny`, `parser.c:182-195`).
- Precedence is that of the functions of the parser, not of the grammar in the comment
  above them (`parser.c:44`): `and` is looser than `or`, shifts are tighter than
  products. `Rank` in `Language` has the order of the code.
- A span beyond a word has the value that the multiplication leaves (`SpanOf`).
- The number `LONG_MAX` is no number of the language (`LexicalGrammar`), as it is refused
  where a `long` has the width of a word (`lexer.c:261`).
- A sequence is reported up to a second beyond its span (`WithinTolerance` of
  `RefinesTriggerTimes`; `ReportedWithinSpan` says that this is not what is documented).
- The fields of structs, and what a callback that fails has stored, are seen by rules on
  later events and stay allocated (`FieldsAreFresh`, `NothingLeft`;
  `RulesSeeThisEventOnly` holds with `PartialUnmarshal = FALSE`).
- Clearing a nonempty array of numbers or strings frees the array's length
  (`context.c:379`, `FreesLength`), and the program has crashed. `docs/MODULES.md:31`
  promises such arrays; no module of the repository has one.
- The rules of an event are those of every module whose name begins with the event's type
  (`vm.c:335`, constant `Matched`), and never those without an event type (`vm.c:331`),
  against the comment at `vm.c:297` and `docs/RULES.md:25`. `MatchingRulesRun` takes the
  code's test for what matching means (`RuleMatches`).
- A connection that is reset does not end the session (`SessionEnds`), and a packet whose
  header announces too much may end it (`NoEventLost` speaks of the others).
- A private name in two files resolves to the rule of the first (`compiler.c:461`);
  an import is skipped if its name was interned before as any string
  (`compiler.c:388`).
- Two `for N`, N at least 2, in one rule share the counter in accumulator 3.
  `CodeGen` has it; the rules of the runs combine ranges of `all` and of one only.

## What is not modelled

- Division and remainder by zero (undefined in C), and the default case of the
  interpreter's switch, which compiled code does not reach.
- `ac_compiler_free`, `compiler_export` and the file format: memory and output.
- Loading and freeing of contexts, parents of objects, functions of modules and what
  they do with their arguments (`vm.c:895` passes the number of arguments as
  `fn_object`).
- Reads of nodes that have been freed; the nodes below a range, which are never freed.
- Allocation failure, except where the code reports it as an error of its own; the
  wording of errors.
- Hash map, FlatBuffers code and PCRE2: vendored, generated or third party; the
  default modules, which are tables of declarations.
- Of the sensor session: the options of the command line, output, and packets
  whose header or size is received in two pieces.

## Plan

Modules and proofs in the order of their weight.

1. `SequenceDefs`, `TriggerTimes`, `VmTriggers` with the abstract specification
   `TriggerTimes`, runs and proofs. *Done.*
2. `CodeGen`, `VmInterp`, `RuleExecution`: the compiled rule against its meaning.
   *Done.*
3. `Compiler`: life cycle, scopes, tables. *Done.*
4. Proofs about `VmTriggers`. *Done.*
5. `SensorSession` (`cli/alca.cpp`, `packet.c`): a stream that returns any part,
   end of the connection anywhere. *Done.*
6. Proofs about `Compiler` and `SensorSession`. *Done*: every safety property that
   their runs check.
7. `ModuleObjects` (`context.c`, `module.c`): fields, nested objects, unmarshalling
   that stops half way, clearing, runs and proofs. *Done*;
   to come: loading, parents.
8. `Lexer`, `Parser`, `TypeChecker`, `FrontEnd` with the declared language
   `Language`, and the checker in front of the code generator in `RuleExecution`.
   *Done.*
9. Stack discipline of `VmInterp`: `StackShapes` and `VmInterpProofs`. *Done.*
10. The scanner for every file: `LexicalGrammar` and `LexerProofs`. *Done.*
11. More ranges in a rule; several files in `FrontEnd`; the export format; loading of
    contexts; `ac_compiler_free`.
