---------------------------- MODULE MCVmTriggers ----------------------------
(***************************************************************************)
(* Two modules, four rules (public, private, anonymous, without an event   *)
(* type) and sequences that cross modules.                                 *)
(***************************************************************************)
EXTENDS VmTriggers

MCMatched == [m \in Modules |-> {m}]

Rule(p, a, m) == [private |-> p, anonymous |-> a, module |-> m]

MCRuleTable ==
    << Rule(FALSE, FALSE, "file"), Rule(TRUE, FALSE, "file"),
       Rule(FALSE, TRUE, "process"), Rule(FALSE, FALSE, NoModule) >>

\* <<2, 1>> lists two rules of one event type against their table order.
MCSequenceTable ==
    << [max_span |-> 0, rules |-> <<2, 1>>],
       [max_span |-> 1, rules |-> <<1, 2, 3>>] >>
=============================================================================
