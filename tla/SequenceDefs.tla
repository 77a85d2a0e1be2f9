---------------------------- MODULE SequenceDefs ----------------------------
(***************************************************************************)
(* Clock readings, the sequence table the compiler hands to the VM, and    *)
(* what it means for the trigger history to satisfy a sequence.  Shared by *)
(* the abstract TriggerTimes and by VmTriggers, the code.                  *)
(***************************************************************************)
EXTENDS Naturals, Sequences

CONSTANTS
    NRules,         \* number of entries of rule_table; rules are 1..NRules
    NSequences,     \* number of entries of sequence_table
    SequenceTable,  \* [1..NSequences -> [max_span, rules]]
    MaxSec,         \* bound on the seconds of a clock reading
    MaxUsec         \* bound on its microseconds (999999 in the code)

ASSUME SequenceTableAssumption ==
    /\ NRules \in Nat
    /\ NSequences \in Nat
    /\ SequenceTable \in
          [1..NSequences -> [max_span: Nat, rules: Seq(1..NRules)]]
    /\ MaxSec \in Nat
    /\ MaxUsec \in Nat

RuleIdx == 1..NRules
SeqIdx == 1..NSequences

\* A wall clock reading.  tv_sec is never 0: the code uses 0 for "never".
Time == [sec: 1..MaxSec, usec: 0..MaxUsec]

\* The order of time itself (seconds first, then microseconds).
TimeLeq(a, b) ==
    \/ a.sec < b.sec
    \/ a.sec = b.sec /\ a.usec <= b.usec

TimeLess(a, b) ==
    \/ a.sec < b.sec
    \/ a.sec = b.sec /\ a.usec < b.usec

Trigger == [rule: RuleIdx, time: Time]
Report == [seq: SeqIdx, at: Nat]

-----------------------------------------------------------------------------
\* The k-th trigger is the most recent one of rule r.
IsLatest(h, r, k) ==
    /\ k \in 1..Len(h)
    /\ h[k].rule = r
    /\ \A j \in 1..Len(h) : j > k => h[j].rule # r

RulesOf(s) == SequenceTable[s].rules

AllTriggered(s, h) ==
    \A j \in 1..Len(RulesOf(s)) : \E k \in 1..Len(h) : IsLatest(h, RulesOf(s)[j], k)

Ascending(s, h) ==
    \A i \in 1..(Len(RulesOf(s)) - 1) : \A k, l \in 1..Len(h) :
        IsLatest(h, RulesOf(s)[i], k) /\ IsLatest(h, RulesOf(s)[i + 1], l)
            => TimeLeq(h[k].time, h[l].time)

\* The reading n seconds after t.
Later(t, n) == [t EXCEPT !.sec = @ + n]

\* The latest triggers of the first and of the last rule of s.
Ends(s, h, k, l) ==
    IsLatest(h, RulesOf(s)[1], k) /\ IsLatest(h, RulesOf(s)[Len(RulesOf(s))], l)

\* The window as documented (docs/SEQUENCES.md:26): all of s triggered within
\* max_span of each other; 0 means no limit.
WithinSpan(s, h) ==
    SequenceTable[s].max_span # 0 =>
        \A k, l \in 1..Len(h) : Ends(s, h, k, l) =>
            TimeLeq(h[l].time, Later(h[k].time, SequenceTable[s].max_span))

\* The window less one second of tolerance, which is what can be told from
\* readings in whole seconds.
WithinTolerance(s, h) ==
    SequenceTable[s].max_span # 0 =>
        \A k, l \in 1..Len(h) : Ends(s, h, k, l) =>
            TimeLess(h[l].time, Later(h[k].time, SequenceTable[s].max_span + 1))

Member(s, r) == \E j \in 1..Len(RulesOf(s)) : RulesOf(s)[j] = r

\* Sequence s may be reported when the last trigger of h is one of its rules'.
Justified(s, h) ==
    /\ Member(s, h[Len(h)].rule)
    /\ AllTriggered(s, h)
    /\ Ascending(s, h)
    /\ WithinTolerance(s, h)
=============================================================================
