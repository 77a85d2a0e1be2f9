----------------------------- MODULE VmTriggers -----------------------------
(***************************************************************************)
(* The VM's event loop (libalca/vm.c): ac_vm_exec runs every rule whose    *)
(* event type matches, reports the rules that trigger, stamps their time   *)
(* in the sequences that monitor them and reports the sequences that are   *)
(* then complete.                                                          *)
(*                                                                         *)
(* A rule's code is abstract here: it triggers, does not trigger, or ends  *)
(* in an error, and an error never triggers (VmInterp models the           *)
(* interpreter).  The clock is a reading chosen by the environment:        *)
(* gettimeofday is the wall clock, which may tie or be set back.           *)
(***************************************************************************)
EXTENDS SequenceDefs, FiniteSets

CONSTANTS
    Modules,          \* names of the modules in the context
    NoModule,         \* a rule without an event type (module_ordinal 0)
    Matched,          \* [Modules -> SUBSET Modules]: module names that agree with
                      \* the event type on its first etypelen characters
    RuleTable,        \* [RuleIdx -> [private, anonymous, module]]
    RuleErrors,       \* errors a rule's code can end with
    ClockMode,        \* "any" | "strict": may readings tie or go back?
    PartialUnmarshal, \* may an unmarshal callback that fails have stored fields?
    MaxCallbacks,     \* VM_MAX_CALLBACKS
    MaxEvents         \* bound: number of calls of ac_vm_exec

ASSUME VmAssumption ==
    /\ NoModule \notin Modules
    /\ Matched \in [Modules -> SUBSET Modules]
    /\ \A m \in Modules : m \in Matched[m]
    /\ RuleTable \in [RuleIdx -> [private: BOOLEAN, anonymous: BOOLEAN,
                                  module: Modules \cup {NoModule}]]
    /\ ClockMode \in {"any", "strict"}
    /\ PartialUnmarshal \in BOOLEAN
    /\ MaxCallbacks \in Nat
    /\ MaxEvents \in Nat
    /\ RuleErrors \cap {"SUCCESS", "BAD_DATA", "MODULE", "MODULE_VERSION"} = {}

EarlyErrors == {"BAD_DATA", "MODULE", "MODULE_VERSION"}
Errors == {"SUCCESS"} \cup EarlyErrors \cup RuleErrors

VARIABLES
    pc,         \* "idle": outside ac_vm_exec; "rules": in its loop
    evt,        \* module of the event being executed
    cur,        \* loop index i over rule_table
    err,        \* the error ac_vm_exec returns (its last value when idle)
    ntriggers,  \* vm->ntriggers
    monitored,  \* monitored_rules of every sequence: rule -> trigger time
    ncb,        \* vm->ncb, registered callbacks
    data,       \* per module, the events whose values its fields hold
    now,        \* last clock reading
    nevents,    \* number of ac_vm_exec calls so far, the id of the current event
    hist,       \* history: every trigger, oldest first
    notes,      \* history: every call of vm_report_triggered
    ran,        \* history: rules executed for the current event
    failed      \* history: those that ended in an error

vmVars == <<pc, evt, cur, err, ntriggers, monitored, ncb, data, now>>
histVars == <<nevents, hist, notes, ran, failed>>
vars == <<pc, evt, cur, err, ntriggers, monitored, ncb, data, now,
          nevents, hist, notes, ran, failed>>

Never == [sec |-> 0, usec |-> 0]

\* A call of vm_report_triggered: who is reported, the tv_sec passed on, the
\* callbacks called, the event it happened in and the length of hist then.
Note == [kind: {"rule", "sequence"}, idx: Nat, time: Nat, to: 0..MaxCallbacks,
         event: Nat, at: Nat]

TypeOK ==
    /\ pc \in {"idle", "rules"}
    /\ evt \in Modules \cup {NoModule}
    /\ pc = "rules" => evt \in Modules
    /\ cur \in 1..(NRules + 1)
    /\ err \in Errors
    /\ ntriggers \in Nat
    /\ monitored \in [SeqIdx -> [RuleIdx -> Time \cup {Never}]]
    /\ ncb \in 0..MaxCallbacks
    /\ data \in [Modules -> SUBSET (1..nevents)]
    /\ now \in Time \cup {Never}
    /\ nevents \in 0..MaxEvents
    /\ hist \in Seq(Trigger)
    /\ notes \subseteq Note
    /\ ran \subseteq RuleIdx
    /\ failed \subseteq ran

-----------------------------------------------------------------------------
\* ac_vm_new: no rule has triggered (time 0), no callback registered.
Init ==
    /\ pc = "idle" /\ evt = NoModule /\ cur = 1 /\ err = "SUCCESS"
    /\ ntriggers = 0
    /\ monitored = [s \in SeqIdx |-> [r \in RuleIdx |-> Never]]
    /\ ncb = 0
    /\ data = [m \in Modules |-> {}]
    /\ now = Never
    /\ nevents = 0 /\ hist = <<>> /\ notes = {} /\ ran = {} /\ failed = {}

AddCallbackUnbounded ==   \* mutant: no check against VM_MAX_CALLBACKS
    /\ pc = "idle"
    /\ ncb' = ncb + 1
    /\ UNCHANGED <<pc, evt, cur, err, ntriggers, monitored, data, now>>
    /\ UNCHANGED histVars

\* A full callback table refuses the registration, which changes nothing.
ac_vm_add_trigger_callback ==
    /\ pc = "idle"
    /\ ncb < MaxCallbacks
    /\ ncb' = ncb + 1
    /\ UNCHANGED <<pc, evt, cur, err, ntriggers, monitored, data, now>>
    /\ UNCHANGED histVars

-----------------------------------------------------------------------------
EnterKeepsCount ==   \* mutant: ntriggers is not reset
    /\ pc = "idle"
    /\ nevents < MaxEvents
    /\ nevents' = nevents + 1
    /\ ran' = {} /\ failed' = {}
    /\ UNCHANGED <<cur, ntriggers, monitored, ncb, now, hist, notes>>

\* Entry of ac_vm_exec, common to every path: the trigger count is reset.
Enter ==
    /\ pc = "idle"
    /\ nevents < MaxEvents
    /\ nevents' = nevents + 1
    /\ ntriggers' = 0
    /\ ran' = {} /\ failed' = {}
    /\ UNCHANGED <<cur, monitored, ncb, now, hist, notes>>

\* Short event, unknown module name or wrong module version: early return.
RejectEvent(e) ==
    /\ Enter
    /\ err' = e
    /\ UNCHANGED <<pc, evt, data>>

\* What an unmarshal callback that stores event n leaves in a module's
\* fields: it may not set every field (cli/modules.cpp skips NULL strings).
Stored(m, n) == {kept \cup {n} : kept \in SUBSET data[m]}

\* The unmarshal callback returns FALSE: early return, module data not cleared.
RejectUnmarshal(m) ==
    /\ Enter
    /\ err' = "BAD_DATA"
    /\ \/ data' = data
       \/ PartialUnmarshal /\ \E d \in Stored(m, nevents') : data' = [data EXCEPT ![m] = d]
    /\ UNCHANGED <<pc, evt>>

\* The event is accepted and the loop over rule_table starts.
AcceptEvent(m) ==
    /\ Enter
    /\ err' = "SUCCESS"
    /\ pc' = "rules"
    /\ evt' = m
    /\ \E d \in Stored(m, nevents') : data' = [data EXCEPT ![m] = d]

-----------------------------------------------------------------------------
\* The rule at index r has an event type and it is the event's.
RuleMatches(r) ==
    /\ RuleTable[r].module # NoModule
    /\ RuleTable[r].module \in Matched[evt]

AtRule == pc = "rules" /\ cur <= NRules

SkipRuleForever ==   \* mutant: continues without the next index
    /\ AtRule
    /\ ~RuleMatches(cur)
    /\ UNCHANGED vars

SkipRule ==
    /\ AtRule
    /\ ~RuleMatches(cur)
    /\ cur' = cur + 1
    /\ UNCHANGED <<pc, evt, err, ntriggers, monitored, ncb, data, now>>
    /\ UNCHANGED histVars

ErrorEndsLoop(e) ==   \* mutant: a failing rule breaks the loop
    /\ AtRule
    /\ RuleMatches(cur)
    /\ cur' = IF e # "SUCCESS" THEN NRules + 1 ELSE cur + 1
    /\ err' = IF e # "SUCCESS" THEN e ELSE err
    /\ ran' = ran \cup {cur}
    /\ failed' = IF e # "SUCCESS" THEN failed \cup {cur} ELSE failed
    /\ UNCHANGED <<pc, evt, ntriggers, monitored, ncb, data, now, nevents, hist, notes>>

LastErrorOnly(e) ==   \* mutant: err = ac_vm_exec_code(...)
    /\ AtRule
    /\ RuleMatches(cur)
    /\ cur' = cur + 1
    /\ err' = e
    /\ ran' = ran \cup {cur}
    /\ failed' = IF e # "SUCCESS" THEN failed \cup {cur} ELSE failed
    /\ UNCHANGED <<pc, evt, ntriggers, monitored, ncb, data, now, nevents, hist, notes>>

\* ac_vm_exec_code returned e and left triggered = 0.
RuleDoesNotTrigger(e) ==
    /\ AtRule
    /\ RuleMatches(cur)
    /\ cur' = cur + 1
    /\ err' = IF e # "SUCCESS" THEN e ELSE err
    /\ ran' = ran \cup {cur}
    /\ failed' = IF e # "SUCCESS" THEN failed \cup {cur} ELSE failed
    /\ UNCHANGED <<pc, evt, ntriggers, monitored, ncb, data, now, nevents, hist, notes>>

\* The wall clock between two readings.  It may be set back, and its resolution
\* is a microsecond, or a millisecond where the Windows branch is compiled.
ClockMayShow(t) == ClockMode = "strict" => TimeLess(now, t)

StampFirst(r, t) ==   \* mutant: a rule's first trigger time is kept
    [s \in SeqIdx |-> IF Member(s, r) /\ monitored[s][r] = Never
                      THEN [monitored[s] EXCEPT ![r] = t] ELSE monitored[s]]

\* The trigger time of rule r in every sequence that monitors it.
Stamp(r, t) ==
    [s \in SeqIdx |-> IF Member(s, r) THEN [monitored[s] EXCEPT ![r] = t]
                                      ELSE monitored[s]]

NotBeforeMicro(r, last) == r.usec >= last.usec   \* mutant: seconds ignored
NotBeforeSeconds(r, last) == r.sec >= last.sec   \* mutant: microseconds ignored

\* r is not earlier than last, as vm_update_sequences compares them: seconds
\* and microseconds separately.
NotBefore(r, last) == r.sec >= last.sec /\ r.usec >= last.usec

Sequential(s, mon) ==
    \A j \in 1..Len(RulesOf(s)) :
        /\ mon[RulesOf(s)[j]].sec # 0
        /\ j > 1 => NotBefore(mon[RulesOf(s)[j]], mon[RulesOf(s)[j - 1]])

InSpan(s, mon) ==
    LET first == mon[RulesOf(s)[1]]
        last == mon[RulesOf(s)[Len(RulesOf(s))]]
    IN  \/ SequenceTable[s].max_span = 0
        \/ last.sec <= first.sec + SequenceTable[s].max_span

\* The sequences reported after rule r was stamped, mon being the new table.
Completed(r, mon) ==
    {s \in SeqIdx : Member(s, r) /\ Sequential(s, mon[s]) /\ InSpan(s, mon[s])}

\* Only rules that are neither anonymous nor private are reported themselves.
ReportedRule(r) ==
    IF RuleTable[r].anonymous \/ RuleTable[r].private THEN {} ELSE {r}

vm_report_triggered(kind, idxs, t) ==
    {[kind |-> kind, idx |-> i, time |-> t.sec, to |-> ncb, event |-> nevents,
      at |-> Len(hist) + 1] : i \in idxs}

\* ac_vm_exec_code left triggered # 0: read the clock, report the rule, then
\* vm_update_sequences.
RuleTriggers(t) ==
    /\ AtRule
    /\ RuleMatches(cur)
    /\ ClockMayShow(t)
    /\ cur' = cur + 1
    /\ now' = t
    /\ monitored' = Stamp(cur, t)
    /\ LET seqs == Completed(cur, Stamp(cur, t))
       IN  /\ notes' = notes \cup vm_report_triggered("rule", ReportedRule(cur), t)
                             \cup vm_report_triggered("sequence", seqs, t)
           /\ ntriggers' = ntriggers + Cardinality(ReportedRule(cur)) + Cardinality(seqs)
    /\ hist' = Append(hist, [rule |-> cur, time |-> t])
    /\ ran' = ran \cup {cur}
    /\ UNCHANGED <<pc, evt, err, ncb, data, nevents, failed>>

ReturnKeepsData ==   \* mutant: module data is not cleared
    /\ pc = "rules"
    /\ cur = NRules + 1
    /\ pc' = "idle"
    /\ cur' = 1
    /\ UNCHANGED <<evt, err, ntriggers, monitored, ncb, data, now>>
    /\ UNCHANGED histVars

\* End of the loop: the module's data is cleared and the last error returned.
Return ==
    /\ pc = "rules"
    /\ cur = NRules + 1
    /\ pc' = "idle"
    /\ cur' = 1
    /\ data' = [data EXCEPT ![evt] = {}]
    /\ UNCHANGED <<evt, err, ntriggers, monitored, ncb, now>>
    /\ UNCHANGED histVars

Next ==
    \/ ac_vm_add_trigger_callback
    \/ \E e \in EarlyErrors : RejectEvent(e)
    \/ \E m \in Modules : RejectUnmarshal(m) \/ AcceptEvent(m)
    \/ SkipRule
    \/ \E e \in RuleErrors \cup {"SUCCESS"} : RuleDoesNotTrigger(e)
    \/ \E t \in Time : RuleTriggers(t)
    \/ Return

Spec == Init /\ [][Next]_vars

\* The loop is ordinary sequential code: it goes on as long as it has a step.
Loop ==
    \/ SkipRule
    \/ \E e \in RuleErrors \cup {"SUCCESS"} : RuleDoesNotTrigger(e)
    \/ \E t \in Time : RuleTriggers(t)
    \/ Return

FairSpec == Spec /\ WF_vars(Loop)

-----------------------------------------------------------------------------
SequenceNotes == {n \in notes : n.kind = "sequence"}

\* The abstract view of the reports the callbacks received.
TT == INSTANCE TriggerTimes
        WITH reports <- {[seq |-> n.idx, at |-> n.at] : n \in SequenceNotes}

\* vm_update_sequences, with one remembered time per rule, reports a sequence
\* only when the full trigger history justifies it: every rule of it has
\* triggered, the latest times are in order and in real time, seconds and
\* microseconds, less than one second more than the span apart.
RefinesTriggerTimes == TT!TSpec

\* The time a sequence remembers for one of its rules is the time of that
\* rule's latest trigger, and 0 exactly while it never triggered.
MonitoredIsLatest ==
    \A s \in SeqIdx, r \in RuleIdx : Member(s, r) =>
        \/ /\ monitored[s][r] = Never
           /\ \A k \in 1..Len(hist) : hist[k].rule # r
        \/ \E k \in 1..Len(hist) : IsLatest(hist, r, k) /\ monitored[s][r] = hist[k].time

\* When clock readings strictly increase, a sequence is reported only by a
\* trigger of its last rule, never by an earlier rule triggering again.
OnlyLastRuleCompletes ==
    [][\A n \in notes' \ notes : n.kind = "sequence" =>
          cur = RulesOf(n.idx)[Len(RulesOf(n.idx))]]_vars

\* A rule that fails does not stop the loop: when ac_vm_exec reaches rule cur,
\* exactly the matching rules before it have been executed.
MatchingRulesRun ==
    pc = "rules" => ran = {r \in 1..(cur - 1) : RuleMatches(r)}

\* The error of a failed rule is returned even when later rules succeed.
ErrorSurvives ==
    /\ err = "SUCCESS" => failed = {}
    /\ pc = "rules" /\ failed = {} => err = "SUCCESS"

\* ac_vm_get_trigger_count is the number of reports of the last event, no more
\* and no fewer, whatever happened in earlier events.
CountIsReports ==
    ntriggers = Cardinality({n \in notes : n.event = nevents})

\* While rules run, the module's fields hold values of this event only: the
\* data of earlier events was cleared (unmarshal callbacks that fail store
\* nothing, PartialUnmarshal = FALSE).
RulesSeeThisEventOnly == pc = "rules" => data[evt] = {nevents}

\* Every call of ac_vm_exec returns.
ExecReturns == pc = "rules" ~> pc = "idle"

-----------------------------------------------------------------------------
\* What comments and the documentation say; see the findings.

\* vm.c: ascending trigger times make a sequence without max_span TRUE.
AscendingIsReported ==
    hist # <<>> =>
        \A s \in SeqIdx : SequenceTable[s].max_span = 0 /\ Justified(s, hist)
            => \E n \in SequenceNotes : n.idx = s /\ n.at = Len(hist)

\* docs/SEQUENCES.md: a sequence is reported when its rules triggered within its
\* max span of each other.
ReportedWithinSpan ==
    \A n \in SequenceNotes : WithinSpan(n.idx, SubSeq(hist, 1, n.at))
=============================================================================
