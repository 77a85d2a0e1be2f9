-------------------------- MODULE VmTriggersProofs --------------------------
(***************************************************************************)
(* Theorems about VmTriggers, for every rule table, sequence table, clock  *)
(* and bound.                                                              *)
(***************************************************************************)
EXTENDS VmTriggers, FiniteSetTheorems, WellFoundedInduction, TLAPS

-----------------------------------------------------------------------------
(* Facts about the operators of the event loop *)

\* A sequence's rules are rules of the table.
LEMMA RulesOfType ==
    ASSUME NEW s \in SeqIdx
    PROVE  /\ RulesOf(s) \in Seq(RuleIdx)
           /\ SequenceTable[s].max_span \in Nat
  BY SequenceTableAssumption DEF SeqIdx, RuleIdx, RulesOf

\* What a trigger stamps is again a table of trigger times.
LEMMA StampType ==
    ASSUME NEW r \in RuleIdx, NEW t \in Time,
           monitored \in [SeqIdx -> [RuleIdx -> Time \cup {Never}]]
    PROVE  Stamp(r, t) \in [SeqIdx -> [RuleIdx -> Time \cup {Never}]]
  BY DEF Stamp

\* The sets of rules and of sequences reported at a trigger are finite.
LEMMA ReportsFinite ==
    ASSUME NEW r \in RuleIdx, NEW mon
    PROVE  /\ IsFiniteSet(ReportedRule(r)) /\ ReportedRule(r) \subseteq RuleIdx
           /\ IsFiniteSet(Completed(r, mon)) /\ Completed(r, mon) \subseteq SeqIdx
           /\ Cardinality(ReportedRule(r)) \in Nat
           /\ Cardinality(Completed(r, mon)) \in Nat
<1>1. IsFiniteSet(ReportedRule(r)) /\ ReportedRule(r) \subseteq RuleIdx
  BY FS_EmptySet, FS_Singleton DEF ReportedRule
<1>2. IsFiniteSet(SeqIdx)
  BY FS_Interval, SequenceTableAssumption DEF SeqIdx
<1>3. Completed(r, mon) \subseteq SeqIdx
  BY DEF Completed
<1>4. IsFiniteSet(Completed(r, mon))
  BY <1>2, <1>3, FS_Subset
<1> QED
  BY <1>1, <1>3, <1>4, FS_CardinalityType

\* A report is a note.
LEMMA ReportType ==
    ASSUME TypeOK, NEW kind \in {"rule", "sequence"}, NEW idxs \in SUBSET Nat, NEW t \in Time
    PROVE  vm_report_triggered(kind, idxs, t) \subseteq Note
<1> SUFFICES ASSUME NEW i \in idxs
             PROVE  [kind |-> kind, idx |-> i, time |-> t.sec, to |-> ncb, event |-> nevents,
                     at |-> Len(hist) + 1] \in Note
  BY DEF vm_report_triggered
<1>1. i \in Nat /\ t.sec \in Nat /\ ncb \in 0..MaxCallbacks /\ nevents \in Nat /\ Len(hist) \in Nat
  BY VmAssumption, SequenceTableAssumption DEF TypeOK, Time
<1> QED
  BY <1>1 DEF Note

\* What an unmarshal callback stores comes from the events so far.
LEMMA StoredType ==
    ASSUME NEW m \in Modules, NEW n \in Nat \ {0}, data \in [Modules -> SUBSET (1..(n - 1))],
           NEW d \in Stored(m, n)
    PROVE  [data EXCEPT ![m] = d] \in [Modules -> SUBSET (1..n)]
<1>1. PICK kept \in SUBSET data[m] : d = kept \cup {n}
  BY DEF Stored
<1>2. 1..(n - 1) \subseteq 1..n /\ n \in 1..n
  OBVIOUS
<1>3. d \in SUBSET (1..n)
  BY <1>1, <1>2
<1>4. data \in [Modules -> SUBSET (1..n)]
  BY <1>2
<1> QED
  BY <1>3, <1>4

-----------------------------------------------------------------------------
(* Type correctness *)

\* A new VM is in a state of the right types.
LEMMA InitType == Init => TypeOK
<1> SUFFICES ASSUME Init PROVE TypeOK
  OBVIOUS
<1>1. monitored \in [SeqIdx -> [RuleIdx -> Time \cup {Never}]]
  BY DEF Init
<1>2. data \in [Modules -> SUBSET (1..nevents)]
  BY DEF Init
<1> QED
  BY <1>1, <1>2, VmAssumption, SequenceTableAssumption DEF Init, TypeOK, Errors, Note

\* Entering ac_vm_exec keeps the types of all it touches.
LEMMA EnterType ==
    ASSUME TypeOK, Enter
    PROVE  /\ nevents' \in 0..MaxEvents /\ nevents' = nevents + 1 /\ nevents' \in Nat \ {0}
           /\ ntriggers' \in Nat /\ ran' \subseteq RuleIdx /\ failed' \subseteq ran'
           /\ cur' \in 1..(NRules + 1) /\ ncb' \in 0..MaxCallbacks
           /\ monitored' \in [SeqIdx -> [RuleIdx -> Time \cup {Never}]]
           /\ now' \in Time \cup {Never} /\ hist' \in Seq(Trigger) /\ notes' \subseteq Note
           /\ data \in [Modules -> SUBSET (1..(nevents' - 1))]
           /\ data \in [Modules -> SUBSET (1..nevents')]
<1>1. nevents \in Nat /\ MaxEvents \in Nat /\ nevents < MaxEvents /\ nevents' = nevents + 1
  BY VmAssumption DEF TypeOK, Enter
<1>2. 1..(nevents' - 1) = 1..nevents /\ 1..nevents \subseteq 1..nevents'
  BY <1>1
<1>3. data \in [Modules -> SUBSET (1..nevents)]
  BY DEF TypeOK
<1>4. data \in [Modules -> SUBSET (1..(nevents' - 1))] /\ data \in [Modules -> SUBSET (1..nevents')]
  BY <1>2, <1>3
<1> QED
  BY <1>1, <1>4, VmAssumption DEF TypeOK, Enter, Note

\* Every step of the event loop keeps the types.
LEMMA NextType == TypeOK /\ [Next]_vars => TypeOK'
<1> SUFFICES ASSUME TypeOK, [Next]_vars PROVE TypeOK'
  OBVIOUS
<1> USE VmAssumption, SequenceTableAssumption
<1>1. CASE ac_vm_add_trigger_callback
  BY <1>1 DEF ac_vm_add_trigger_callback, histVars, TypeOK, Note
<1>2. ASSUME NEW e \in EarlyErrors, RejectEvent(e) PROVE TypeOK'
  <2>1. Enter
    BY <1>2 DEF RejectEvent
  <2> QED
    BY <1>2, <2>1, EnterType DEF RejectEvent, TypeOK, Errors, Note
<1>3. ASSUME NEW m \in Modules, RejectUnmarshal(m) PROVE TypeOK'
  <2>1. Enter
    BY <1>3 DEF RejectUnmarshal
  <2>2. data' \in [Modules -> SUBSET (1..nevents')]
    <3>1. CASE data' = data
      BY <2>1, <3>1, EnterType
    <3>2. ASSUME NEW d \in Stored(m, nevents'), data' = [data EXCEPT ![m] = d]
          PROVE  data' \in [Modules -> SUBSET (1..nevents')]
      BY <2>1, <3>2, EnterType, StoredType
    <3> QED
      BY <1>3, <3>1, <3>2 DEF RejectUnmarshal
  <2> QED
    BY <1>3, <2>1, <2>2, EnterType DEF RejectUnmarshal, TypeOK, Errors, EarlyErrors, Note
<1>4. ASSUME NEW m \in Modules, AcceptEvent(m) PROVE TypeOK'
  <2>1. Enter
    BY <1>4 DEF AcceptEvent
  <2>2. data' \in [Modules -> SUBSET (1..nevents')]
    <3>1. PICK d \in Stored(m, nevents') : data' = [data EXCEPT ![m] = d]
      BY <1>4 DEF AcceptEvent
    <3> QED
      BY <2>1, <3>1, EnterType, StoredType
  <2> QED
    BY <1>4, <2>1, <2>2, EnterType DEF AcceptEvent, TypeOK, Errors, Note
<1>5. CASE SkipRule
  BY <1>5 DEF SkipRule, AtRule, histVars, TypeOK, Note
<1>6. ASSUME NEW e \in RuleErrors \cup {"SUCCESS"}, RuleDoesNotTrigger(e) PROVE TypeOK'
  <2>1. cur \in RuleIdx
    BY <1>6 DEF RuleDoesNotTrigger, AtRule, TypeOK, RuleIdx
  <2>2. ran' \subseteq RuleIdx /\ failed' \subseteq ran'
    BY <1>6, <2>1 DEF RuleDoesNotTrigger, TypeOK
  <2>3. err' \in Errors
    BY <1>6 DEF RuleDoesNotTrigger, TypeOK, Errors
  <2> QED
    BY <1>6, <2>1, <2>2, <2>3 DEF RuleDoesNotTrigger, TypeOK, RuleIdx, Note
<1>7. ASSUME NEW t \in Time, RuleTriggers(t) PROVE TypeOK'
  <2>1. cur \in RuleIdx /\ cur' \in 1..(NRules + 1)
    BY <1>7 DEF RuleTriggers, AtRule, TypeOK, RuleIdx
  <2>2. monitored' \in [SeqIdx -> [RuleIdx -> Time \cup {Never}]]
    BY <1>7, <2>1, StampType DEF RuleTriggers, TypeOK
  <2>3. PICK seqs : /\ seqs = Completed(cur, Stamp(cur, t))
                    /\ notes' = notes \cup vm_report_triggered("rule", ReportedRule(cur), t)
                                      \cup vm_report_triggered("sequence", seqs, t)
                    /\ ntriggers' = ntriggers + Cardinality(ReportedRule(cur)) + Cardinality(seqs)
    BY <1>7 DEF RuleTriggers
  <2>4. ReportedRule(cur) \in SUBSET Nat /\ seqs \in SUBSET Nat
    BY <2>1, <2>3, ReportsFinite DEF RuleIdx, SeqIdx
  <2>5. notes' \subseteq Note
    BY <2>3, <2>4, ReportType DEF TypeOK
  <2>6. ntriggers' \in Nat
    BY <2>1, <2>3, ReportsFinite DEF TypeOK
  <2>7. [rule |-> cur, time |-> t] \in Trigger
    BY <2>1 DEF Trigger
  <2>8. hist' \in Seq(Trigger)
    BY <1>7, <2>7 DEF RuleTriggers, TypeOK
  <2>9. ran' \subseteq RuleIdx /\ failed' \subseteq ran'
    BY <1>7, <2>1 DEF RuleTriggers, TypeOK
  <2>10. now' \in Time \cup {Never}
    BY <1>7 DEF RuleTriggers
  <2> QED
    BY <1>7, <2>1, <2>2, <2>5, <2>6, <2>8, <2>9, <2>10 DEF RuleTriggers, TypeOK, Note
<1>8. CASE Return
  BY <1>8 DEF Return, histVars, TypeOK, Note
<1>9. CASE UNCHANGED vars
  BY <1>9 DEF vars, TypeOK, Note
<1> QED
  BY <1>1, <1>2, <1>3, <1>4, <1>5, <1>6, <1>7, <1>8, <1>9 DEF Next

\* The event loop keeps its types: loop indices within the rule table, trigger
\* times that are clock readings or 0, at most VM_MAX_CALLBACKS callbacks.
THEOREM TypeCorrect == Spec => []TypeOK
  BY InitType, NextType, PTL DEF Spec

-----------------------------------------------------------------------------
(* The remembered times are those of the latest triggers *)

\* A rule has at most one latest trigger.
LEMMA LatestUnique ==
    ASSUME NEW h \in Seq(Trigger), NEW r, NEW k, NEW l, IsLatest(h, r, k), IsLatest(h, r, l)
    PROVE  k = l
  BY DEF IsLatest

\* A new trigger is the latest of its rule and leaves the latest of the others.
LEMMA LatestAppend ==
    ASSUME NEW h \in Seq(Trigger), NEW e \in Trigger
    PROVE  /\ IsLatest(Append(h, e), e.rule, Len(h) + 1)
           /\ Append(h, e)[Len(h) + 1] = e
           /\ \A k \in 1..Len(h) : Append(h, e)[k] = h[k]
           /\ \A r, k : r # e.rule /\ IsLatest(h, r, k) => IsLatest(Append(h, e), r, k)
           /\ \A r : r # e.rule /\ (\A k \in 1..Len(h) : h[k].rule # r)
                 => \A k \in 1..Len(Append(h, e)) : Append(h, e)[k].rule # r
  BY DEF IsLatest

\* Stamping the rule that triggered, in every sequence that monitors it, keeps
\* the remembered times those of the latest triggers.
LEMMA MonitoredStep == TypeOK /\ MonitoredIsLatest /\ [Next]_vars => MonitoredIsLatest'
<1> SUFFICES ASSUME TypeOK, MonitoredIsLatest, [Next]_vars PROVE MonitoredIsLatest'
  OBVIOUS
<1>1. ASSUME UNCHANGED <<monitored, hist>> PROVE MonitoredIsLatest'
  BY <1>1 DEF MonitoredIsLatest
<1>2. ASSUME NEW t \in Time, RuleTriggers(t) PROVE MonitoredIsLatest'
  <2> DEFINE e == [rule |-> cur, time |-> t]
  <2>1. cur \in RuleIdx /\ e \in Trigger /\ hist \in Seq(Trigger)
    BY <1>2, SequenceTableAssumption DEF RuleTriggers, AtRule, TypeOK, RuleIdx, Trigger
  <2>2. hist' = Append(hist, e) /\ monitored' = Stamp(cur, t)
    BY <1>2 DEF RuleTriggers
  <2>3. Len(hist') = Len(hist) + 1
    BY <2>1, <2>2
  <2> SUFFICES ASSUME NEW s \in SeqIdx, NEW r \in RuleIdx, Member(s, r)
               PROVE  \/ /\ monitored'[s][r] = Never
                         /\ \A k \in 1..Len(hist') : hist'[k].rule # r
                      \/ \E k \in 1..Len(hist') : /\ IsLatest(hist', r, k)
                                                  /\ monitored'[s][r] = hist'[k].time
    BY DEF MonitoredIsLatest
  <2>4. CASE r = cur
    <3>1. monitored'[s][r] = t
      BY <2>2, <2>4 DEF Stamp, TypeOK
    <3>2. IsLatest(hist', r, Len(hist) + 1) /\ hist'[Len(hist) + 1] = e
      BY <2>1, <2>2, <2>4, LatestAppend
    <3>3. Len(hist) + 1 \in 1..Len(hist')
      BY <2>1, <2>3
    <3> QED
      BY <3>1, <3>2, <3>3
  <2>5. CASE r # cur
    <3>1. monitored'[s][r] = monitored[s][r]
      BY <2>2, <2>5 DEF Stamp, TypeOK
    <3>2. CASE monitored[s][r] = Never /\ \A k \in 1..Len(hist) : hist[k].rule # r
      BY <2>1, <2>2, <2>5, <3>1, <3>2, LatestAppend
    <3>3. ASSUME NEW k \in 1..Len(hist), IsLatest(hist, r, k), monitored[s][r] = hist[k].time
          PROVE  \E n \in 1..Len(hist') : IsLatest(hist', r, n) /\ monitored'[s][r] = hist'[n].time
      <4>1. IsLatest(hist', r, k) /\ hist'[k] = hist[k]
        BY <2>1, <2>2, <2>5, <3>3, LatestAppend
      <4> QED
        BY <2>1, <2>3, <3>1, <3>3, <4>1
    <3> QED
      BY <3>2, <3>3 DEF MonitoredIsLatest
  <2> QED
    BY <2>4, <2>5
<1>3. ASSUME ~ \E t \in Time : RuleTriggers(t) PROVE UNCHANGED <<monitored, hist>>
  BY <1>3 DEF Next, vars, histVars, ac_vm_add_trigger_callback, RejectEvent, RejectUnmarshal,
              AcceptEvent, Enter, SkipRule, RuleDoesNotTrigger, Return
<1> QED
  BY <1>1, <1>2, <1>3

\* vm_update_sequences keeps, for each rule a sequence monitors, the time of
\* its latest trigger, and 0 for a rule that never triggered: for every clock.
THEOREM MonitoredCorrect == Spec => []MonitoredIsLatest
<1>1. Init => MonitoredIsLatest
  BY DEF Init, MonitoredIsLatest
<1> QED
  BY <1>1, MonitoredStep, TypeCorrect, PTL DEF Spec

-----------------------------------------------------------------------------
(* The loop executes the rules it should, and keeps their errors *)

\* Every step of the loop adds the rule it executed to those before it.
LEMMA MatchingStep ==
    TypeOK /\ (pc = "idle" => cur = 1) /\ MatchingRulesRun /\ [Next]_vars
        => MatchingRulesRun' /\ (pc = "idle" => cur = 1)'
<1> SUFFICES ASSUME TypeOK, pc = "idle" => cur = 1, MatchingRulesRun, [Next]_vars
             PROVE  MatchingRulesRun' /\ (pc = "idle" => cur = 1)'
  OBVIOUS
<1>1. CASE /\ UNCHANGED <<pc, evt, cur, ran>>
  BY <1>1 DEF MatchingRulesRun, RuleMatches
<1>2. ASSUME NEW m \in Modules, AcceptEvent(m)
      PROVE  MatchingRulesRun' /\ (pc = "idle" => cur = 1)'
  BY <1>2 DEF AcceptEvent, Enter, MatchingRulesRun
<1>3. ASSUME Enter, pc' = pc
      PROVE  MatchingRulesRun' /\ (pc = "idle" => cur = 1)'
  BY <1>3 DEF Enter, MatchingRulesRun
<1>4. CASE SkipRule
  BY <1>4 DEF SkipRule, AtRule, MatchingRulesRun, RuleMatches, histVars, TypeOK
<1>5. ASSUME AtRule, RuleMatches(cur), cur' = cur + 1, ran' = ran \cup {cur}, UNCHANGED <<pc, evt>>
      PROVE  MatchingRulesRun' /\ (pc = "idle" => cur = 1)'
  BY <1>5 DEF AtRule, MatchingRulesRun, RuleMatches, TypeOK
<1>6. CASE Return
  BY <1>6 DEF Return, MatchingRulesRun
<1> QED
  BY <1>1, <1>2, <1>3, <1>4, <1>5, <1>6
     DEF Next, vars, histVars, ac_vm_add_trigger_callback, RejectEvent, RejectUnmarshal,
         RuleDoesNotTrigger, RuleTriggers

\* ac_vm_exec runs every rule of the event's module, in table order, whether
\* or not the rules before it failed.
THEOREM MatchingRulesCorrect == Spec => []MatchingRulesRun
<1>1. Init => MatchingRulesRun /\ (pc = "idle" => cur = 1)
  BY DEF Init, MatchingRulesRun
<1> QED
  BY <1>1, MatchingStep, TypeCorrect, PTL DEF Spec

\* An error is returned if and only if ac_vm_exec refused the event or one of
\* the rules failed, the last one or any before it.
THEOREM ErrorsCorrect == Spec => []ErrorSurvives
<1>1. Init => ErrorSurvives
  BY DEF Init, ErrorSurvives
<1>2. TypeOK /\ ErrorSurvives /\ [Next]_vars => ErrorSurvives'
  BY DEF TypeOK, ErrorSurvives, Next, vars, histVars, ac_vm_add_trigger_callback, RejectEvent,
         RejectUnmarshal, AcceptEvent, Enter, EarlyErrors, SkipRule, RuleDoesNotTrigger,
         RuleTriggers, Return
<1> QED
  BY <1>1, <1>2, TypeCorrect, PTL DEF Spec

-----------------------------------------------------------------------------
(* Rules see the data of their own event *)

\* Outside ac_vm_exec no module holds data; inside it only the event's does.
DataFresh ==
    \A m \in Modules : data[m] = IF pc = "rules" /\ m = evt THEN {nevents} ELSE {}

\* The data of a module is set when its event is accepted and cleared at return.
LEMMA DataFreshStep ==
    ~PartialUnmarshal /\ TypeOK /\ DataFresh /\ [Next]_vars => DataFresh'
<1> SUFFICES ASSUME ~PartialUnmarshal, TypeOK, DataFresh, [Next]_vars PROVE DataFresh'
  OBVIOUS
<1>1. CASE UNCHANGED <<pc, evt, data, nevents>>
  BY <1>1 DEF DataFresh
<1>2. ASSUME pc = "idle", pc' = "idle", UNCHANGED data PROVE DataFresh'
  BY <1>2 DEF DataFresh
<1>3. ASSUME NEW m \in Modules, AcceptEvent(m) PROVE DataFresh'
  <2>1. pc = "idle" /\ pc' = "rules" /\ evt' = m
    BY <1>3 DEF AcceptEvent, Enter
  <2>2. PICK d \in Stored(m, nevents') : data' = [data EXCEPT ![m] = d]
    BY <1>3 DEF AcceptEvent
  <2>3. \A n \in Modules : data[n] = {}
    BY <2>1 DEF DataFresh
  <2>4. d = {nevents'}
    BY <2>2, <2>3 DEF Stored
  <2> QED
    BY <2>1, <2>2, <2>3, <2>4 DEF DataFresh, TypeOK
<1>4. CASE Return
  BY <1>4 DEF Return, DataFresh, TypeOK
<1> QED
  BY <1>1, <1>2, <1>3, <1>4
     DEF Next, vars, histVars, ac_vm_add_trigger_callback, RejectEvent, RejectUnmarshal, Enter,
         SkipRule, RuleDoesNotTrigger, RuleTriggers

\* If an unmarshal callback that fails has stored nothing, a rule never reads
\* a value of an earlier event.
THEOREM DataCorrect == ~PartialUnmarshal => (Spec => []RulesSeeThisEventOnly)
<1> SUFFICES ASSUME ~PartialUnmarshal PROVE Spec => []RulesSeeThisEventOnly
  OBVIOUS
<1>1. Init => DataFresh
  BY DEF Init, DataFresh
<1>2. TypeOK /\ DataFresh /\ [Next]_vars => DataFresh'
  BY DataFreshStep
<1>3. TypeOK /\ DataFresh => RulesSeeThisEventOnly
  BY DEF TypeOK, DataFresh, RulesSeeThisEventOnly
<1> QED
  BY <1>1, <1>2, <1>3, TypeCorrect, PTL DEF Spec

-----------------------------------------------------------------------------
(* vm_update_sequences implements the abstract sequences *)

\* The times mon of a sequence are those of the latest triggers in h.
AreLatest(s, mon, h) ==
    \A r \in RuleIdx : Member(s, r) =>
        \/ mon[r] = Never
        \/ \E k \in 1..Len(h) : IsLatest(h, r, k) /\ mon[r] = h[k].time

\* Seconds and microseconds are numbers.
LEMMA TimeFields ==
    ASSUME NEW t \in Time
    PROVE  t.sec \in Nat /\ t.usec \in Nat
<1>1. t.sec \in 1..MaxSec /\ t.usec \in 0..MaxUsec
  BY Zenon DEF Time
<1> QED
  BY <1>1, SequenceTableAssumption

\* What vm_update_sequences computes from one time per rule is true of the
\* whole history.
LEMMA TimesSuffice ==
    ASSUME NEW s \in SeqIdx, NEW h \in Seq(Trigger), NEW mon,
           AreLatest(s, mon, h), Sequential(s, mon), InSpan(s, mon), Len(RulesOf(s)) > 0
    PROVE  AllTriggered(s, h) /\ Ascending(s, h) /\ WithinTolerance(s, h)
<1>1. \A j \in 1..Len(RulesOf(s)) : RulesOf(s)[j] \in RuleIdx /\ Member(s, RulesOf(s)[j])
  BY RulesOfType DEF Member
<1>2. \A j \in 1..Len(RulesOf(s)) :
        \E k \in 1..Len(h) : IsLatest(h, RulesOf(s)[j], k) /\ mon[RulesOf(s)[j]] = h[k].time
  BY <1>1 DEF AreLatest, Sequential, Never
<1>3. \A j \in 1..Len(RulesOf(s)) : \A k \in 1..Len(h) :
        IsLatest(h, RulesOf(s)[j], k) => mon[RulesOf(s)[j]] = h[k].time
  BY <1>2, LatestUnique
<1>4. \A k \in 1..Len(h) : h[k].time \in Time
  <2>1. \A k \in 1..Len(h) : h[k] \in Trigger
    OBVIOUS
  <2> QED
    BY <2>1 DEF Trigger
<1>5. AllTriggered(s, h)
  BY <1>2 DEF AllTriggered
<1>6. Ascending(s, h)
  <2> SUFFICES ASSUME NEW i \in 1..(Len(RulesOf(s)) - 1), NEW k \in 1..Len(h), NEW l \in 1..Len(h),
                      IsLatest(h, RulesOf(s)[i], k), IsLatest(h, RulesOf(s)[i + 1], l)
               PROVE  TimeLeq(h[k].time, h[l].time)
    BY DEF Ascending
  <2>1. i \in 1..Len(RulesOf(s)) /\ i + 1 \in 1..Len(RulesOf(s)) /\ i + 1 > 1 /\ (i + 1) - 1 = i
    BY RulesOfType
  <2>2. NotBefore(mon[RulesOf(s)[i + 1]], mon[RulesOf(s)[i]])
    BY <2>1 DEF Sequential
  <2> QED
    <3>1. h[k].time \in Time /\ h[l].time \in Time /\ NotBefore(h[l].time, h[k].time)
      BY <1>3, <1>4, <2>1, <2>2
    <3>2. /\ h[k].time.sec \in Nat /\ h[k].time.usec \in Nat
          /\ h[l].time.sec \in Nat /\ h[l].time.usec \in Nat
      BY <3>1, TimeFields
    <3> QED
      BY <3>1, <3>2 DEF NotBefore, TimeLeq
<1>7. WithinTolerance(s, h)
  <2> DEFINE span == SequenceTable[s].max_span
  <2> SUFFICES ASSUME span # 0, NEW k \in 1..Len(h), NEW l \in 1..Len(h), Ends(s, h, k, l)
               PROVE  TimeLess(h[l].time, Later(h[k].time, span + 1))
    BY DEF WithinTolerance
  <2>1. 1 \in 1..Len(RulesOf(s)) /\ Len(RulesOf(s)) \in 1..Len(RulesOf(s))
    BY RulesOfType
  <2>2. h[l].time.sec <= h[k].time.sec + span
    BY <1>3, <2>1 DEF InSpan, Ends
  <2>3. h[k].time \in Time /\ h[k].time.sec \in Nat /\ h[l].time.sec \in Nat /\ span \in Nat
    BY <1>4, TimeFields, SequenceTableAssumption DEF SeqIdx
  <2>4. Later(h[k].time, span + 1).sec = h[k].time.sec + (span + 1)
    BY <2>3, Zenon DEF Later, Time
  <2>5. h[l].time.sec < h[k].time.sec + (span + 1)
    BY <2>2, <2>3
  <2> QED
    BY <2>4, <2>5 DEF TimeLess
<1> QED
  BY <1>5, <1>6, <1>7

\* The instance of the abstract specification means the same by "justified".
LEMMA SameJustified ==
    ASSUME NEW s, NEW h
    PROVE  TT!Justified(s, h) <=> Justified(s, h)
  BY DEF Justified, Member, AllTriggered, Ascending, WithinTolerance, Ends, Later, RulesOf,
         IsLatest, TimeLeq, TimeLess,
         TT!Justified, TT!Member, TT!AllTriggered, TT!Ascending, TT!WithinTolerance, TT!Ends,
         TT!Later, TT!RulesOf, TT!IsLatest, TT!TimeLeq, TT!TimeLess

\* The abstract reports.
Reports == {[seq |-> n.idx, at |-> n.at] : n \in SequenceNotes}

\* A trigger of the code is a trigger of the abstract specification.
LEMMA TriggerRefines ==
    ASSUME TypeOK, MonitoredIsLatest', NEW t \in Time, RuleTriggers(t)
    PROVE  TT!TNext
<1> DEFINE e == [rule |-> cur, time |-> t]
           seqs == Completed(cur, Stamp(cur, t))
<1>1. cur \in RuleIdx /\ hist \in Seq(Trigger) /\ e \in Trigger
  BY SequenceTableAssumption DEF RuleTriggers, AtRule, TypeOK, RuleIdx, Trigger
<1>2. /\ hist' = Append(hist, e) /\ monitored' = Stamp(cur, t)
      /\ notes' = notes \cup vm_report_triggered("rule", ReportedRule(cur), t)
                        \cup vm_report_triggered("sequence", seqs, t)
  BY DEF RuleTriggers
<1>3. hist' \in Seq(Trigger) /\ Len(hist') = Len(hist) + 1 /\ hist'[Len(hist')] = e
  BY <1>1, <1>2
<1>4. ASSUME NEW s \in seqs PROVE Justified(s, hist')
  <2>1. s \in SeqIdx /\ Member(s, cur) /\ Sequential(s, monitored'[s]) /\ InSpan(s, monitored'[s])
    BY <1>2 DEF Completed
  <2>2. AreLatest(s, monitored'[s], hist')
    BY <2>1 DEF AreLatest, MonitoredIsLatest
  <2>3. Len(RulesOf(s)) > 0
    BY <2>1, RulesOfType DEF Member
  <2> QED
    BY <1>3, <2>1, <2>2, <2>3, TimesSuffice DEF Justified
<1>5. seqs \in SUBSET {s \in SeqIdx : TT!Justified(s, hist')}
  BY <1>4, SameJustified DEF Completed
<1>6. Reports' = Reports \cup {[seq |-> s, at |-> Len(hist')] : s \in seqs}
  <2> DEFINE new == vm_report_triggered("sequence", seqs, t)
  <2>1. SequenceNotes' = SequenceNotes \cup new
    BY <1>2 DEF SequenceNotes, vm_report_triggered
  <2>2. {[seq |-> n.idx, at |-> n.at] : n \in new} = {[seq |-> s, at |-> Len(hist')] : s \in seqs}
    <3>1. ASSUME NEW n \in new
          PROVE  \E s \in seqs : [seq |-> n.idx, at |-> n.at] = [seq |-> s, at |-> Len(hist')]
      BY <1>3 DEF vm_report_triggered
    <3>2. ASSUME NEW s \in seqs
          PROVE  \E n \in new : [seq |-> n.idx, at |-> n.at] = [seq |-> s, at |-> Len(hist')]
      <4>1. [kind |-> "sequence", idx |-> s, time |-> t.sec, to |-> ncb, event |-> nevents,
             at |-> Len(hist) + 1] \in new
        BY DEF vm_report_triggered
      <4> QED
        BY <1>3, <4>1
    <3> HIDE DEF new, seqs
    <3> DEFINE L == {[seq |-> n.idx, at |-> n.at] : n \in new}
               R == {[seq |-> s, at |-> Len(hist')] : s \in seqs}
    <3>3. L \subseteq R
      BY <3>1
    <3>4. R \subseteq L
      BY <3>2
    <3> HIDE DEF L, R
    <3>5. L = R
      BY <3>3, <3>4
    <3> QED
      BY <3>5 DEF L, R
  <2> HIDE DEF new
  <2> QED
    BY <2>1, <2>2 DEF Reports
<1> HIDE DEF seqs
<1>7. hist' = Append(hist, [rule |-> cur, time |-> t])
  BY <1>2
<1>8. cur \in TT!RuleIdx /\ t \in TT!Time
  BY <1>1 DEF TT!RuleIdx, TT!Time, RuleIdx, Time
<1>9. seqs \in SUBSET {s \in TT!SeqIdx : TT!Justified(s, hist')}
  BY <1>5 DEF TT!SeqIdx, SeqIdx
<1> QED
  BY <1>6, <1>7, <1>8, <1>9 DEF TT!TNext, Reports

\* Every step of the code is one of the abstract specification, or none.
LEMMA NextRefines == TypeOK /\ MonitoredIsLatest' /\ [Next]_vars => [TT!TNext]_(TT!tvars)
<1> SUFFICES ASSUME TypeOK, MonitoredIsLatest', [Next]_vars PROVE [TT!TNext]_(TT!tvars)
  OBVIOUS
<1>1. ASSUME NEW t \in Time, RuleTriggers(t) PROVE TT!TNext
  BY <1>1, TriggerRefines
<1>2. ASSUME ~ \E t \in Time : RuleTriggers(t) PROVE UNCHANGED <<hist, notes>>
  BY <1>2 DEF Next, vars, histVars, ac_vm_add_trigger_callback, RejectEvent, RejectUnmarshal,
              AcceptEvent, Enter, SkipRule, RuleDoesNotTrigger, Return
<1>3. ASSUME UNCHANGED <<hist, notes>> PROVE UNCHANGED TT!tvars
  BY <1>3 DEF TT!tvars, SequenceNotes
<1> QED
  BY <1>1, <1>2, <1>3

\* The sequence state machine of the VM, which remembers one time per rule,
\* implements the abstract one, which knows the whole history: every reported
\* sequence is justified, whatever the clock does.
THEOREM Refinement == Spec => RefinesTriggerTimes
<1>1. Init => TT!TInit
  BY DEF Init, TT!TInit, SequenceNotes
<1> QED
  BY <1>1, NextRefines, TypeCorrect, MonitoredCorrect, PTL DEF Spec, RefinesTriggerTimes, TT!TSpec

-----------------------------------------------------------------------------
(* The trigger count is the number of reports *)

\* The size of the union of two disjoint finite sets.
LEMMA DisjointUnion ==
    ASSUME NEW S, NEW T, IsFiniteSet(S), IsFiniteSet(T), S \cap T = {}
    PROVE  /\ IsFiniteSet(S \cup T)
           /\ Cardinality(S \cup T) = Cardinality(S) + Cardinality(T)
<1>1. Cardinality(S) \in Nat /\ Cardinality(T) \in Nat /\ Cardinality(S \cap T) = 0
  BY FS_CardinalityType, FS_EmptySet
<1>2. /\ IsFiniteSet(S \cup T)
      /\ Cardinality(S \cup T) = Cardinality(S) + Cardinality(T) - Cardinality(S \cap T)
  BY FS_Union
<1> QED
  BY <1>1, <1>2

\* A report has as many notes as it has names to report.
LEMMA ReportCount ==
    ASSUME NEW kind, NEW idxs, NEW t, IsFiniteSet(idxs)
    PROVE  /\ IsFiniteSet(vm_report_triggered(kind, idxs, t))
           /\ Cardinality(vm_report_triggered(kind, idxs, t)) = Cardinality(idxs)
<1> DEFINE note(i) == [kind |-> kind, idx |-> i, time |-> t.sec, to |-> ncb,
                       event |-> nevents, at |-> Len(hist) + 1]
           f == [i \in idxs |-> note(i)]
           new == vm_report_triggered(kind, idxs, t)
<1>1. f \in Surjection(idxs, new)
  BY DEF Surjection, vm_report_triggered
<1>2. f \in Injection(idxs, new)
  <2>1. \A i, j \in idxs : f[i] = f[j] => i = j
    <3> SUFFICES ASSUME NEW i \in idxs, NEW j \in idxs, f[i] = f[j] PROVE i = j
      OBVIOUS
    <3>1. f[i].idx = i /\ f[j].idx = j
      OBVIOUS
    <3> QED
      BY <3>1
  <2>2. f \in [idxs -> new]
    BY <1>1 DEF Surjection
  <2> HIDE DEF f
  <2> QED
    BY <2>1, <2>2 DEF Injection, IsInjective
<1> HIDE DEF f, new
<1>3. ExistsBijection(idxs, new)
  BY <1>1, <1>2 DEF ExistsBijection, Bijection
<1> QED
  BY <1>3, FS_Bijection DEF new

\* The notes of the current event, which ntriggers counts; no note is ahead of
\* the event or the trigger that made it.
EventNotes == {n \in notes : n.event = nevents}

CountInv ==
    /\ CountIsReports
    /\ IsFiniteSet(EventNotes)
    /\ \A n \in notes : n.event <= nevents /\ n.at <= Len(hist)

\* The count grows with every report and starts again with every event.
LEMMA CountStep == TypeOK /\ CountInv /\ [Next]_vars => CountInv'
<1> SUFFICES ASSUME TypeOK, CountInv, [Next]_vars PROVE CountInv'
  OBVIOUS
<1>1. CASE UNCHANGED <<ntriggers, notes, nevents, hist>>
  BY <1>1 DEF CountInv, CountIsReports, EventNotes
<1>2. CASE Enter
  <2>1. nevents \in Nat /\ nevents' = nevents + 1 /\ notes' = notes /\ hist' = hist /\ ntriggers' = 0
    BY <1>2, VmAssumption DEF Enter, TypeOK
  <2>2. \A n \in notes : n.event \in Nat
    BY DEF TypeOK, Note
  <2>3. EventNotes' = {}
    BY <2>1, <2>2 DEF CountInv, EventNotes
  <2>4. CountIsReports' /\ IsFiniteSet(EventNotes')
    BY <2>1, <2>3, FS_EmptySet DEF CountIsReports, EventNotes
  <2>5. \A n \in notes' : n.event <= nevents' /\ n.at <= Len(hist')
    BY <2>1, <2>2 DEF CountInv
  <2> QED
    BY <2>4, <2>5 DEF CountInv
<1>3. ASSUME NEW t \in Time, RuleTriggers(t) PROVE CountInv'
  <2> DEFINE A == vm_report_triggered("rule", ReportedRule(cur), t)
             seqs == Completed(cur, Stamp(cur, t))
             B == vm_report_triggered("sequence", seqs, t)
  <2>1. cur \in RuleIdx /\ Len(hist) \in Nat /\ nevents \in Nat /\ ntriggers \in Nat
    BY <1>3, VmAssumption DEF RuleTriggers, AtRule, TypeOK, RuleIdx
  <2>2. /\ notes' = notes \cup A \cup B
        /\ ntriggers' = ntriggers + Cardinality(ReportedRule(cur)) + Cardinality(seqs)
        /\ nevents' = nevents /\ Len(hist') = Len(hist) + 1
    BY <1>3, <2>1 DEF RuleTriggers, TypeOK
  <2>3. \A n \in A : n.event = nevents /\ n.at = Len(hist) + 1 /\ n.kind = "rule"
    BY DEF vm_report_triggered
  <2>4. \A n \in B : n.event = nevents /\ n.at = Len(hist) + 1 /\ n.kind = "sequence"
    BY DEF vm_report_triggered
  <2>5. /\ IsFiniteSet(A) /\ Cardinality(A) = Cardinality(ReportedRule(cur))
        /\ IsFiniteSet(B) /\ Cardinality(B) = Cardinality(seqs)
    BY <2>1, ReportsFinite, ReportCount
  <2>6. /\ EventNotes \cap A = {} /\ (EventNotes \cup A) \cap B = {}
    <3>1. \A n \in notes : n.at \in Nat /\ n.at <= Len(hist)
      BY DEF TypeOK, Note, CountInv
    <3> HIDE DEF A, B
    <3> QED
      BY <2>1, <2>3, <2>4, <3>1 DEF EventNotes
  <2> HIDE DEF A, B, seqs
  <2>7. EventNotes' = (EventNotes \cup A) \cup B
    BY <2>2, <2>3, <2>4 DEF EventNotes
  <2>8. /\ IsFiniteSet(EventNotes \cup A)
        /\ Cardinality(EventNotes \cup A) = Cardinality(EventNotes) + Cardinality(A)
    BY <2>5, <2>6, DisjointUnion DEF CountInv
  <2>9. /\ IsFiniteSet(EventNotes')
        /\ Cardinality(EventNotes') = Cardinality(EventNotes) + Cardinality(A) + Cardinality(B)
    BY <2>5, <2>6, <2>7, <2>8, DisjointUnion
  <2>10. ntriggers' = Cardinality(EventNotes')
    BY <2>2, <2>5, <2>9 DEF CountInv, CountIsReports, EventNotes
  <2>11. \A n \in notes' : n.event <= nevents' /\ n.at <= Len(hist')
    BY <2>1, <2>2, <2>3, <2>4 DEF CountInv, TypeOK, Note
  <2> QED
    BY <2>9, <2>10, <2>11 DEF CountInv, CountIsReports, EventNotes
<1> QED
  BY <1>1, <1>2, <1>3
     DEF Next, vars, histVars, ac_vm_add_trigger_callback, RejectEvent, RejectUnmarshal,
         AcceptEvent, SkipRule, RuleDoesNotTrigger, Return

\* ac_vm_get_trigger_count is the number of calls of vm_report_triggered made
\* for the last event.
THEOREM CountCorrect == Spec => []CountIsReports
<1>1. Init => CountInv
  BY FS_EmptySet DEF Init, CountInv, CountIsReports, EventNotes
<1>2. CountInv => CountIsReports
  BY DEF CountInv
<1> QED
  BY <1>1, <1>2, CountStep, TypeCorrect, PTL DEF Spec

-----------------------------------------------------------------------------
(* Which trigger completes a sequence *)

\* A nonempty set of positions of a sequence has a last one.
LEMMA LastPosition ==
    ASSUME NEW n \in Nat, NEW T \in SUBSET (1..n), T # {}
    PROVE  \E j \in T : \A k \in T : k <= j
<1> DEFINE tail(j) == T \cap (j..n)
           U == {tail(j) : j \in T}
<1>1. IsFiniteSet(1..n)
  BY FS_Interval
<1>2. U \subseteq FiniteSubsetsOf(1..n) /\ U # {}
  <2>1. \A j \in T : tail(j) \in SUBSET (1..n)
    OBVIOUS
  <2>2. FiniteSubsetsOf(1..n) = SUBSET (1..n)
    BY <1>1, FS_FiniteSubsetsOfFinite
  <2>3. U # {}
    OBVIOUS
  <2> HIDE DEF tail
  <2> QED
    BY <2>1, <2>2, <2>3
<1>3. PICK u \in U : \A v \in U : ~ (<<v, u>> \in StrictSubsetOrdering(1..n))
  BY <1>2, WFMin, FS_StrictSubsetOrderingWellFounded
<1>4. PICK j \in T : u = tail(j)
  BY <1>3
<1>5. ASSUME NEW k \in T, k > j PROVE FALSE
  <2>1. tail(k) \in U /\ tail(k) \subseteq u /\ j \in u /\ j \notin tail(k)
    BY <1>4, <1>5
  <2>2. tail(k) \subseteq 1..n /\ u \subseteq 1..n
    BY <1>4
  <2> HIDE DEF tail, U
  <2>3. <<tail(k), u>> \in StrictSubsetOrdering(1..n)
    BY <2>1, <2>2 DEF StrictSubsetOrdering
  <2> QED
    BY <1>3, <2>1, <2>3
<1> QED
  BY <1>5

\* No remembered time is ahead of the last clock reading.
ClockInv ==
    \A s \in SeqIdx, r \in RuleIdx : monitored[s][r] # Never => TimeLeq(monitored[s][r], now)

\* With readings that increase, no remembered time is after the last reading.
LEMMA ClockStep == TypeOK /\ ClockInv /\ [Next]_vars /\ ClockMode = "strict" => ClockInv'
<1> SUFFICES ASSUME TypeOK, ClockInv, [Next]_vars, ClockMode = "strict" PROVE ClockInv'
  OBVIOUS
<1>1. CASE UNCHANGED <<monitored, now>>
  BY <1>1 DEF ClockInv
<1>2. ASSUME NEW t \in Time, RuleTriggers(t) PROVE ClockInv'
  <2>1. TimeLess(now, t) /\ now' = t /\ monitored' = Stamp(cur, t)
    BY <1>2 DEF RuleTriggers, ClockMayShow
  <2>2. now.sec \in Nat /\ now.usec \in Nat /\ t.sec \in Nat /\ t.usec \in Nat
    BY SequenceTableAssumption DEF TypeOK, Time, Never
  <2> SUFFICES ASSUME NEW s \in SeqIdx, NEW r \in RuleIdx, monitored'[s][r] # Never
               PROVE  TimeLeq(monitored'[s][r], t)
    BY <2>1 DEF ClockInv
  <2>3. CASE monitored'[s][r] = t
    BY <2>2, <2>3 DEF TimeLeq
  <2>4. CASE monitored'[s][r] = monitored[s][r]
    <3>1. monitored[s][r] \in Time /\ TimeLeq(monitored[s][r], now)
      BY <2>4 DEF ClockInv, TypeOK
    <3>2. monitored[s][r].sec \in Nat /\ monitored[s][r].usec \in Nat
      BY <3>1, SequenceTableAssumption DEF Time
    <3> QED
      BY <2>1, <2>2, <2>4, <3>1, <3>2 DEF TimeLeq, TimeLess
  <2> QED
    BY <2>1, <2>3, <2>4 DEF Stamp, TypeOK
<1> QED
  BY <1>1, <1>2
     DEF Next, vars, histVars, ac_vm_add_trigger_callback, RejectEvent, RejectUnmarshal,
         AcceptEvent, Enter, SkipRule, RuleDoesNotTrigger, Return

\* When every reading is later than the one before, the rule that triggered has
\* the greatest time of all: in a sequence in order no other rule comes after it.
LEMMA LastCompletes ==
    ASSUME TypeOK, ClockInv, ClockMode = "strict", NEW t \in Time, RuleTriggers(t),
           NEW s \in Completed(cur, Stamp(cur, t))
    PROVE  cur = RulesOf(s)[Len(RulesOf(s))]
<1> DEFINE rules == RulesOf(s)
           mon == Stamp(cur, t)[s]
           at == {j \in 1..Len(rules) : rules[j] = cur}
<1>1. s \in SeqIdx /\ Member(s, cur) /\ Sequential(s, mon)
  BY DEF Completed
<1>2. rules \in Seq(RuleIdx) /\ cur \in RuleIdx /\ Len(rules) \in Nat
  BY <1>1, RulesOfType, SequenceTableAssumption DEF RuleTriggers, AtRule, TypeOK, RuleIdx
<1>3. at \in SUBSET (1..Len(rules)) /\ at # {}
  BY <1>1 DEF Member
<1>4. PICK j \in at : \A k \in at : k <= j
  BY <1>2, <1>3, LastPosition
<1>5. SUFFICES ASSUME j # Len(rules) PROVE FALSE
  BY <1>4
<1>6. j + 1 \in 1..Len(rules) /\ rules[j + 1] # cur /\ rules[j + 1] \in RuleIdx /\ rules[j] = cur
  BY <1>2, <1>4, <1>5
<1> DEFINE later == monitored[s][rules[j + 1]]
<1>7. mon[cur] = t /\ mon[rules[j + 1]] = later
  BY <1>1, <1>2, <1>6 DEF Stamp, TypeOK
<1>8. later.sec # 0 /\ NotBefore(later, t)
  <2>1. j + 1 > 1 /\ (j + 1) - 1 = j
    BY <1>4
  <2>2. mon[rules[j + 1]].sec # 0 /\ NotBefore(mon[rules[j + 1]], mon[rules[j]])
    BY <1>1, <1>6, <2>1 DEF Sequential
  <2> QED
    BY <1>6, <1>7, <2>2
<1>9. later # Never
  BY <1>8 DEF Never
<1>10. later \in Time /\ TimeLeq(later, now)
  BY <1>1, <1>6, <1>9 DEF TypeOK, ClockInv
<1>11. TimeLess(now, t) /\ now \in Time \cup {Never}
  BY DEF RuleTriggers, ClockMayShow, TypeOK
<1> HIDE DEF later
<1>12. /\ later.sec \in Nat /\ later.usec \in Nat /\ t.sec \in Nat /\ t.usec \in Nat
       /\ now.sec \in Nat /\ now.usec \in Nat
  BY <1>10, <1>11, SequenceTableAssumption DEF Time, Never
<1> QED
  BY <1>8, <1>10, <1>11, <1>12 DEF NotBefore, TimeLeq, TimeLess

\* A step that reports a sequence is a trigger of the sequence's last rule,
\* provided that no two clock readings are equal and the clock is never set back.
THEOREM LastRuleCorrect == ClockMode = "strict" => (Spec => OnlyLastRuleCompletes)
<1> SUFFICES ASSUME ClockMode = "strict" PROVE Spec => OnlyLastRuleCompletes
  OBVIOUS
<1> DEFINE NewReports == \A n \in notes' \ notes : n.kind = "sequence" =>
                             cur = RulesOf(n.idx)[Len(RulesOf(n.idx))]
<1>1. Init => ClockInv
  BY DEF Init, ClockInv
<1>2. TypeOK /\ ClockInv /\ [Next]_vars => ClockInv'
  BY ClockStep
<1>3. TypeOK /\ ClockInv /\ [Next]_vars => [NewReports]_vars
  <2> SUFFICES ASSUME TypeOK, ClockInv, [Next]_vars PROVE NewReports
    OBVIOUS
  <2>1. ASSUME NEW t \in Time, RuleTriggers(t) PROVE NewReports
    BY <2>1, LastCompletes DEF RuleTriggers, vm_report_triggered
  <2>2. ASSUME ~ \E t \in Time : RuleTriggers(t) PROVE notes' = notes
    BY <2>2 DEF Next, vars, histVars, ac_vm_add_trigger_callback, RejectEvent, RejectUnmarshal,
                AcceptEvent, Enter, SkipRule, RuleDoesNotTrigger, Return
  <2> QED
    BY <2>1, <2>2
<1> QED
  BY <1>1, <1>2, <1>3, TypeCorrect, PTL DEF Spec, OnlyLastRuleCompletes
=============================================================================
