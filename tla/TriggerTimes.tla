---------------------------- MODULE TriggerTimes ----------------------------
(***************************************************************************)
(* What a sequence promises, as seen by the analyst who wrote it.          *)
(*                                                                         *)
(* The only state is the history of rule triggers and the set of sequence  *)
(* reports.  When a rule triggers, the sequences that may be reported are  *)
(* those it belongs to and whose rules have all triggered, with latest     *)
(* trigger times that never decrease along the sequence and are less than  *)
(* max_span and one second apart.  (The documentation has max_span only;   *)
(* see the finding on ReportedWithinSpan of VmTriggers.)                   *)
(*                                                                         *)
(* VmTriggers keeps one timestamp per sequence and rule and implements     *)
(* this module.                                                            *)
(***************************************************************************)
EXTENDS SequenceDefs

VARIABLES
    hist,     \* every trigger so far, oldest first
    reports   \* sequence reports, "at" being Len(hist) when it was made

tvars == <<hist, reports>>

TInit == hist = <<>> /\ reports = {}

TNext ==
    \E r \in RuleIdx, t \in Time :
        /\ hist' = Append(hist, [rule |-> r, time |-> t])
        /\ \E S \in SUBSET {s \in SeqIdx : Justified(s, hist')} :
              reports' = reports \cup {[seq |-> s, at |-> Len(hist')] : s \in S}

TSpec == TInit /\ [][TNext]_tvars
=============================================================================
