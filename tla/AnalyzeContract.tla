-------------------------- MODULE AnalyzeContract --------------------------
(***************************************************************************)
(* What one run of analyze promises to those who read its reports and its  *)
(* exit code (R2, R11, R18, R19, A5, A6), whatever it computes and however *)
(* it fails: a run makes up its mind once, before anybody sees anything;   *)
(* then it hands over what was asked for, one report at a time, and shows  *)
(* nothing else; it ends by itself only when nothing is owed any more, and *)
(* with a code that its verdict allows.                                    *)
(***************************************************************************)
CONSTANTS
    Paths,     \* where a report may be written
    Null       \* where a report is printed: no path; the exit code of a running run

VARIABLES
    strict,    \* --fail-on-warn
    phase,     \* "deciding", "delivering" or "ended"
    verdict,   \* "none" while deciding
    owed,      \* reports asked for and not delivered yet
    shown,     \* place -> what is found there
    exit,      \* the exit code
    crashed    \* an exception escaped

vars == <<strict, phase, verdict, owed, shown, exit, crashed>>

Verdicts == {"PASS", "WARN", "BLOCK"}
Formats  == {"json", "markdown"}
Reports  == [format : Formats, place : Paths \cup {Null}]

\* What somebody finds at a place: what was there before the run, a report cut
\* off, or a report and the verdict in it.
Old     == [format |-> "old", verdict |-> "none"]
Partial == [format |-> "partial", verdict |-> "none"]
Whole(format) == [format |-> format, verdict |-> verdict]

\* The codes a verdict allows to a run that ends by itself: 2 where a resource
\* could not be read and the verdict is green.
Codes(v) ==
    CASE v = "BLOCK"            -> {1}
      [] v = "WARN" /\ strict   -> {1}
      [] v = "WARN" /\ ~strict  -> {0, 2}
      [] v = "PASS"             -> {0, 2}

Init ==
    /\ strict \in BOOLEAN
    /\ phase = "deciding"
    /\ verdict = "none"
    /\ owed \in (SUBSET Reports) \ {{}}
    /\ shown = [place \in Paths \cup {Null} |-> Old]
    /\ exit = Null
    /\ crashed = FALSE

\* An error of the run's own, or an exception, which the interpreter answers with 1.
Fails == [exit |-> exit', crashed |-> crashed'] \in
            {[exit |-> 2, crashed |-> FALSE], [exit |-> 1, crashed |-> TRUE]}

Decide ==
    /\ phase = "deciding"
    /\ phase' = "delivering"
    /\ verdict' \in Verdicts
    /\ UNCHANGED <<strict, owed, shown, exit, crashed>>

\* An input is missing, refused or not understood: nothing has been shown.
GiveUp ==
    /\ phase = "deciding"
    /\ phase' = "ended"
    /\ Fails
    /\ owed' = {}
    /\ UNCHANGED <<strict, verdict, shown>>

Deliver(report) ==
    /\ phase = "delivering"
    /\ report \in owed
    /\ owed' = owed \ {report}
    /\ shown' = [shown EXCEPT ![report.place] = Whole(report.format)]
    /\ UNCHANGED <<strict, phase, verdict, exit, crashed>>

\* A report cannot be delivered: at most its own place is spoilt.
Abort(report) ==
    /\ phase = "delivering"
    /\ report \in owed
    /\ phase' = "ended"
    /\ Fails
    /\ shown' \in {shown, [shown EXCEPT ![report.place] = Partial]}
    /\ owed' = {}
    /\ UNCHANGED <<strict, verdict>>

End ==
    /\ phase = "delivering"
    /\ owed = {}
    /\ phase' = "ended"
    /\ exit' \in Codes(verdict)
    /\ UNCHANGED <<strict, verdict, owed, shown, crashed>>

Next ==
    \/ Decide \/ GiveUp \/ End
    \/ \E report \in owed : Deliver(report) \/ Abort(report)

Spec == Init /\ [][Next]_vars
=============================================================================
