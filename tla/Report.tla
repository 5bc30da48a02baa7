------------------------------- MODULE Report -------------------------------
(***************************************************************************)
(* The reports of a run: the counts of summarize_plan, the Markdown page   *)
(* of render/markdown.py and the document of render/jsonout.py.  A list of *)
(* the report is reduced to the number of its entries, a section of the    *)
(* page to how many of them it shows and how many it only counts; wording, *)
(* escaping and layout are left out.                                       *)
(***************************************************************************)
EXTENDS PolicyGates

CONSTANT MaxRows       \* 50 in the code: rows a section of the page shows

ASSUME RowsAssumption == MaxRows \in Nat

\* Mutant: a replacement is counted with the creations and deletions as well.
Summary_ReplaceIsBoth(plan) ==
    [class \in ActionClass |->
        Cardinality({i \in Classified(plan) : ClassOf(plan[i]) \in {class, "replace"}})]

\* PlanSummary, and its property changed.
Summary(plan) ==
    [class \in ActionClass |-> Cardinality({i \in Classified(plan) : ClassOf(plan[i]) = class})]

Changed(summary) ==
    summary["create"] + summary["delete"] + summary["update"] + summary["replace"]

\* The lists a verdict carries.
Lists == {"cost", "unpriced", "drifts", "skipped", "errors"}

\* What the renderers read of a Verdict.
VerdictRecords ==
    [verdict : Verdicts, summary : [ActionClass -> Nat], total : Int,
     lists : [Lists -> Nat], ran : BOOLEAN, policy : [Gates -> Outcomes]]

\* _truncation_line: the first rows, and the number of the others.
Section(entries) ==
    [shown |-> IF entries > MaxRows THEN MaxRows ELSE entries,
     more  |-> IF entries > MaxRows THEN entries - MaxRows ELSE 0]

\* Mutants: the list of unpriced resources is nested under the cost table, the
\* lists of skipped and unreadable ones under the drift table.
Headings_UnpricedUnderCost(v) ==
    {name \in {"cost", "unpriced"} : v.lists[name] > 0 /\ v.lists["cost"] > 0}
        \cup {name \in {"drifts", "skipped", "errors"} :
                v.ran /\ (name = "drifts" \/ v.lists[name] > 0)}
Headings_ErrorsUnderDrifts(v) ==
    {name \in {"cost", "unpriced"} : v.lists[name] > 0}
        \cup {name \in {"drifts", "skipped", "errors"} :
                v.ran /\ (name = "drifts" \/ (v.lists[name] > 0 /\ v.lists["drifts"] > 0))}

\* The sections that appear: what is empty is left out, except that drift
\* detection that ran and found nothing says so.
Headings(v) ==
    {name \in {"cost", "unpriced"} : v.lists[name] > 0}
        \cup {name \in {"drifts", "skipped", "errors"} :
                v.ran /\ (name = "drifts" \/ v.lists[name] > 0)}

RenderMd(v) ==
    [verdict |-> v.verdict, summary |-> v.summary, changed |-> Changed(v.summary),
     total |-> v.total, sections |-> [name \in Headings(v) |-> Section(v.lists[name])],
     policy |-> v.policy]

\* The document holds every list whole, and says whether drift detection ran.
ToDict(v) ==
    [verdict |-> v.verdict, summary |-> v.summary, changed |-> Changed(v.summary),
     total |-> v.total, lists |-> v.lists, ran |-> v.ran, policy |-> v.policy]
=============================================================================
