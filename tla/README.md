# spend-sentinel, in TLA+

spend-sentinel reads a Terraform plan, prices what it changes, compares a
Terraform state with live AWS, puts the results before four policy gates and
ends with an exit code that CI acts on. This directory models that program:
modules for its parts, TLC configurations that check them on small instances,
and proofs, checked by TLAPS, that some of what they show holds for every
instance. Sources are named relative to `src/spend_sentinel/`.

## The system

| component | state it keeps | operations | talks to |
|---|---|---|---|
| command line, `cli.py` | what `analyze()` has loaded and written so far | one sequence of statements from `load_plan` to `sys.exit` | calls every other part; reads four files; writes two, or stdout |
| plan, `core/plan.py` | none | load, classify (R3), summarize, region (R8) | file system |
| cost estimator, `core/cost.py` | `total`, `breakdown`, `unpriced` of one loop | `estimate` (R4-R7) | a `PricingSource` |
| pricing snapshot, `pricing/snapshot.py` | a table, read once | `get_rate`, `supported_regions` | a bundled file |
| policy, `core/policy.py` | none | load (R13), four gates (R14-R17) | file system |
| verdict, `core/verdict.py` | none | `combine`, `exit_code` (R18, A5) | |
| state, `core/state.py` | a stack, while it walks the modules | load, `iter_state_resources` | file system |
| drift detector, `core/drift.py` | `drifts`, `skipped`, `errors` of one loop | `detect` (R9-R12) | an `AwsReader` |
| AWS reader, `adapters/boto3_reader.py` | clients | three reads, one of them of two calls | AWS, which others change |
| renderers, `render/*.py` | none | JSON, Markdown (R19) | |

The process has one thread. What makes it hard is what happens around it and
what goes wrong inside it:

- AWS changes while the drift loop reads it, once per call, and a bucket takes
  two calls; any call may fail.
- an input file is looked at twice before it is read, and the default policy file is
  looked up before that; others may replace it between two looks, and write into
  it while it is read;
- a state is a tree of modules of any depth, walked with a stack;
- every input may be refused, with an exception the code expects (exit 2) or
  one it does not (exit 1, a traceback), and every output may fail after the
  verdict is known, having truncated its file or not;
- one exit code has to say a verdict, an error and an option at once;
- money is decimal: each product, sum and difference is rounded to 28 digits, each
  line to cents;
- four gates each see part of the findings, and none may hide another's;
- three loops count the same resources, and a report of limited length shows them.

What makes each part correct: a loader accepts only what was in the file at one moment
and turns away only what was not good, as far as it can tell; the walk hands on each
managed resource once; the estimator accounts for every change, adds up and keeps signs;
a gate answers exactly what its rule says and a stricter policy never answers less; the
detector gives each resource one fate and reports only what AWS was; the command line
turns green only when nothing the policy forbids is so, leaves no trace of a run that
fails, and no report that contradicts its exit code; a report adds up, and shows why the
code is what it is. `PROJECT.json` lists the hazards by line.

## The modules

| module | code | what it is |
|---|---|---|
| `InputFile` | `load_json_document`, `load_plan`, `load_state`, `load_policy`, `_read_bundled_snapshot` | one loader, one action per look at the path, beside a file that others replace or write into |
| `StateWalk` | `iter_state_resources` | the stack of the walk, one action per module |
| `Ingestion` | `core/state.py`, the call in `detect()` | composes the two: from a file to the list of resources |
| `PlanActions` | `core/plan.py`, `core/models.py` | operators: action classes, region of a plan |
| `CostEstimator` | `core/cost.py`, `get_rate` | the loop of `estimate()`, one action per path through its body |
| `PolicyGates` | `core/policy.py`, `core/verdict.py` | operators: the gates, verdict, exit code |
| `PolicyReview` | the same | a policy that is tightened while the gates judge one set of findings |
| `DriftDetector` | `core/drift.py`, `adapters/boto3_reader.py` | the loop of `detect()`, one action per AWS call, beside an AWS that changes |
| `SecurityGroupRules` | `core/drift.py:205-274`, `_permissions_to_rules` | one security group from the writing of the state to its comparison: grants, rules, atomic rules, renderings |
| `Report` | `summarize_plan`, `render/*.py`, the result models | operators: counts, the sections of the page, the document |
| `Analyze` | `cli.py` | one run, one action per statement; composes the gates, the report and both loops |
| `AnalyzeContract` | `cli.py`, R2, R11, R18, R19 | abstract specification of a run, which `Analyze` implements |
| `FiniteSums` | | facts about `SumFunction`, sums over finite sets, for the proofs |
| `IngestionProofs` | | theorems about `InputFile`, `StateWalk`, `Ingestion` |
| `CostEstimatorProofs`, `DriftDetectorProofs`, `SecurityGroupRulesProofs` | | theorems about the modules they are named for |
| `PolicyGatesProofs` | | theorems about `PolicyGates` and `PolicyReview` |
| `AnalyzeProofs` | | how a run ends, and the refinement |
| `AnalyzeFindingsProofs` | | what a run finds and reports, from the proofs of its loops |
| `MC...` | | instances for TLC |

`Analyze` extends `Report` (and with it `PolicyGates` and `PlanActions`) and takes
`CostEstimator` and `DriftDetector` as instances on its own variables, so
`EstimateStep` is `Cost!Step` and `DetectStep` is `Drift!Detect`: the loops
that are checked alone are the loops that run inside. The files are opened up in
`Ingestion` only: in `Analyze` a load is one action, which succeeds, is refused or
escapes, the three outcomes of `InputFile`; composing the looks at four files with
everything else would multiply states and tell nothing new.

How state and actions correspond to the code:

- **InputFile.** `at` is the statement of the loader: `Stat`, `IsDir`, `Open` and `Read`
  (the two halves of `read_bytes()`), `Parse`, `Validate`; the snapshot starts at
  `Open`. `Replace` is what others do to the path between two looks; a file that is open
  stays as it is when another takes its place. `Rewrite` is others writing into the open
  file: what has been read may then be anything. `seen` is the history of the path,
  `rewritten` whether the second has happened. A file is reduced to what the loader can
  tell apart: whether stat and open succeed, its size against the cap, which of the
  parser's outcomes its bytes lead to (`Forms`), which required keys it has, whether the
  models validate it, and its version. The parser and pydantic are external. The four
  loaders list different exceptions, which is `Unlisted`.
- **StateWalk.** `stack` and `collected` are the locals of that name; a resource is its
  module and its position there. `visited` is a history variable.
- **CostEstimator.** `next` is the position of the `for` loop; `total`, `breakdown` and
  `unpriced` are the locals of that name. `SkipExcluded`, `RecordUnpriced`, `Price` and
  `RaiseOnLine` are the four ways through the loop body, `Report` the code after it. The
  exception `_Unpriced` is the fault of a *quote* (a price or a reason); combining
  quotes keeps the fault that would have been raised first. Money is in ticks, a fixed
  even number to the cent. `ContextRound` is the decimal context: it rounds half-even to
  the digits that fit, of which `Precision`, 10^28 in the code, has one more. `Times`,
  `Plus` and `Minus` round with it as every operation of the code does, and so does the
  total; `MaxCents`, the largest amount `Decimal.quantize` returns, is below it. Beside
  the price the code computes, a quote carries `exact`, what it would be without
  rounding, which only `RoundingIsBounded` reads. A string attribute is a member of a
  small set; missing (`Absent`) and not a string (`Unknown`) are kept apart, because the
  code does. A size is a whole number of gigabytes, and one that is no number is a
  negative one: `_require_number` refuses both for the same reason.
- **PolicyGates.** A policy is a record of the settings of the YAML schema, a gate an
  operator from settings and report to an outcome. Limits are in whole cents (a fraction
  of a cent in a limit compares like its floor).
- **PolicyReview.** No part of the program moves here: a step is somebody making the
  policy stricter, and relates two evaluations of the same findings.
- **DriftDetector.** `here` is the position of the loop and `held` the local
  `versioning` between the two calls of `get_bucket`. `seen` is a history variable: the
  objects a resource's comparison could have been answered from, between its first and
  its last call. Live objects are external: an object is there, terminated (instances
  only, still described by EC2) or gone.
- **SecurityGroupRules.** What `DriftDetector` takes for one value, `ingress` or
  `egress`, opened up. `grants` is what AWS grants, one source at a time; `written` what
  it granted when Terraform wrote `state`, and `Authorize` and `Revoke` what others did
  since. A list of rules is a set, because `_atomic_rules` reads it into one, and
  `Groupings` are the ways to write grants as rules. A port is an integer (-1 for all
  types of ICMP) or `Null`, Python's `None`. `Renderings` are the results `sorted()` may
  give for the iteration orders of a set. Sources that are no CIDR blocks are in rules,
  and the comparison does not look at them (R9).
- **Analyze.** `pc` is the statement reached. `Refuse` is any exception the statement's
  handler lists, `Escape` one it does not, at the lookup of the default policy file too,
  whose `is_file()` no handler surrounds; `WriteFails` an `OSError` (the file kept or
  truncated), `WriteRaises` and `EchoRaises` an exception that is no `OSError`. `Faults`
  switches them on. `defaults_seen` is a history variable for the policy file.
- **Report.** A list of findings is its length, a section of the page how many of them
  it shows and how many it only counts (`MaxRows`, 50 in the code). `Outcome` of
  `Analyze` is the `Verdict` that `combine()` builds, `Page` and `Dict` what is rendered
  from it.
- **AnalyzeContract.** A run is *deciding*, *delivering* or *ended*. It decides once; it
  owes the reports that were asked for, puts each where it was asked for and nothing
  anywhere else; a report that cannot be delivered ends it with at most that place
  spoilt; by itself it ends with nothing owed and a code the verdict allows. The
  refinement mapping is computed from `pc`: `Phase`, `Owed` and `Shown` of `Analyze`,
  with stdout as one more place. Loads, loops and the lookup of the policy are
  stuttering steps.

## What the runs check

| run | question | distinct states |
|---|---|---|
| `ingest` | With the file changed twice while it is loaded: is what is accepted what was there, a refusal earned, and does each resource of a state arrive once and depth first? | 724,000 |
| `ingest_escapes` | Does every bad file end in a diagnostic? (not one Python cannot build) | |
| `cost` | Does the estimate of every plan of up to three of 22 changes account for all of them, add up, keep signs and stay near the exact amount? | 108,000 |
| `cost_huge` | Does `estimate()` raise? (it does) | |
| `gates` | Is the ingress gate exact, and does tightening any setting ever turn red into green? | 253,000 |
| `drift` | With an instance, a group and a bucket changing twice and any call failing, is what is reported, and what is not, backed by what AWS was; and does the loop end? | 1,831,000 |
| `drift_gone` | Is what is gone always reported missing? (a terminated instance is not) | |
| `sg_rules` | Is a group whose ports the state names reported exactly when what it grants to CIDR blocks changed, with lists that differ, each printed in one order? | 54,000 |
| `sg_rules_all` | Is an unchanged group silent? (not with a rule for all traffic) | |
| `analyze_gates` | From inputs to exit code and report: is green clean, is red a finding, does the page add up and show the cause? | 240,000 |
| `analyze_ends` | With every fault at every statement: what does a run leave behind, does it keep the contract, does each step take it further, and does it end? | 519,000 |
| `analyze_block` | Does a BLOCK always exit 1? (not when its report cannot be written) | |

The deep properties, in words:

- `AcceptedWasThere`, `RefusalIsEarned`, `CapIsEnforced`: the loader's answer, put
  together from three looks, is still true of what was at the path; an unreadable
  policy is never taken for an empty one; more than the cap is read only of what took
  the place of something smaller. The first two except a file that was written into
  while it was read: a mixture that parses is accepted, and no loader could tell.
- `EveryResourceOnce`, `WalkIsDepthFirst`, `StateIsOfOneMoment`: against the modules no
  closed set can do without, the depth-first order (`InOrder`), and the files seen,
  with the same exception. The order is not the document's: `stack.pop()` takes
  the last of `child_modules` first, and so do `InOrder` and the report. What matters
  is that the document alone decides it, because two runs must print the same bytes
  (AC11).
- `Accounted`, `TotalIsSumOfLines`, `RoundingIsBounded`: nothing leaves the loop
  unreported, the total is the sum of the lines as long as sums fit, and it differs
  from the cost without any rounding by at most half a cent a line and 25 parts in
  10^28 of all that is priced on either side of a change. The second part is no
  theoretical nicety: an update from 10^33 GB to 1000 GB more comes out as 0.00, and the
  run has such an update on its own scale.
- `UndoCostsTheOpposite`: the plan that undoes a plan costs exactly its
  opposite. Ties rounded any way but away from zero break it.
- `SignsFollowActions`: no created resource offsets another's cost (BUG-3).
- `IngressGateExact`: the gate, with its early refusals, against a definition
  from the ports a rule admits.
- `TighteningNeverRelaxes`: an action property over pairs of policies of
  `PolicyReview`.
- `DriftIsReal`, `SilenceIsReal`: each reported drift, and each attribute not
  reported, was so at a moment of the resource's comparison. Two calls to one
  bucket may report a combination that never existed; `WholeReadsAreSnapshots`
  says that single calls may not.
- `DriftIffChanged`, `ReportShowsWhatDiffers`: a group's rules are compared by what
  they grant, and lists that are reported differ in what is printed.
- `OneRendering`: the lists on both sides of a drift are printed in an order no hash
  seed decides (BUG-4). It excepts answers of AWS that have -1 and no port at all for one
  protocol and source, which the key does not tell apart (`NoneTiesWithAllTypes`).
- `GreenMeansClean`, `RedMeansGated`: the exit code against the findings, stated
  of plan, state and AWS and not of the intermediate reports. What they say of the
  cost limit, they say of the exact sum of the lines, each as the code computes it, as
  long as the partial sums fit the decimal context (`SumsRepresentable`); beyond it the
  total itself is rounded.
- `FailureLeavesNoTrace`, `ReportsDelivered`, `ReportsMatchExit`,
  `PolicyInForce`: the ends of a run; `KeepsContract`: all of them as a behaviour.
- `RunAdvances`: an action property: no step of a run is taken back or tried again,
  whatever fails and whoever changes what is around it. Where `Terminates` needs
  fairness, this says how far a run is from its end (`StepsLeft`, from the statements
  to come and the steps both loops have left).
- `ReportAddsUp`, `SilentPageIsClean`, `CauseIsShown`: counts of different loops
  agree on the page and in the document; what the page does not mention is in order;
  who is sent there by the exit code finds the reason (an exit 2 after the verdict is
  a read error, unless a report was not delivered).

**Bounds.** A loader looks three times, so two changes put something different at each
look, or at one and into the file while it is read; the files of `MCIngestion` hold one
thing each a loader has to tell from the others, and its states nest three deep with two
children on each side. Three changes are enough for the loop's interactions: a skipped,
an unpriced and a priced change, or two lines whose sum overflows and a third that
brings it back. Ten ticks to a cent and three hours a month put lines on, below and
above half a cent on both sides of zero; a `Precision` of 1000 lets one volume overflow
alone and others only together, and one update lose digits of both its sides, so that
their difference is off by more than the half cent of its line. Ports 22 to 25 with gaps
in the allowance give every relation of a range to it. Two state resources, one possibly
listed twice, over three AWS objects (one of each type) and two edits make torn reads,
vanishing and reappearing buckets; a pair without a bucket has no second call and is
left out unless it is the same resource twice. Sections of one row (`MaxRows`) are cut
by lists of two. The grants of `MCSecurityGroupRules` tie in all fields but one, in
port, family, kind of source, or `None` and -1 in turn. The plans of `MCAnalyze` hold
one reason to object each. The gates are quantified over, not iterated, so more changes
would add nothing. `MaxEdits` bounds only what others do. Every configuration switches
deadlock checking off, because the program terminates.

**Fairness.** `WF(Step)` (of `CostEstimator` and of `Ingestion`), `WF(Detect)` and
`WF(Run)`: the process is scheduled
until it exits and each call returns or raises (boto3 has timeouts). Nothing is
assumed of those who edit AWS, an input or the policy file, nor that a fault ever occurs.

## What is proved

Every safety invariant the passing runs check, every action property and the refinement
are theorems, for every value of the constants, from the assumptions
declared next to these. TLC evaluates each assumption in the runs of the modules that
extend its own. They are:

- plans are sequences of changes; rates and hours are natural numbers, cents split
  into an even number of ticks;
- lists of ports are finite (a YAML list is), options name known paths;
- an AWS identifier names an object of one supported type;
- the decimal context has at least two digits;
- the grants of a group are finitely many, their ports integers or `None`, and strings
  that are compared in a sort have ranks, different ones for different strings;
- a file that holds a valid state holds one of the `Trees`, in which a module is
  nested in one place (a JSON document cannot do otherwise);
- a policy's review goes from a candidate to candidates at least as strict;
- `Null` and its like are none of the values they stand in for.

`AnalyzeFindingsProofs` takes over those of both loops as assumptions of `Analyze`
(`CostAssumptions`, `DriftAssumptions`).

### The loops and the loaders

- **A loader** (`IngestionProofs`): `LoadTypeCorrect`, `AcceptedAlwaysWasThere`,
  `RefusalIsAlwaysEarned` and `CapIsAlwaysEnforced`, for every set of files, every cap
  and any number of changes. Their invariant `LoadInv` adds what the loader's locals say
  of the history: what is held was seen unless the file was written into
  (`HeldWasSeen`), the size is that of something seen that could be looked at
  (`SizeWasSeen`).
- **The walk** (`IngestionProofs`): `EveryResourceIsCollectedOnce`, for every state.
  `WalkInv` says of visited modules and stack together that nothing is lost
  (`NothingLost`), nothing foreign gets in (`NothingForeign`, over all closed sets) and
  nothing comes back (`NothingTwice`, which needs `IsTree`); when the stack is empty,
  the visited modules are a closed set and the least one.
- **The order of the walk** (`IngestionProofs`): `WalkIsAlwaysDepthFirst`
  (`WalkIsDepthFirst`) and `OrderIsUnique`. The order is said without recursion: what is
  nested in a module, at any depth, is the least set that holds it and with each module
  its children (`PartOf`); a module is taken before what is nested in it, and of two
  children the later one with all of its own before the earlier one (`TakenBefore`).
  `OrderInv`, beside `WalkInv`: what is collected is in order; each module visited is
  taken before everything that hangs on the stack; what hangs higher up there is taken
  before what hangs further down. `Visit` keeps it because the children take the place
  of their parent at the top. That this order leaves no choice is a matter of the tree:
  nothing is nested in itself (`NoCycle`: it would hang on nothing but itself, and so
  not on the root), of two modules in which a third is nested one is nested in the other
  (`Chain`), two children have nothing in common (`ChildrenAreApart`), so no two modules
  are each taken before the other (`TakenOneWay`), and two lists of the same resources
  in that order cannot differ at a first place (`NoFirstDifference`).
- **Both** (`IngestionProofs`): `StateIsAlwaysOfOneMoment` (`StateIsOfOneMoment`).
  `IngestionInv` is both invariants, and two facts where they meet: a walk is one of an
  accepted state, after which the loader writes nothing (`WalkOfAccepted`,
  `LoadingEnds`), and what is returned are exactly the managed resources of what was
  collected, in the same order (`ReturnedAreManaged`). The last filters a list with a
  fold; `ManagedAreKept` proves what it keeps by induction over the list.
  `PartsHoldTogether` says that what was proved of loader and walk alone holds of the
  two together, which is what the run checks.
- **The cost loop** (`CostEstimatorProofs`): `TypeCorrect`, `EveryChangeAccounted` and
  `SignsAlwaysFollowActions`. Prices are closed under the operations of the formulas and
  never negative (`TimesIsNear`, `PlusIsNear`, `MonthlyCostIsPrice`); a delta's sign
  follows (`DeltaIsQuote`), and neither rounding changes it (`ContextRoundIs`,
  `RoundingKeepsSign`). `Accounted` is inductive beside `TypeOK`: all positions listed
  lie before `next`, so appending `next` keeps both lists rising (`AppendBeyond`).
- **The money** (`CostEstimatorProofs`): `TotalIsAlwaysSumOfLines`
  (`TotalIsSumOfLines`), `RoundingIsAlwaysBounded` (`RoundingIsBounded`) and
  `UndoingAlwaysCostsTheOpposite` (`UndoCostsTheOpposite`), for every plan. The
  properties speak of the end; `Sums` is what the loop keeps on the way: the total is
  the sum over the priced positions *passed*, and of the lines *listed*, and is as close
  to the exact ticks as `RoundingIsBounded` says. A price is near what it would be
  unrounded: rounding is off by five parts in `Precision` at most (`ContextRoundIs`,
  from what the last digit that fits counts, `UnitIsFine`), each operation adds six
  (`RoundedOnceMore`), and a difference is held against what is priced on both its
  sides, because it may be small where they are large. A step keeps it because a sum
  with one more position is the sum plus that position's cents, and because no sum of
  some of the lines leaves the precision when `SumsRepresentable` (`AddingIsExact`).
  Undoing then is a matter of one line: its delta turns round (`UndoneDelta`) and so
  does what is rounded of it (`RoundingIsOdd`, which needs ties to go away from zero).
- **The drift loop** (`DriftDetectorProofs`): `TypeCorrect`, `OneFateAlways`,
  `DriftIsAlwaysReal`, `SilenceIsAlwaysReal` and `WholeReadsAreAlwaysSnapshots`, for
  every state, every AWS and any number of changes to it. They follow from one inductive
  invariant, `DriftInv`, stronger than each of them: about every resource compared there
  is a sight of its object, or for a bucket an earlier and a later one, that explains
  exactly the drifts filed (`Earned`). It survives a bucket's second call only because
  the versioning held from the first is that of an object seen meanwhile
  (`HeldWasSeen`). `ComparisonsFile` says what a comparison files, `OthersStayEarned`
  that filing about one resource leaves the others alone. `DriftIsNeverFiledTwice`: one
  comparison files no twins (`ComparisonsHaveNoTwins`), and by `OneFateEach` nothing was
  filed before about the resource at hand.
- **Security group rules** (`SecurityGroupRulesProofs`): `DriftExactlyWhenChanged`
  (`DriftIffChanged`), where the state names the ports (`NamesPorts`; `sg_rules_all`
  shows what happens to the others). Every grouping of the same grants has the same
  atomic rules (`GroupingIsIgnored`), Terraform writes a rule as AWS answers it
  (`WrittenAsAnswered`), and atomic rules tell the grants to CIDR blocks apart
  (`AtomsTellGrants`). With and without ports: `TypeCorrect`; `PrintedAlwaysOneWay`
  (`OneRendering`), because the key orders any two atomic rules but two that differ in
  `None` against -1 (`AtomsAreOrdered`), and in a sorted sequence without repetitions
  the place of an element is the number of those up to it (`SortedIsInPlace`), so two
  such sequences of one set are equal. In the state no two rules tie, as Terraform
  writes numbers (`StateIsUntied`); in an answer none tie unless `MixesNoneAndAll`
  (`GrantsAreUntied`), and how it is grouped makes no difference (`LiveListsAre`);
  `ReportAlwaysShowsWhatDiffers` (`ReportShowsWhatDiffers`), because an atomic rule can
  be read back from what is printed of it (`PrintingTellsApart`).
- **The gates** (`PolicyGatesProofs`): `RangeFullyAllowedExact` and
  `IngressGateIsExact`, with the cardinality theorems of the library, for every finite
  allowance; `TighteningNeverTurnsGreen`, gate by gate, for any two policies one of
  which is as strict as the other throughout. As theorems about the review that TLC
  explores: `IngressGateIsAlwaysExact` (`IngressGateExact`) and
  `TighteningAlwaysKeepsRed` (`TighteningNeverRelaxes`, an action property; a step there
  may tighten any number of settings at once, while the run's tighten one).

### A whole run

- **How it ends** (`AnalyzeProofs`): `FailureNeverLeavesATrace`,
  `ReportsAlwaysMatchExit`, `PolicyIsInForce`, from one inductive invariant,
  `ControlInv`. None of the three is inductive: what makes them hold is that the
  verdict exists exactly from the gates on (`VerdictIsTimely`), that an output is
  untouched, cut off or shows that verdict (`OutputsShowVerdict`), and that between
  lookup and reading the default file's present contents are among those seen
  (`PolicyResolved`). Here the two loops enter only through the variables they leave
  alone. `ReportsAreAlwaysDelivered` (`ReportsDelivered`) strengthens it by what has
  been delivered at each statement (`DeliveredSoFar`).
- **The refinement** (`AnalyzeProofs`): `EveryRunKeepsContract` (`KeepsContract`). An
  initial state maps to an initial state, and each action, under `ControlInv`, to
  the contract action it is for or to a stutter, for all plans, policies, command
  lines, faults and edits.
- **What it finds** (`AnalyzeFindingsProofs`): `GreenAlwaysMeansClean`,
  `RedAlwaysMeansGated`, `ReportsAlwaysAddUp`, `SilentPageIsAlwaysClean`,
  `CauseIsAlwaysShown` and `RunTypeCorrect`. They need to know what the loops have
  established when the gates read their results, so the loops' proofs are taken as
  instances, `CostLoop` and `DriftLoop`, on the run's own variables; that their
  operators are those of `Cost` and `Drift` is what the lemmas `Same...` say. The
  invariant `RunInv` is `ControlInv` and
  - `InputTypes`: what has been loaded is of the kinds considered;
  - `CostKnown`: the cost loop is untouched until there are a plan and a region, keeps
    `LoopInv` from then on, and has reported when anything past it runs;
  - `DriftKnown`: the drift loop keeps `DriftInv` throughout (an empty state is a
    state), has passed every resource if it `ran`, and has no findings if it did not;
  - `Decided`: the verdict is what the gates make of plan, reports and policy, none of
    which changes afterwards;
  - `Ended`: a run with a verdict ends with the verdict's code, or without delivering
    (2), or by a crash (1).

  A theorem then goes from an exit code to the outcome of each gate (`VerdictMeans`),
  from there to reports (`GatesAnswer`), and from these, by `IngressGateIsExact`, the
  sums and `SilenceFollows`, to plan, state and AWS. For the page: the lengths of
  `breakdown` and `unpriced` add up to the number of classified changes
  (`ReportedLoop`), and the counts of the summary are those of its classes
  (`SummaryCounts`).

### Getting on

Each of these bounds the steps of a process by a natural number that every step of its
own lowers and no step of others changes, without fairness and for any number of edits:

- `DetectionAlwaysAdvances`: `CallsLeft`, two for each resource not passed, less one
  while a bucket is half compared. It stays a natural number because `held` is set only
  while the loop looks at a bucket (`HeldWasSeen`).
- `IngestionAlwaysAdvances`: the looks left and, of the walk, the modules not visited;
  that is where the finiteness of a document comes in, as the theorem's assumption.
- `RunAlwaysAdvances` (`RunAdvances`): `StepsLeft`, the statements of `analyze()` to
  come and what both loops have left. A run takes at most 16 steps, one for each change
  of the plan and two for each resource of the state.

What is missing from here to termination is that a process which is not at its end can
take a step at all, which is a matter of ENABLED; that stays with the runs.

### Induction

The induction theorems of the library take an operator as a parameter, which the
installed provers cannot instantiate. `FiniteSums` gets by without: a set of natural
numbers that holds 0 and with each number the next is `Nat` (`ByInduction`, from the
smallest number outside it, which the library gives for a well-founded relation), and
with it the recursion by which the library defines `SumFunction` has a solution
(`FoldExists`, `SumsExist`), which gives the same whatever order elements are taken in
(`AnyElementFirst`) and whatever larger set it is part of (`FoldsAgree`).
Sums over finite sets of integers, which is all `SumOver` is used for, are then a matter
of `SumOfOneMore`, `SumIsBounded` and `SumOfOpposites`. `IngestionProofs` uses
`ByInduction` for a fold over a sequence.

### Only model-checked

- Liveness (`Terminates`, `DetectTerminates`, `IngestionEnds`): proofs under fairness
  need ENABLED, which is out of the prover's reach. What can be said without it is
  under "Getting on".
- The properties of the runs that expect a violation: they are false.

## Where code and documents differ

- `BlockExitsOne`: A5 promises exit 1 for a BLOCK; an output that cannot be
  written makes it 2 (`cli.py:201`, `206`).
- `HugeSizeDoesNotCrash`: a finite size whose cost needs more than 28 digits
  raises `InvalidOperation` at `core/cost.py:78`, uncaught.
- `GoneIsMissing`: R10 promises a `missing` drift for what does not exist; a
  terminated instance is still described and compared (`boto3_reader.py:67`).
- `UnchangedIsSilent`: equal rules are no drift (R9); a rule for all traffic has
  the ports 0 and 0 in the state and none in AWS's answer, and `_atomic_rules`
  (`core/drift.py:223`) takes the two for different.
- `FailsClosed`: the specification has hostile structures fail closed with exit 2. An
  integer of more than 4300 digits in a plan or state (`core/plan.py:80`) and an
  impossible date in a policy (`core/policy.py:157`) raise a plain `ValueError` that no
  handler lists: a traceback and exit 1. On Python 3.11 `is_dir()` (`core/plan.py:69`)
  may raise as well, when the path is locked after the first look; `IsDirRaises` models
  it.

Met in modelling, and without a run of its own: the comment on the key of
`_render_rules` calls the rendering deterministic and has rules without ports before
those with numbers (`core/drift.py:241-244`). The key gives `None` the place of -1, which
AWS gives for all types of ICMP (`NoneTiesWithAllTypes`); two such rules alike otherwise
come out in the order a set is iterated in. That is the exception in `OneRendering`.

## Not modelled

- Wording, escaping and layout: texts of diagnostics and rule messages, the Markdown
  escapes, the cutting of long values, the order of JSON keys. They are functions of
  strings and no state depends on them; golden files test them.
- `adapters/fixture_reader.py`: a lookup in a file recorded beforehand, for tests. It
  has no second call and nobody changes what it reads; each of its answers is a whole
  read of `DriftDetector`.
- What pydantic coerces, what the JSON and YAML parsers accept, and what boto3 returns
  against its documentation: other people's code, entering as the outcomes this code
  tells apart.
- An I/O error in the middle of reading a file that was opened: it is refused like one
  that cannot be opened.
- Sizes with a fraction of a gigabyte, which multiply out like whole ones on a finer
  scale of ticks.
- The construction of the boto3 clients is one statement (`MakeReader`) that succeeds,
  is refused or escapes.
- `--version`, the click options' parsing, and the snapshot's provenance block.
