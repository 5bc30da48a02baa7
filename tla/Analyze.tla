------------------------------ MODULE Analyze ------------------------------
(***************************************************************************)
(* cli.py: one run of "spend-sentinel analyze", from reading the plan to   *)
(* the exit code CI acts on.  pc names the statement of analyze() the run  *)
(* has reached.  The cost loop and the drift loop are the actions of       *)
(* CostEstimator and DriftDetector, run here on this module's variables;   *)
(* the gates are the operators of PolicyGates.                             *)
(*                                                                         *)
(* Around the run other people change AWS (DriftDetector!Edit) and the     *)
(* policy file in the working directory.  Faults lists what may go wrong   *)
(* with the run's own inputs and outputs.                                  *)
(***************************************************************************)
EXTENDS Report

CONSTANTS
    Plans, Rates, HoursPerMonth, TicksPerCent, Precision,  \* of CostEstimator
    Blank, Ids, TypeOf, Values, States, MaxEdits,          \* of DriftDetector
    Providers,     \* provider_config blocks a plan may come with
    PolicyFiles,   \* settings a policy file may hold
    Paths,         \* where a report may be written
    OptionSets,    \* the command lines considered
    Faults         \* see Refuse, Escape and the output actions

VARIABLES
    plan, region, next, total, breakdown, unpriced, status,
    state, aws, edits, here, held, drifts, skipped, errors, seen,
    options,       \* the command line
    providers,     \* the plan's provider_config
    flag_file,     \* settings in the file named by --policy
    default_file,  \* settings in ./spend-sentinel.yaml, Null when no such file
    defaults_seen, \* history: what default_file was while the run looked at it
    pc,            \* the statement of analyze() reached
    policy_path,   \* "flag", "default" or "builtin" once resolved
    policy,        \* the settings loaded, or Null
    ran,           \* whether drift detection ran
    verdict,       \* "none" before the gates are evaluated
    files,         \* path -> what is there
    stdout,        \* what was printed
    crashed,       \* an exception escaped: a traceback and exit code 1
    exit           \* the exit code, Null while running

costVars    == <<next, total, breakdown, unpriced, status>>
driftVars   == <<here, held, drifts, skipped, errors, seen>>
inputVars   == <<plan, state, options, providers, flag_file>>
worldVars   == <<aws, edits, default_file>>
settingVars == <<policy_path, policy, region>>
outputVars  == <<files, stdout>>
endVars     == <<crashed, exit>>
vars == <<costVars, driftVars, inputVars, worldVars, settingVars, outputVars, endVars,
          defaults_seen, pc, ran, verdict>>

Cost  == INSTANCE CostEstimator
Drift == INSTANCE DriftDetector

-----------------------------------------------------------------------------
\* Regions named by --region or by a plan; only those of Rates are priced.
Regions == DOMAIN Rates \cup {"mars"}

Options ==
    [region_flag : Regions \cup {Null}, policy_flag : BOOLEAN,
     state_given : BOOLEAN, skip_drift : BOOLEAN,
     out_json : Paths \cup {Null}, out_md : Paths \cup {Null}, fail_on_warn : BOOLEAN]

\* What is at a path: whatever an earlier run left there, a file cut off by a
\* failed write, or a report of this run and the verdict it shows.
Contents ==
    [format : {"old", "partial", "json", "markdown"}, verdict : Verdicts \cup {"none"}]

Content(format)  == [format |-> format, verdict |-> "none"]
Rendered(format) == [format |-> format, verdict |-> verdict]

Places == {"load_plan", "resolve_policy", "load_policy", "load_pricing", "resolve_region",
           "estimate", "drift", "load_state", "make_reader", "detect", "evaluate",
           "write_json", "write_md", "print", "exit", "done"}

ASSUME OptionsAssumption == OptionSets \subseteq Options
ASSUME PoliciesAssumption ==
    /\ PolicyFiles \subseteq Policies /\ DefaultPolicy \in Policies
    /\ \A file \in PolicyFiles : IsFiniteSet(file.allowed_ports)
ASSUME StatesAssumption == <<>> \in States
ASSUME CostAssumptions == Cost!PlansAssumption /\ Cost!RatesAssumption /\ Cost!MoneyAssumption
ASSUME DriftAssumptions ==
    /\ Drift!NamesAssumption /\ Drift!TypesAssumption
    /\ Drift!StatesAssumption /\ Drift!EditsAssumption
ASSUME NullAssumption ==
    /\ Null \notin Policies \cup {0, 1, 2}
    /\ Null \notin Paths
    /\ Null \notin Regions

-----------------------------------------------------------------------------
\* What the gates are given.
Reports == [plan |-> plan, cents |-> total, unpriced |-> unpriced # <<>>,
            ran |-> ran, drifted |-> drifts # <<>>]

\* The Verdict combine() builds, as the renderers read it.
Outcome ==
    [verdict |-> verdict, summary |-> Summary(plan), total |-> total,
     lists |-> [cost |-> Len(breakdown), unpriced |-> Len(unpriced), drifts |-> Len(drifts),
                skipped |-> Cardinality(skipped), errors |-> Cardinality(errors)],
     ran |-> ran, policy |-> Evaluate(policy, Reports)]

TypeOK ==
    /\ Cost!LoopTypeOK
    /\ Drift!TypeOK
    /\ plan \in Plans
    /\ region \in DOMAIN Rates \cup {Null}
    /\ options \in OptionSets
    /\ providers \in Providers
    /\ flag_file \in PolicyFiles
    /\ default_file \in PolicyFiles \cup {Null}
    /\ defaults_seen \subseteq PolicyFiles \cup {Null}
    /\ pc \in Places
    /\ policy_path \in {"flag", "default", "builtin", Null}
    /\ policy \in PolicyFiles \cup {DefaultPolicy, Null}
    /\ ran \in BOOLEAN
    /\ verdict \in Verdicts \cup {"none"}
    /\ files \in [Paths -> Contents]
    /\ stdout \in Contents
    /\ crashed \in BOOLEAN
    /\ exit \in {0, 1, 2, Null}
    /\ verdict # "none" => Outcome \in VerdictRecords

\* A policy file and a state nobody will read are kept at one value.
UnreadInputsFixed ==
    /\ options.policy_flag => default_file = Null
    /\ ~options.policy_flag => flag_file = CHOOSE file \in PolicyFiles : TRUE
    /\ ~options.state_given =>
          state = <<>> /\ \A id \in Ids : aws[id] = Drift!Gone(TypeOf[id])

Init ==
    /\ plan \in Plans
    /\ region = Null
    /\ Cost!LoopInit
    /\ Drift!Init
    /\ options \in OptionSets
    /\ providers \in Providers
    /\ flag_file \in PolicyFiles
    /\ default_file \in PolicyFiles \cup {Null}
    /\ UnreadInputsFixed
    /\ defaults_seen = {}
    /\ pc = "load_plan"
    /\ policy_path = Null
    /\ policy = Null
    /\ ran = FALSE
    /\ verdict = "none"
    /\ files = [path \in Paths |-> Content("old")]
    /\ stdout = Content("old")
    /\ crashed = FALSE
    /\ exit = Null

\* Control moves on and nothing else of the run's ending changes.
Goto(from, to) == pc = from /\ pc' = to /\ UNCHANGED endVars

\* _fail: one line on stderr, exit 2.
Fail == pc' = "done" /\ exit' = 2 /\ crashed' = FALSE

\* An exception nobody catches: the interpreter exits 1.
Crash == pc' = "done" /\ exit' = 1 /\ crashed' = TRUE

\* The statements that read something from outside before the gates run.
Inputs == {"load_plan", "load_policy", "load_pricing", "load_state", "make_reader"}

\* Built-in defaults are read from nowhere.
ReadsSomething == pc \in Inputs /\ ~(pc = "load_policy" /\ policy_path = "builtin")

\* Without --policy, is_file() looks for the default policy file.
LooksForDefault == pc = "resolve_policy" /\ ~options.policy_flag

\* A refused input: PlanError, SnapshotError or Boto3NotInstalledError.
Refuse ==
    /\ "refuse" \in Faults
    /\ ReadsSomething
    /\ Fail
    /\ UNCHANGED <<costVars, driftVars, inputVars, worldVars, settingVars, outputVars,
                   defaults_seen, ran, verdict>>

\* An input refused with an exception the code does not expect: see Escapes of
\* InputFile; for AWS, a profile boto3 cannot find.  is_file() raises too, where
\* the directory may not be searched.
Escape ==
    /\ "escape" \in Faults
    /\ ReadsSomething \/ LooksForDefault
    /\ Crash
    /\ UNCHANGED <<costVars, driftVars, inputVars, worldVars, settingVars, outputVars,
                   defaults_seen, ran, verdict>>

-----------------------------------------------------------------------------
\* Mutant: the output file is opened for writing before anything is read.
LoadPlan_OpensOutputs ==
    /\ pc = "load_plan"
    /\ IF Summarizable(plan) THEN Goto("load_plan", "resolve_policy") ELSE Fail
    /\ files' = IF options.out_json = Null THEN files
                ELSE [files EXCEPT ![options.out_json] = Content("partial")]
    /\ UNCHANGED <<costVars, driftVars, inputVars, worldVars, settingVars, stdout,
                   defaults_seen, ran, verdict>>

LoadPlan ==
    /\ pc = "load_plan"
    /\ IF Summarizable(plan) THEN Goto("load_plan", "resolve_policy") ELSE Fail
    /\ UNCHANGED <<costVars, driftVars, inputVars, worldVars, settingVars, outputVars,
                   defaults_seen, ran, verdict>>

\* Mutant: a default file overrides --policy.
ResolvePolicy_DefaultFirst ==
    /\ Goto("resolve_policy", "load_policy")
    /\ policy_path' = IF default_file # Null THEN "default"
                      ELSE IF options.policy_flag THEN "flag" ELSE "builtin"
    /\ defaults_seen' = {default_file}
    /\ UNCHANGED <<costVars, driftVars, inputVars, worldVars, policy, region, outputVars,
                   ran, verdict>>

\* --policy wins, else the default file if there is one now, else the defaults.
ResolvePolicy ==
    /\ Goto("resolve_policy", "load_policy")
    /\ policy_path' = IF options.policy_flag THEN "flag"
                      ELSE IF default_file # Null THEN "default" ELSE "builtin"
    /\ defaults_seen' = {default_file}
    /\ UNCHANGED <<costVars, driftVars, inputVars, worldVars, policy, region, outputVars,
                   ran, verdict>>

\* The default file may have gone since it was looked up.
LoadPolicy ==
    /\ pc = "load_policy"
    /\ IF policy_path = "default" /\ default_file = Null
       THEN Fail /\ policy' = policy
       ELSE /\ Goto("load_policy", "load_pricing")
            /\ policy' = CASE policy_path = "flag"    -> flag_file
                           [] policy_path = "default" -> default_file
                           [] policy_path = "builtin" -> DefaultPolicy
    /\ UNCHANGED <<costVars, driftVars, inputVars, worldVars, policy_path, region, outputVars,
                   defaults_seen, ran, verdict>>

LoadPricing ==
    /\ Goto("load_pricing", "resolve_region")
    /\ UNCHANGED <<costVars, driftVars, inputVars, worldVars, settingVars, outputVars,
                   defaults_seen, ran, verdict>>

\* An empty --region is no --region.
RequestedRegion ==
    IF options.region_flag # Null THEN options.region_flag ELSE ResolvePlanRegion(providers)

ResolveRegion ==
    /\ pc = "resolve_region"
    /\ IF RequestedRegion \in DOMAIN Rates
       THEN Goto("resolve_region", "estimate") /\ region' = RequestedRegion
       ELSE Fail /\ region' = region
    /\ UNCHANGED <<costVars, driftVars, inputVars, worldVars, policy_path, policy, outputVars,
                   defaults_seen, ran, verdict>>

\* One iteration of estimate(), or its return.
EstimateStep ==
    /\ pc = "estimate"
    /\ Cost!Step
    /\ UNCHANGED <<driftVars, inputVars, worldVars, settingVars, outputVars, endVars,
                   defaults_seen, pc, ran, verdict>>

\* Mutant: the loop's exception is not passed on.
EstimateReturns_IfReported ==
    /\ Goto("estimate", "drift")
    /\ status = "reported"
    /\ UNCHANGED <<costVars, driftVars, inputVars, worldVars, settingVars, outputVars,
                   defaults_seen, ran, verdict>>

EstimateReturns ==
    /\ pc = "estimate"
    /\ status # "running"
    /\ IF status = "reported" THEN Goto("estimate", "drift") ELSE Crash
    /\ UNCHANGED <<costVars, driftVars, inputVars, worldVars, settingVars, outputVars,
                   defaults_seen, ran, verdict>>

-----------------------------------------------------------------------------
WantsDrift == options.state_given /\ ~options.skip_drift

ChooseDrift ==
    /\ Goto("drift", IF WantsDrift THEN "load_state" ELSE "evaluate")
    /\ UNCHANGED <<costVars, driftVars, inputVars, worldVars, settingVars, outputVars,
                   defaults_seen, ran, verdict>>

LoadState ==
    /\ Goto("load_state", "make_reader")
    /\ UNCHANGED <<costVars, driftVars, inputVars, worldVars, settingVars, outputVars,
                   defaults_seen, ran, verdict>>

MakeReader ==
    /\ Goto("make_reader", "detect")
    /\ UNCHANGED <<costVars, driftVars, inputVars, worldVars, settingVars, outputVars,
                   defaults_seen, ran, verdict>>

DetectStep ==
    /\ pc = "detect"
    /\ Drift!Detect
    /\ UNCHANGED <<costVars, plan, options, providers, flag_file, default_file, settingVars,
                   outputVars, endVars, defaults_seen, pc, ran, verdict>>

DetectReturns ==
    /\ Goto("detect", "evaluate")
    /\ here = Len(state) + 1
    /\ ran' = TRUE
    /\ UNCHANGED <<costVars, driftVars, inputVars, worldVars, settingVars, outputVars,
                   defaults_seen, verdict>>

-----------------------------------------------------------------------------
EvaluateGates ==
    /\ Goto("evaluate", "write_json")
    /\ verdict' = Combine(Evaluate(policy, Reports))
    /\ UNCHANGED <<costVars, driftVars, inputVars, worldVars, settingVars, outputVars,
                   defaults_seen, ran>>

\* A write that is not asked for, or succeeds.
Write(from, to, path, format) ==
    /\ Goto(from, to)
    /\ files' = IF path = Null THEN files ELSE [files EXCEPT ![path] = Rendered(format)]
    /\ UNCHANGED <<costVars, driftVars, inputVars, worldVars, settingVars, stdout,
                   defaults_seen, ran, verdict>>

WriteJson == Write("write_json", "write_md", options.out_json, "json")
WriteMd   == Write("write_md", "print", options.out_md, "markdown")

\* Mutant: the OSError of a write is swallowed.
WriteFails_Ignored(at, path) ==
    /\ "disk" \in Faults
    /\ path # Null
    /\ Goto(at, IF at = "write_json" THEN "write_md" ELSE "print")
    /\ UNCHANGED <<costVars, driftVars, inputVars, worldVars, settingVars, outputVars,
                   defaults_seen, ran, verdict>>

\* The file cannot be opened, or the disk fills up: OSError.
WriteFails(at, path) ==
    /\ "disk" \in Faults
    /\ pc = at
    /\ path # Null
    /\ Fail
    /\ files' \in {files, [files EXCEPT ![path] = Content("partial")]}
    /\ UNCHANGED <<costVars, driftVars, inputVars, worldVars, settingVars, stdout,
                   defaults_seen, ran, verdict>>

\* The report holds a lone surrogate, which UTF-8 cannot encode: write_text has
\* truncated the file and raises UnicodeEncodeError, which is no OSError.
WriteRaises(at, path) ==
    /\ "encode" \in Faults
    /\ pc = at
    /\ path # Null
    /\ Crash
    /\ files' = [files EXCEPT ![path] = Content("partial")]
    /\ UNCHANGED <<costVars, driftVars, inputVars, worldVars, settingVars, stdout,
                   defaults_seen, ran, verdict>>

\* Mutant: Markdown is printed whenever it goes to no file.
Echo_BesideJson ==
    /\ Goto("print", "exit")
    /\ stdout' = IF options.out_md = Null THEN Rendered("markdown") ELSE stdout
    /\ UNCHANGED <<costVars, driftVars, inputVars, worldVars, settingVars, files,
                   defaults_seen, ran, verdict>>

Echo ==
    /\ Goto("print", "exit")
    /\ stdout' = IF options.out_json = Null /\ options.out_md = Null
                 THEN Rendered("markdown") ELSE stdout
    /\ UNCHANGED <<costVars, driftVars, inputVars, worldVars, settingVars, files,
                   defaults_seen, ran, verdict>>

\* The reader of stdout has gone, or the text cannot be encoded for it.
EchoRaises ==
    /\ "encode" \in Faults
    /\ pc = "print"
    /\ options.out_json = Null /\ options.out_md = Null
    /\ Crash
    /\ stdout' = Content("partial")
    /\ UNCHANGED <<costVars, driftVars, inputVars, worldVars, settingVars, files,
                   defaults_seen, ran, verdict>>

Exit ==
    /\ pc = "exit"
    /\ pc' = "done"
    /\ exit' = ExitCode(verdict, ran /\ errors # {}, options.fail_on_warn)
    /\ UNCHANGED <<costVars, driftVars, inputVars, worldVars, settingVars, outputVars,
                   crashed, defaults_seen, ran, verdict>>

-----------------------------------------------------------------------------
\* AWS changes while the drift loop reads it.
AwsChanges ==
    /\ pc = "detect"
    /\ \E id \in Ids : Drift!Edit(id)
    /\ UNCHANGED <<costVars, plan, options, providers, flag_file, default_file, settingVars,
                   outputVars, endVars, defaults_seen, pc, ran, verdict>>

\* Somebody writes, replaces or removes ./spend-sentinel.yaml, until it is read.
DefaultFileChanges ==
    /\ "edit" \in Faults
    /\ pc \in {"resolve_policy", "load_policy"}
    /\ default_file' \in (PolicyFiles \cup {Null}) \ {default_file}
    /\ defaults_seen' = IF pc = "load_policy" THEN defaults_seen \cup {default_file'}
                        ELSE defaults_seen
    /\ UNCHANGED <<costVars, driftVars, inputVars, aws, edits, settingVars, outputVars,
                   endVars, pc, ran, verdict>>

Run ==
    \/ LoadPlan \/ ResolvePolicy \/ LoadPolicy \/ LoadPricing \/ ResolveRegion
    \/ EstimateStep \/ EstimateReturns
    \/ ChooseDrift \/ LoadState \/ MakeReader \/ DetectStep \/ DetectReturns
    \/ EvaluateGates \/ WriteJson \/ WriteMd \/ Echo \/ Exit
    \/ Refuse \/ Escape \/ EchoRaises
    \/ WriteFails("write_json", options.out_json) \/ WriteFails("write_md", options.out_md)
    \/ WriteRaises("write_json", options.out_json) \/ WriteRaises("write_md", options.out_md)

Next == Run \/ AwsChanges \/ DefaultFileChanges

\* The process is given time to run; nobody has to change anything around it.
Spec == Init /\ [][Next]_vars /\ WF_vars(Run)
-----------------------------------------------------------------------------
(***************************************************************************)
(* The contract of a run, kept by this one: where it stands between        *)
(* deciding and ending, which reports it still owes, and what is found at  *)
(* the places they go to, stdout being the place Null.                     *)
(***************************************************************************)
Phase == IF pc = "done" THEN "ended" ELSE IF verdict = "none" THEN "deciding" ELSE "delivering"

AskedAt(format, path) == {[format |-> format, place |-> p] : p \in {path} \ {Null}}

AskedOnStdout ==
    IF options.out_json = Null /\ options.out_md = Null
    THEN {[format |-> "markdown", place |-> Null]} ELSE {}

Owed ==
    IF pc \in {"exit", "done"} THEN {}
    ELSE UNION {IF pc \in {"write_md", "print"} THEN {} ELSE AskedAt("json", options.out_json),
                IF pc = "print" THEN {} ELSE AskedAt("markdown", options.out_md),
                AskedOnStdout}

Shown == [place \in Paths \cup {Null} |-> IF place = Null THEN stdout ELSE files[place]]

Contract == INSTANCE AnalyzeContract
    WITH strict <- options.fail_on_warn, phase <- Phase, owed <- Owed, shown <- Shown

\* Every run keeps the contract: it decides once and before anything is seen,
\* puts each report where it was asked for and nothing anywhere else, spoils at
\* most the one it fails on, and ends by itself only with nothing owed and with
\* a code of its verdict (R11, R18, R19, A5, A6).
KeepsContract == Contract!Spec

\* What the run should have found, said of the plan, the state and AWS alone.
ExactTotal == Cost!SumOver(LAMBDA i : Cost!LineCents(plan[i]), Cost!PricedPositions)

Unpriceable == Classified(plan) \ Cost!PricedPositions

\* Resources a deletion gate should hear of.
Removed == {i \in Classified(plan) : ClassOf(plan[i]) \in {"delete", "replace"}}

\* Resources of the state that AWS disagreed with, or never agreed with, while
\* they were read; a resource that could not be read is not among them.
Drifted ==
    {i \in Drift!Comparisons :
        ~\A attribute \in Drift!AttributesOf(state[i].type) :
            \E live \in seen[i] :
                Drift!Visible(live) /\ ~Drift!Differs(state[i], live.value, attribute)}

OverLimit == policy.limit_usd # Unlimited /\ ExactTotal > policy.limit_usd

Forbidden ==
    \/ policy.treat_unpriced_as = "block" /\ Unpriceable # {}
    \/ Exposes(plan, policy.allowed_ports)
    \/ policy.deletions_action = "block" /\ Removed # {}
    \/ \E i \in Removed : plan[i].type \in policy.protected_types
    \/ policy.drift_action = "block" /\ drifts # <<>>

Warning ==
    \/ policy.treat_unpriced_as = "warn" /\ Unpriceable # {}
    \/ policy.deletions_action = "warn" /\ Removed # {}
    \/ policy.drift_action = "warn" /\ drifts # <<>>

\* Green means clean: when CI sees exit 0, nothing the policy in use forbids is
\* true of the plan, every supported resource of a state it was told to check
\* was read, and unless drift is ignored each one agreed with AWS on each
\* attribute (R12, R14-R18).  The limit is one on the exact amount as long as
\* sums fit the decimal context.
GreenMeansClean ==
    exit = 0 =>
        /\ ~Forbidden
        /\ Cost!SumsRepresentable => ~OverLimit
        /\ options.fail_on_warn => ~Warning
        /\ WantsDrift =>
            /\ \A i \in DOMAIN state : state[i].type \in Drift!Supported =>
                    i \in Drift!Comparisons
            /\ \/ policy.drift_action = "ignore"
               \/ policy.drift_action = "warn" /\ ~options.fail_on_warn
               \/ Drifted = {}

\* Red means gated: exit 1 without a crash is always a finding of the policy in
\* use, never an input that could not be read or a report that was not written.
RedMeansGated ==
    exit = 1 /\ ~crashed /\ Cost!SumsRepresentable =>
        OverLimit \/ Forbidden \/ (options.fail_on_warn /\ Warning)

-----------------------------------------------------------------------------
\* The page and the document somebody reads once there is a verdict.
Page == RenderMd(Outcome)
Dict == ToDict(Outcome)

Entries(name) ==
    IF name \in DOMAIN Page.sections
    THEN Page.sections[name].shown + Page.sections[name].more ELSE 0

\* The report adds up although three loops have counted: each change of the
\* header line is an entry of the cost table or of the unpriced list, the
\* skipped ones are the unsupported resources of the state, and the page counts
\* what the JSON document lists, however short it cuts its tables (R3, R7, R20).
ReportAddsUp ==
    verdict # "none" =>
        /\ Page.changed = Entries("cost") + Entries("unpriced")
        /\ ran => Entries("skipped") =
                    Cardinality({i \in DOMAIN state : state[i].type \notin Drift!Supported})
        /\ Dict.changed = Page.changed
        /\ \A name \in Lists : Entries(name) = Dict.lists[name]

\* What the page is silent about is in order, whatever the exit code: it has a
\* drift section exactly when drift was to be checked; without read errors in it
\* every supported resource was compared; with no drifts in it each of those
\* agreed with AWS on each attribute (R10-R12, R20).
SilentPageIsClean ==
    verdict # "none" =>
        /\ "drifts" \in DOMAIN Page.sections <=> WantsDrift
        /\ WantsDrift /\ "errors" \notin DOMAIN Page.sections =>
              \A i \in DOMAIN state : state[i].type \in Drift!Supported => i \in Drift!Comparisons
        /\ WantsDrift /\ Entries("drifts") = 0 => Drifted = {}

\* Every report asked for is where it was asked for, whole.
Delivered ==
    /\ options.out_json \notin {Null, options.out_md} =>
            files[options.out_json] = Rendered("json")
    /\ options.out_md # Null => files[options.out_md] = Rendered("markdown")
    /\ options.out_json = Null /\ options.out_md = Null => stdout = Rendered("markdown")

\* Whoever is sent back by the exit code finds the cause on the page: read errors
\* for a 2, unless it was for a report that could not be written; for each gate
\* that warns or blocks, the amount, the unpriced list, the deletions or the
\* drifts it objects to (R14, R16, R17, R20).
CauseIsShown ==
    /\ exit = 2 /\ verdict # "none" /\ Delivered => Entries("errors") > 0
    /\ verdict # "none" =>
          /\ verdict # "PASS" => \E g \in Gates : Page.policy[g] \in {"warn", "block"}
          /\ Page.policy["max_monthly_delta"] \in {"warn", "block"} =>
                \/ Entries("unpriced") > 0
                \/ policy.limit_usd # Unlimited /\ Page.total > policy.limit_usd
          /\ Page.policy["deletions"] \in {"warn", "block"} =>
                Page.summary["delete"] + Page.summary["replace"] > 0
          /\ Page.policy["drift"] \in {"warn", "block"} => Entries("drifts") > 0

-----------------------------------------------------------------------------
\* A run that fails before its verdict leaves every file, and stdout, as they
\* were (R2, R8, R13: "write no output files"), and never ends green.
FailureLeavesNoTrace ==
    verdict = "none" =>
        /\ \A path \in Paths : files[path] = Content("old")
        /\ stdout = Content("old")
        /\ exit # 0

\* A run that ends with the verdict's own code has delivered every report it
\* was asked for, whole, with that verdict.  One path given for both holds the
\* Markdown report alone, and never a mixture of the two.
ReportsDelivered == exit \in {0, 1} /\ ~crashed => Delivered

\* No report outlives the run that says other than its exit code: who finds a
\* BLOCK never got 0, and who got an uncrashed 1 finds no PASS, nor a WARN
\* unless warnings were to fail the run.
ReportsMatchExit ==
    pc = "done" =>
        \A report \in {files[path] : path \in Paths} \cup {stdout} :
            report.format \in {"json", "markdown"} =>
                /\ report.verdict = "BLOCK" => exit # 0
                /\ exit = 1 /\ ~crashed =>
                      \/ report.verdict = "BLOCK"
                      \/ report.verdict = "WARN" /\ options.fail_on_warn

\* The gates run under settings somebody had put in force: those of --policy, or
\* ones the default file held while it was looked at.  The built-in defaults
\* apply only when at some such moment there was no default file.
PolicyInForce ==
    verdict # "none" =>
        IF options.policy_flag THEN policy = flag_file
        ELSE policy \in defaults_seen \ {Null} \/ (policy = DefaultPolicy /\ Null \in defaults_seen)

\* The statements of analyze() yet to come, and the steps its loops have left.
StatementsLeft ==
    [load_plan |-> 15, resolve_policy |-> 14, load_policy |-> 13, load_pricing |-> 12,
     resolve_region |-> 11, estimate |-> 10, drift |-> 9, load_state |-> 8, make_reader |-> 7,
     detect |-> 6, evaluate |-> 5, write_json |-> 4, write_md |-> 3, print |-> 2, exit |-> 1,
     done |-> 0]

StepsLeft == StatementsLeft[pc] + Cost!ChangesLeft + Drift!CallsLeft

\* A run never goes back and tries nothing again: each step of it leaves fewer to
\* come, of statements and of both loops, and nothing others change around it
\* makes more, however often they do.
RunAdvances ==
    [][\/ StepsLeft' < StepsLeft
       \/ (AwsChanges \/ DefaultFileChanges) /\ StepsLeft' = StepsLeft]_vars

\* Every run ends with an exit code.
Terminates == <>(exit # Null)

\* "When both a BLOCK and a runtime error ... occur, exit 1 wins over 2 so CI
\* gating on "blocked" stays reliable" (spec A5): a run that reaches a BLOCK
\* verdict exits 1.
BlockExitsOne == verdict = "BLOCK" /\ pc = "done" => exit = 1
=============================================================================
