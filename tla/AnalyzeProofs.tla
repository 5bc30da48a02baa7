--------------------------- MODULE AnalyzeProofs ---------------------------
(***************************************************************************)
(* Proofs about how a run of analyze ends, for every plan, state, policy   *)
(* file, command line and mix of faults.  The cost and drift loops enter   *)
(* only through what they leave alone: they write no output, decide no     *)
(* exit code and read no policy.                                           *)
(***************************************************************************)
EXTENDS Analyze, TLAPS

Delivering == {"write_json", "write_md", "print", "exit"}

\* The statements after load_policy.
Settled == Delivering \cup {"load_pricing", "resolve_region", "estimate", "drift",
                            "load_state", "make_reader", "detect", "evaluate"}

Outputs == {files[path] : path \in Paths} \cup {stdout}

ControlTypeOK ==
    /\ options \in OptionSets
    /\ files \in [Paths -> Contents]
    /\ stdout \in Contents
    /\ pc \in Places

ExitIsLast == pc # "done" => exit = Null

\* The verdict exists exactly while reports are delivered, and afterwards.
VerdictIsTimely ==
    /\ pc \in Delivering => verdict \in Verdicts
    /\ pc \notin Delivering \cup {"done"} => verdict = "none"
    /\ verdict \in Verdicts \cup {"none"}

OutputsShowVerdict ==
    \A report \in Outputs :
        \/ report = Content("old")
        \/ verdict # "none" /\ report = Content("partial")
        \/ verdict # "none" /\ report.verdict = verdict

ExitFollowsVerdict ==
    pc = "done" =>
        /\ exit = 0 => verdict \in {"PASS", "WARN"}
        /\ exit = 1 /\ ~crashed =>
              verdict = "BLOCK" \/ (verdict = "WARN" /\ options.fail_on_warn)

\* Between the look at the default file and its reading.
PolicyResolved ==
    pc = "load_policy" =>
        /\ policy_path \in {"flag", "default", "builtin"}
        /\ policy_path = "flag" <=> options.policy_flag
        /\ policy_path = "builtin" => Null \in defaults_seen
        /\ default_file \in defaults_seen

InForce ==
    IF options.policy_flag THEN policy = flag_file
    ELSE policy \in defaults_seen \ {Null} \/ (policy = DefaultPolicy /\ Null \in defaults_seen)

PolicySettled == pc \in Settled \/ verdict # "none" => InForce

ControlInv ==
    /\ ControlTypeOK
    /\ ExitIsLast
    /\ VerdictIsTimely
    /\ OutputsShowVerdict
    /\ ExitFollowsVerdict
    /\ PolicyResolved
    /\ PolicySettled

-----------------------------------------------------------------------------
LEMMA OptionPaths ==
  ASSUME options \in OptionSets
  PROVE  /\ options.out_json \in Paths \cup {Null}
         /\ options.out_md \in Paths \cup {Null}
         /\ options.fail_on_warn \in BOOLEAN
         /\ options.policy_flag \in BOOLEAN
  BY OptionsAssumption DEF Options

LEMMA InitControl == Init => ControlInv
<1> SUFFICES ASSUME Init PROVE ControlInv
  OBVIOUS
<1>1. ControlTypeOK /\ OutputsShowVerdict
  BY DEF Init, ControlTypeOK, OutputsShowVerdict, Outputs, Content, Contents, Places
<1>2. QED
  BY <1>1 DEF Init, ControlInv, ExitIsLast, VerdictIsTimely, ExitFollowsVerdict,
              PolicyResolved, PolicySettled, Settled, Delivering

\* What the run goes by stays as it is.
KeepsSettings == UNCHANGED <<options, flag_file, policy, policy_path, defaults_seen>>

\* A step from one statement to the next that delivers nothing.
LEMMA QuietSteps ==
  ASSUME ControlInv, KeepsSettings,
         UNCHANGED <<files, stdout, verdict, exit, crashed>>,
         \/ pc' = pc /\ default_file' = default_file
         \/ pc = "load_plan" /\ pc' = "resolve_policy"
         \/ pc \in Settled /\ pc' \in Settled /\ (pc \in Delivering <=> pc' \in Delivering)
  PROVE  ControlInv'
<1> USE DEF ControlInv, KeepsSettings
<1>1. ControlTypeOK' /\ ExitIsLast' /\ VerdictIsTimely'
  BY DEF ControlTypeOK, ExitIsLast, VerdictIsTimely, Settled, Delivering, Places
<1>2. OutputsShowVerdict'
  BY DEF OutputsShowVerdict, Outputs, Content
<1>3. ExitFollowsVerdict' /\ PolicyResolved' /\ PolicySettled'
  BY DEF ExitFollowsVerdict, PolicyResolved, PolicySettled, InForce, Settled, Delivering
<1>4. QED
  BY <1>1, <1>2, <1>3

\* A run that gives up before it delivers anything: _fail or an uncaught
\* exception.
LEMMA GivingUp ==
  ASSUME ControlInv, KeepsSettings, Fail \/ Crash, pc # "done",
         UNCHANGED <<files, stdout, verdict>>
  PROVE  ControlInv'
<1> USE DEF ControlInv, KeepsSettings, Fail, Crash
<1>1. ControlTypeOK' /\ ExitIsLast' /\ VerdictIsTimely'
  BY DEF ControlTypeOK, ExitIsLast, VerdictIsTimely, Settled, Delivering, Places
<1>2. OutputsShowVerdict'
  BY DEF OutputsShowVerdict, Outputs, Content
<1>3. ExitFollowsVerdict' /\ PolicyResolved' /\ PolicySettled'
  BY DEF ExitFollowsVerdict, PolicyResolved, PolicySettled, InForce, Settled, Delivering
<1>4. QED
  BY <1>1, <1>2, <1>3

\* A step of the delivery: one output shows the verdict, or what a failed write
\* has left of it, and the run goes on or gives up.
LEMMA DeliverySteps ==
  ASSUME ControlInv, KeepsSettings, pc \in Delivering, UNCHANGED verdict,
         files' \in [Paths -> Contents], stdout' \in Contents,
         \A report \in Outputs' :
            report \in Outputs \cup {Rendered("json"), Rendered("markdown"), Content("partial")},
         \/ pc' \in Delivering /\ UNCHANGED endVars
         \/ Fail \/ Crash
  PROVE  ControlInv'
<1> USE DEF ControlInv, KeepsSettings, endVars, Fail, Crash
<1>1. ControlTypeOK' /\ ExitIsLast' /\ VerdictIsTimely'
  BY DEF ControlTypeOK, ExitIsLast, VerdictIsTimely, Delivering, Places
<1>2. OutputsShowVerdict'
  <2>1. verdict # "none"
    BY DEF VerdictIsTimely, Verdicts
  <2>2. Rendered("json").verdict = verdict /\ Rendered("markdown").verdict = verdict
    BY DEF Rendered
  <2>3. QED
    BY <2>1, <2>2 DEF OutputsShowVerdict, Content
<1>3. ExitFollowsVerdict' /\ PolicyResolved' /\ PolicySettled'
  BY DEF ExitFollowsVerdict, PolicyResolved, PolicySettled, InForce, Settled, Delivering
<1>4. QED
  BY <1>1, <1>2, <1>3

\* What a report's file and stdout hold after one of them is written.
LEMMA OneFileWritten ==
  ASSUME NEW path \in Paths, NEW content \in Contents, files \in [Paths -> Contents],
         files' = [files EXCEPT ![path] = content], UNCHANGED stdout
  PROVE  /\ files' \in [Paths -> Contents]
         /\ \A report \in Outputs' : report \in Outputs \cup {content}
  BY DEF Outputs

LEMMA StdoutWritten ==
  ASSUME NEW content \in Contents, stdout' = content, UNCHANGED files
  PROVE  \A report \in Outputs' : report \in Outputs \cup {content}
  BY DEF Outputs

LEMMA ContentsAre ==
  ASSUME VerdictIsTimely
  PROVE  {Rendered("json"), Rendered("markdown"), Content("partial")} \subseteq Contents
  BY DEF VerdictIsTimely, Rendered, Content, Contents

LEMMA CombineIsVerdict == \A results : Combine(results) \in Verdicts
  BY DEF Combine, Verdicts

-----------------------------------------------------------------------------
LEMMA StepKeepsControl == ControlInv /\ [Next]_vars => ControlInv'
<1> SUFFICES ASSUME ControlInv, [Next]_vars PROVE ControlInv'
  OBVIOUS
<1> USE DEF inputVars, worldVars, settingVars, outputVars, endVars, Goto
<1>1. CASE LoadPlan
  BY <1>1, QuietSteps, GivingUp DEF LoadPlan, KeepsSettings
<1>2. CASE ResolvePolicy
  <2>1. ControlTypeOK' /\ ExitIsLast' /\ VerdictIsTimely'
    BY <1>2 DEF ResolvePolicy, ControlInv, ControlTypeOK, ExitIsLast, VerdictIsTimely,
                Places, Delivering
  <2>2. OutputsShowVerdict'
    BY <1>2 DEF ResolvePolicy, ControlInv, OutputsShowVerdict, Outputs, Content
  <2>3. PolicyResolved'
    BY <1>2, OptionPaths DEF ResolvePolicy, PolicyResolved, ControlInv, ControlTypeOK
  <2>4. ExitFollowsVerdict' /\ PolicySettled'
    BY <1>2 DEF ResolvePolicy, ControlInv, ExitFollowsVerdict, PolicySettled, VerdictIsTimely,
                Settled, Delivering
  <2>5. QED
    BY <2>1, <2>2, <2>3, <2>4 DEF ControlInv
<1>3. CASE LoadPolicy
  <2>1. CASE policy_path = "default" /\ default_file = Null
    BY <1>3, <2>1, GivingUp DEF LoadPolicy, KeepsSettings
  <2>2. CASE ~(policy_path = "default" /\ default_file = Null)
    <3>1. /\ pc = "load_policy" /\ pc' = "load_pricing" /\ UNCHANGED <<exit, crashed>>
          /\ ~(policy_path = "default" /\ default_file = Null)
          /\ policy' = CASE policy_path = "flag"    -> flag_file
                          [] policy_path = "default" -> default_file
                          [] policy_path = "builtin" -> DefaultPolicy
      BY <1>3, <2>2 DEF LoadPolicy
    <3>2. ControlTypeOK' /\ ExitIsLast' /\ VerdictIsTimely'
      BY <1>3, <3>1 DEF LoadPolicy, ControlInv, ControlTypeOK, ExitIsLast, VerdictIsTimely,
                  Places, Delivering
    <3>3. OutputsShowVerdict'
      BY <1>3 DEF LoadPolicy, ControlInv, OutputsShowVerdict, Outputs, Content
    <3>4. InForce'
      <4>1. /\ policy_path \in {"flag", "default", "builtin"}
            /\ policy_path = "flag" <=> options.policy_flag
            /\ policy_path = "builtin" => Null \in defaults_seen
            /\ default_file \in defaults_seen
        BY <3>1 DEF ControlInv, PolicyResolved
      <4>2. UNCHANGED <<options, flag_file, defaults_seen>>
        BY <1>3 DEF LoadPolicy
      <4>3. QED
        <5>1. CASE options.policy_flag
          <6>1. policy' = flag_file
            BY <3>1, <4>1, <5>1
          <6>2. QED
            BY <4>2, <5>1, <6>1 DEF InForce
        <5>2. CASE policy_path = "default"
          <6>1. policy' = default_file /\ default_file \in defaults_seen \ {Null}
            BY <3>1, <4>1, <5>2
          <6>2. QED
            BY <4>1, <4>2, <5>2, <6>1 DEF InForce
        <5>3. CASE policy_path = "builtin"
          <6>1. policy' = DefaultPolicy /\ Null \in defaults_seen
            BY <3>1, <4>1, <5>3
          <6>2. QED
            BY <4>1, <4>2, <5>3, <6>1 DEF InForce
        <5>4. QED
          BY <4>1, <5>1, <5>2, <5>3
    <3>5. QED
      BY <3>1, <3>2, <3>3, <3>4 DEF ControlInv, ExitFollowsVerdict, PolicyResolved, PolicySettled
  <2>3. QED
    BY <2>1, <2>2
<1>4. CASE LoadPricing
  BY <1>4, QuietSteps DEF LoadPricing, KeepsSettings, Settled, Delivering
<1>5. CASE ResolveRegion
  BY <1>5, QuietSteps, GivingUp DEF ResolveRegion, KeepsSettings, Settled, Delivering
<1>6. CASE EstimateStep
  BY <1>6, QuietSteps DEF EstimateStep, KeepsSettings
<1>7. CASE EstimateReturns
  BY <1>7, QuietSteps, GivingUp DEF EstimateReturns, KeepsSettings, Settled, Delivering
<1>8. CASE ChooseDrift
  BY <1>8, QuietSteps DEF ChooseDrift, KeepsSettings, Settled, Delivering
<1>9. CASE LoadState
  BY <1>9, QuietSteps DEF LoadState, KeepsSettings, Settled, Delivering
<1>10. CASE MakeReader
  BY <1>10, QuietSteps DEF MakeReader, KeepsSettings, Settled, Delivering
<1>11. CASE DetectStep
  BY <1>11, QuietSteps DEF DetectStep, KeepsSettings
<1>12. CASE DetectReturns
  BY <1>12, QuietSteps DEF DetectReturns, KeepsSettings, Settled, Delivering
<1>13. CASE EvaluateGates
  <2>1. verdict' \in Verdicts /\ verdict' # "none" /\ verdict = "none"
    BY <1>13, CombineIsVerdict
    DEF EvaluateGates, Verdicts, ControlInv, VerdictIsTimely, Delivering
  <2>2. ControlTypeOK' /\ ExitIsLast' /\ VerdictIsTimely'
    BY <1>13, <2>1 DEF EvaluateGates, ControlInv, ControlTypeOK, ExitIsLast, VerdictIsTimely,
                       Places, Delivering
  <2>3. OutputsShowVerdict'
    BY <1>13, <2>1 DEF EvaluateGates, ControlInv, OutputsShowVerdict, Outputs, Content
  <2>4. ExitFollowsVerdict' /\ PolicyResolved' /\ PolicySettled'
    BY <1>13 DEF EvaluateGates, ControlInv, ExitFollowsVerdict, PolicyResolved, PolicySettled,
                 InForce, Settled, Delivering
  <2>5. QED
    BY <2>2, <2>3, <2>4 DEF ControlInv
<1>14. CASE Exit
  <2>1. ControlTypeOK' /\ ExitIsLast' /\ VerdictIsTimely' /\ verdict \in Verdicts
    BY <1>14 DEF Exit, ControlInv, ControlTypeOK, ExitIsLast, VerdictIsTimely, Places, Delivering
  <2>2. OutputsShowVerdict'
    BY <1>14 DEF Exit, ControlInv, OutputsShowVerdict, Outputs, Content
  <2>3. ExitFollowsVerdict'
    BY <1>14, <2>1 DEF Exit, ExitFollowsVerdict, ExitCode, Verdicts
  <2>4. PolicyResolved' /\ PolicySettled'
    BY <1>14 DEF Exit, ControlInv, PolicyResolved, PolicySettled, InForce, Settled, Delivering
  <2>5. QED
    BY <2>1, <2>2, <2>3, <2>4 DEF ControlInv
<1>15. CASE Refuse
  BY <1>15, GivingUp DEF Refuse, ReadsSomething, Inputs, KeepsSettings
<1>16. CASE Escape
  BY <1>16, GivingUp DEF Escape, ReadsSomething, LooksForDefault, Inputs, KeepsSettings
<1>17. CASE AwsChanges
  BY <1>17, QuietSteps DEF AwsChanges, KeepsSettings
<1>18. CASE DefaultFileChanges
  <2>1. ControlTypeOK' /\ ExitIsLast' /\ VerdictIsTimely'
    BY <1>18 DEF DefaultFileChanges, ControlInv, ControlTypeOK, ExitIsLast, VerdictIsTimely
  <2>2. OutputsShowVerdict'
    BY <1>18 DEF DefaultFileChanges, ControlInv, OutputsShowVerdict, Outputs, Content
  <2>3. ExitFollowsVerdict' /\ PolicyResolved' /\ PolicySettled'
    BY <1>18 DEF DefaultFileChanges, ControlInv, ExitFollowsVerdict, PolicyResolved, PolicySettled,
                 VerdictIsTimely, Settled, Delivering
  <2>4. QED
    BY <2>1, <2>2, <2>3 DEF ControlInv
<1>19. CASE UNCHANGED vars
  BY <1>19, QuietSteps DEF vars, KeepsSettings
<1>20. ASSUME NEW from \in Delivering, NEW to \in Delivering, NEW path \in Paths \cup {Null},
              NEW format \in {"json", "markdown"}, Write(from, to, path, format)
       PROVE  ControlInv'
  <2>1. pc \in Delivering /\ pc' \in Delivering /\ UNCHANGED endVars /\ UNCHANGED stdout
    BY <1>20 DEF Write
  <2>2. files \in [Paths -> Contents] /\ stdout \in Contents /\ Rendered(format) \in Contents
    BY ContentsAre DEF ControlInv, ControlTypeOK
  <2>3. KeepsSettings /\ UNCHANGED verdict
    BY <1>20 DEF Write, KeepsSettings
  <2>4. /\ files' \in [Paths -> Contents]
        /\ \A report \in Outputs' : report \in Outputs \cup {Rendered(format)}
    <3>1. CASE path = Null
      BY <1>20, <2>2, <3>1 DEF Write, Outputs
    <3>2. CASE path \in Paths /\ path # Null
      <4>1. files' = [files EXCEPT ![path] = Rendered(format)]
        BY <1>20, <3>2 DEF Write
      <4>2. QED
        BY <2>1, <2>2, <3>2, <4>1, OneFileWritten
    <3>3. QED
      BY <3>1, <3>2
  <2>5. QED
    BY <2>1, <2>2, <2>3, <2>4, DeliverySteps
<1>21. CASE WriteJson
  BY <1>20, <1>21, OptionPaths DEF WriteJson, ControlInv, ControlTypeOK, Delivering
<1>22. CASE WriteMd
  BY <1>20, <1>22, OptionPaths DEF WriteMd, ControlInv, ControlTypeOK, Delivering
<1>23. ASSUME NEW at \in Delivering, NEW path \in Paths \cup {Null},
              WriteFails(at, path) \/ WriteRaises(at, path)
       PROVE  ControlInv'
  <2>1. pc \in Delivering /\ (Fail \/ Crash) /\ UNCHANGED <<stdout, verdict>> /\ path \in Paths
    BY <1>23 DEF WriteFails, WriteRaises
  <2>2. files \in [Paths -> Contents] /\ stdout \in Contents /\ Content("partial") \in Contents
    BY ContentsAre DEF ControlInv, ControlTypeOK
  <2>3. KeepsSettings
    BY <1>23 DEF WriteFails, WriteRaises, KeepsSettings
  <2>4. /\ files' \in [Paths -> Contents]
        /\ \A report \in Outputs' : report \in Outputs \cup {Content("partial")}
    <3>1. CASE files' = files
      BY <2>1, <2>2, <3>1 DEF Outputs
    <3>2. CASE files' = [files EXCEPT ![path] = Content("partial")]
      BY <2>1, <2>2, <3>2, OneFileWritten
    <3>3. QED
      BY <1>23, <3>1, <3>2 DEF WriteFails, WriteRaises
  <2>5. QED
    BY <2>1, <2>2, <2>3, <2>4, DeliverySteps
<1>24. CASE \/ WriteFails("write_json", options.out_json)
            \/ WriteFails("write_md", options.out_md)
            \/ WriteRaises("write_json", options.out_json)
            \/ WriteRaises("write_md", options.out_md)
  BY <1>23, <1>24, OptionPaths DEF ControlInv, ControlTypeOK, Delivering
<1>25. CASE Echo \/ EchoRaises
  <2>1. /\ pc \in Delivering /\ UNCHANGED <<files, verdict>>
        /\ (pc' \in Delivering /\ UNCHANGED endVars) \/ Fail \/ Crash
        /\ stdout' \in {stdout, Rendered("markdown"), Content("partial")}
    BY <1>25 DEF Echo, EchoRaises, Delivering
  <2>2. KeepsSettings
    BY <1>25 DEF Echo, EchoRaises, KeepsSettings
  <2>3. files' \in [Paths -> Contents] /\ stdout' \in Contents
    BY <2>1, ContentsAre DEF ControlInv, ControlTypeOK
  <2>4. \A report \in Outputs' :
          report \in Outputs \cup {Rendered("json"), Rendered("markdown"), Content("partial")}
    BY <2>1 DEF Outputs
  <2>5. QED
    BY <2>1, <2>2, <2>3, <2>4, DeliverySteps
<1>26. QED
  BY <1>1, <1>2, <1>3, <1>4, <1>5, <1>6, <1>7, <1>8, <1>9, <1>10, <1>11, <1>12, <1>13,
     <1>14, <1>15, <1>16, <1>17, <1>18, <1>19, <1>21, <1>22, <1>24, <1>25 DEF Next, Run
-----------------------------------------------------------------------------
LEMMA ControlHolds == Spec => []ControlInv
  BY InitControl, StepKeepsControl, PTL DEF Spec

\* A run that fails before its verdict, wherever and why ever it fails, leaves
\* every file and stdout as they were, and never ends green (R2, R8, R13).
THEOREM FailureNeverLeavesATrace == Spec => []FailureLeavesNoTrace
<1>1. ControlInv => FailureLeavesNoTrace
  <2> SUFFICES ASSUME ControlInv, verdict = "none"
               PROVE  /\ \A path \in Paths : files[path] = Content("old")
                      /\ stdout = Content("old")
                      /\ exit # 0
    BY DEF FailureLeavesNoTrace
  <2>1. \A report \in Outputs : report = Content("old")
    BY DEF ControlInv, OutputsShowVerdict
  <2>2. exit # 0
    BY NullAssumption DEF ControlInv, ExitIsLast, ExitFollowsVerdict
  <2>3. QED
    BY <2>1, <2>2 DEF Outputs
<1>2. QED
  BY <1>1, ControlHolds, PTL

\* No file and no printed report is ever left saying other than the exit code,
\* however the delivery goes wrong (R11, R18).
THEOREM ReportsAlwaysMatchExit == Spec => []ReportsMatchExit
<1>1. ControlInv => ReportsMatchExit
  <2> SUFFICES ASSUME ControlInv, pc = "done", NEW report \in Outputs,
                      report.format \in {"json", "markdown"}
               PROVE  /\ report.verdict = "BLOCK" => exit # 0
                      /\ exit = 1 /\ ~crashed =>
                            \/ report.verdict = "BLOCK"
                            \/ report.verdict = "WARN" /\ options.fail_on_warn
    BY DEF ReportsMatchExit, Outputs
  <2>1. report.verdict = verdict
    BY DEF ControlInv, OutputsShowVerdict, Content
  <2>2. QED
    BY <2>1 DEF ControlInv, ExitFollowsVerdict
<1>2. QED
  BY <1>1, ControlHolds, PTL

\* The gates only ever run under the settings of --policy, under settings the
\* default file held while it was looked at, or under the built-in defaults if
\* there was no default file then, whoever edits that file meanwhile (R13).
THEOREM PolicyIsInForce == Spec => []PolicyInForce
<1>1. ControlInv => PolicyInForce
  BY DEF ControlInv, PolicySettled, InForce, PolicyInForce
<1>2. QED
  BY <1>1, ControlHolds, PTL
-----------------------------------------------------------------------------
(***************************************************************************)
(* A run that ends by itself has delivered: each report is where it was    *)
(* asked for from its own statement on, and no later statement spoils it.  *)
(***************************************************************************)
JsonDelivered ==
    options.out_json \notin {Null, options.out_md} => files[options.out_json] = Rendered("json")

MdDelivered == options.out_md # Null => files[options.out_md] = Rendered("markdown")

PrintDelivered == options.out_json = Null /\ options.out_md = Null => stdout = Rendered("markdown")

DeliveredSoFar ==
    /\ pc \in {"write_md", "print", "exit"} => JsonDelivered
    /\ pc \in {"print", "exit"} => MdDelivered
    /\ pc = "exit" => PrintDelivered
    /\ exit \in {0, 1} /\ ~crashed => Delivered

LEMMA DeliveredIs == Delivered <=> JsonDelivered /\ MdDelivered /\ PrintDelivered
  BY DEF Delivered, JsonDelivered, MdDelivered, PrintDelivered

\* What was delivered stays so while the outputs and the verdict do.
LEMMA DeliveredStays ==
  ASSUME UNCHANGED <<options, files, stdout, verdict>>
  PROVE  /\ UNCHANGED <<JsonDelivered, MdDelivered, PrintDelivered>>
         /\ UNCHANGED Delivered
  BY DEF Delivered, JsonDelivered, MdDelivered, PrintDelivered, Rendered

LEMMA StepKeepsDelivered == ControlInv /\ DeliveredSoFar /\ [Next]_vars => DeliveredSoFar'
<1> SUFFICES ASSUME ControlInv, DeliveredSoFar, [Next]_vars PROVE DeliveredSoFar'
  OBVIOUS
<1> USE DEF inputVars, worldVars, settingVars, outputVars, endVars, Goto, Fail, Crash
<1>1. pc # "done" => exit \notin {0, 1}
  BY NullAssumption DEF ControlInv, ExitIsLast
<1>2. CASE \/ LoadPlan \/ ResolvePolicy \/ LoadPolicy \/ LoadPricing \/ ResolveRegion
           \/ EstimateReturns \/ ChooseDrift \/ LoadState \/ MakeReader \/ DetectReturns
           \/ Refuse \/ Escape \/ EvaluateGates
  <2>1. /\ pc # "done" /\ pc' \notin {"write_md", "print", "exit"}
        /\ UNCHANGED <<exit, crashed>> \/ Fail \/ Crash
    BY <1>2 DEF LoadPlan, ResolvePolicy, LoadPolicy, LoadPricing, ResolveRegion, EstimateReturns,
                ChooseDrift, LoadState, MakeReader, DetectReturns, Refuse, Escape, EvaluateGates,
                ReadsSomething, LooksForDefault, Inputs
  <2>2. QED
    BY <1>1, <2>1 DEF DeliveredSoFar
<1>3. CASE EstimateStep \/ DetectStep \/ AwsChanges \/ DefaultFileChanges \/ UNCHANGED vars
  <2>1. UNCHANGED <<pc, options, files, stdout, verdict, exit, crashed>>
    BY <1>3 DEF EstimateStep, DetectStep, AwsChanges, DefaultFileChanges, vars
  <2>2. QED
    BY <2>1, DeliveredStays DEF DeliveredSoFar
<1>4. /\ options.out_json \in Paths \cup {Null} /\ options.out_md \in Paths \cup {Null}
      /\ files \in [Paths -> Contents]
  BY OptionPaths DEF ControlInv, ControlTypeOK
<1>5. CASE WriteJson
  <2>1. /\ pc = "write_json" /\ pc' = "write_md" /\ UNCHANGED <<options, verdict, exit, crashed>>
        /\ files' = IF options.out_json = Null THEN files
                    ELSE [files EXCEPT ![options.out_json] = Rendered("json")]
    BY <1>5 DEF WriteJson, Write
  <2>2. JsonDelivered'
    BY <1>4, <2>1 DEF JsonDelivered, Rendered
  <2>3. QED
    BY <1>1, <2>1, <2>2 DEF DeliveredSoFar
<1>6. CASE WriteMd
  <2>1. /\ pc = "write_md" /\ pc' = "print" /\ UNCHANGED <<options, verdict, exit, crashed>>
        /\ files' = IF options.out_md = Null THEN files
                    ELSE [files EXCEPT ![options.out_md] = Rendered("markdown")]
    BY <1>6 DEF WriteMd, Write
  <2>2. JsonDelivered
    BY <2>1 DEF DeliveredSoFar
  <2>3. JsonDelivered' /\ MdDelivered'
    BY <1>4, <2>1, <2>2 DEF JsonDelivered, MdDelivered, Rendered
  <2>4. QED
    BY <1>1, <2>1, <2>3 DEF DeliveredSoFar
<1>7. CASE Echo
  <2>1. /\ pc = "print" /\ pc' = "exit" /\ UNCHANGED <<options, verdict, files, exit, crashed>>
        /\ stdout' = IF options.out_json = Null /\ options.out_md = Null
                     THEN Rendered("markdown") ELSE stdout
    BY <1>7 DEF Echo
  <2>2. JsonDelivered /\ MdDelivered
    BY <2>1 DEF DeliveredSoFar
  <2>3. JsonDelivered' /\ MdDelivered' /\ PrintDelivered'
    BY <2>1, <2>2 DEF JsonDelivered, MdDelivered, PrintDelivered, Rendered
  <2>4. QED
    BY <1>1, <2>1, <2>3 DEF DeliveredSoFar
<1>8. CASE Exit
  <2>1. pc = "exit" /\ pc' = "done" /\ UNCHANGED <<options, verdict, files, stdout>>
    BY <1>8 DEF Exit
  <2>2. Delivered
    BY <2>1, DeliveredIs DEF DeliveredSoFar
  <2>3. Delivered'
    BY <2>1, <2>2, DeliveredStays
  <2>4. QED
    BY <2>1, <2>3 DEF DeliveredSoFar
<1>9. ASSUME NEW at, NEW path, WriteFails(at, path) \/ WriteRaises(at, path) \/ EchoRaises
      PROVE  DeliveredSoFar'
  <2>1. Fail \/ Crash
    BY <1>9 DEF WriteFails, WriteRaises, EchoRaises
  <2>2. QED
    BY <2>1 DEF DeliveredSoFar
<1>10. QED
  BY <1>2, <1>3, <1>5, <1>6, <1>7, <1>8, <1>9 DEF Next, Run

\* A run that ends with the code of its verdict has delivered every report it
\* was asked for, whole and with that verdict, whichever of its outputs could
\* have failed; one path given for both holds the Markdown (R11, R18, R19).
THEOREM ReportsAreAlwaysDelivered == Spec => []ReportsDelivered
<1>1. Init => DeliveredSoFar
  BY NullAssumption DEF Init, DeliveredSoFar
<1>2. DeliveredSoFar => ReportsDelivered
  BY DEF DeliveredSoFar, ReportsDelivered
<1>3. QED
  BY <1>1, <1>2, ControlHolds, StepKeepsDelivered, PTL DEF Spec

-----------------------------------------------------------------------------
(***************************************************************************)
(* The run keeps its contract.  Up to the gates every step is a stutter of *)
(* the contract or gives up; the gates decide; each output delivers one    *)
(* report or aborts.                                                       *)
(***************************************************************************)
DecidingPlaces == Places \ (Delivering \cup {"done"})

LEMMA OwedWhileDeciding ==
  ASSUME pc \in DecidingPlaces \cup {"write_json"}
  PROVE  Owed = UNION {AskedAt("json", options.out_json), AskedAt("markdown", options.out_md),
                       AskedOnStdout}
  BY DEF Owed, DecidingPlaces, Delivering, Places

LEMMA AskedReports ==
  ASSUME options \in OptionSets
  PROVE  LET asked == UNION {AskedAt("json", options.out_json),
                             AskedAt("markdown", options.out_md), AskedOnStdout}
         IN  asked \subseteq Contract!Reports /\ asked # {}
<1>1. options.out_json \in Paths \cup {Null} /\ options.out_md \in Paths \cup {Null}
  BY OptionPaths
<1>2. /\ AskedAt("json", options.out_json) \subseteq Contract!Reports
      /\ AskedAt("markdown", options.out_md) \subseteq Contract!Reports
      /\ AskedOnStdout \subseteq Contract!Reports
  BY <1>1 DEF AskedAt, AskedOnStdout, Contract!Reports, Contract!Formats
<1>3. \/ AskedAt("json", options.out_json) # {} \/ AskedAt("markdown", options.out_md) # {}
      \/ AskedOnStdout # {}
  BY DEF AskedAt, AskedOnStdout
<1>4. QED
  BY <1>2, <1>3

LEMMA ContractInit == Init => Contract!Init
<1> SUFFICES ASSUME Init PROVE Contract!Init
  OBVIOUS
<1>1. options \in OptionSets /\ pc = "load_plan" /\ verdict = "none" /\ exit = Null /\ crashed = FALSE
  BY DEF Init
<1>2. options.fail_on_warn \in BOOLEAN /\ Phase = "deciding"
  BY <1>1, OptionPaths DEF Phase
<1>3. Owed \in (SUBSET Contract!Reports) \ {{}}
  BY <1>1, OwedWhileDeciding, AskedReports DEF DecidingPlaces, Delivering, Places
<1>4. Shown = [place \in Paths \cup {Null} |-> Contract!Old]
  BY DEF Init, Shown, Content, Contract!Old
<1>5. QED
  BY <1>1, <1>2, <1>3, <1>4 DEF Contract!Init

\* Nothing the contract speaks of changes.
LEMMA StutterSteps ==
  ASSUME UNCHANGED <<options, files, stdout, verdict, exit, crashed>>,
         UNCHANGED <<Phase, Owed>>
  PROVE  UNCHANGED Contract!vars
  BY DEF Contract!vars, Shown

LEMMA QuietDeciding ==
  ASSUME UNCHANGED <<options, files, stdout, verdict, exit, crashed>>,
         pc' = pc \/ (pc \in DecidingPlaces /\ pc' \in DecidingPlaces)
  PROVE  UNCHANGED Contract!vars
<1>1. CASE pc' = pc
  <2>1. UNCHANGED <<Phase, Owed>>
    BY <1>1 DEF Phase, Owed, AskedAt, AskedOnStdout
  <2>2. QED
    BY <2>1, StutterSteps
<1>2. CASE pc \in DecidingPlaces /\ pc' \in DecidingPlaces
  <2>1. UNCHANGED Phase
    BY <1>2 DEF Phase, DecidingPlaces
  <2>2. UNCHANGED Owed
    BY <1>2 DEF Owed, AskedAt, AskedOnStdout, DecidingPlaces, Delivering, Places
  <2>3. QED
    BY <2>1, <2>2, StutterSteps
<1>3. QED
  BY <1>1, <1>2

\* _fail or an uncaught exception before the gates.
LEMMA GiveUpSteps ==
  ASSUME ControlInv, Fail \/ Crash, pc \in DecidingPlaces,
         UNCHANGED <<options, files, stdout, verdict>>
  PROVE  Contract!GiveUp
<1>1. verdict = "none" /\ Phase = "deciding" /\ Phase' = "ended" /\ Owed' = {}
  BY DEF ControlInv, VerdictIsTimely, DecidingPlaces, Delivering, Phase, Owed, Fail, Crash
<1>2. Contract!Fails
  BY DEF Fail, Crash, Contract!Fails
<1>3. UNCHANGED <<options.fail_on_warn, verdict, Shown>>
  BY DEF Shown
<1>4. QED
  BY <1>1, <1>2, <1>3 DEF Contract!GiveUp

\* A report is delivered, and control goes on to the next statement.
LEMMA DeliverSteps ==
  ASSUME ControlInv, pc \in Delivering, pc' \in Delivering,
         UNCHANGED <<options, verdict, exit, crashed>>,
         NEW report \in Owed, Owed' = Owed \ {report},
         Shown' = [Shown EXCEPT ![report.place] = Rendered(report.format)]
  PROVE  Contract!Deliver(report)
<1>1. Phase = "delivering" /\ Phase' = "delivering"
  BY DEF ControlInv, VerdictIsTimely, Verdicts, Delivering, Phase
<1>2. Rendered(report.format) = Contract!Whole(report.format)
  BY DEF Rendered, Contract!Whole
<1>3. QED
  BY <1>1, <1>2 DEF Contract!Deliver

\* A report is not delivered, and the run ends there.
LEMMA AbortSteps ==
  ASSUME ControlInv, pc \in Delivering, Fail \/ Crash, UNCHANGED <<options, verdict>>,
         NEW report \in Owed,
         Shown' \in {Shown, [Shown EXCEPT ![report.place] = Content("partial")]}
  PROVE  Contract!Abort(report)
<1>1. Phase = "delivering" /\ Phase' = "ended" /\ Owed' = {}
  BY DEF ControlInv, VerdictIsTimely, Verdicts, Delivering, Phase, Owed, Fail, Crash
<1>2. Contract!Fails
  BY DEF Fail, Crash, Contract!Fails
<1>3. Content("partial") = Contract!Partial
  BY DEF Content, Contract!Partial
<1>4. QED
  BY <1>1, <1>2, <1>3 DEF Contract!Abort

\* What a written file, or written stdout, does to what is shown.
LEMMA ShownFile ==
  ASSUME files \in [Paths -> Contents], NEW path \in Paths, NEW content,
         files' = [files EXCEPT ![path] = content], UNCHANGED stdout
  PROVE  Shown' = [Shown EXCEPT ![path] = content]
  BY NullAssumption DEF Shown

LEMMA ShownStdout ==
  ASSUME NEW content, stdout' = content, UNCHANGED files
  PROVE  Shown' = [Shown EXCEPT ![Null] = content]
  BY DEF Shown

-----------------------------------------------------------------------------
LEMMA StepKeepsContract == ControlInv /\ [Next]_vars => [Contract!Next]_Contract!vars
<1> SUFFICES ASSUME ControlInv, [Next]_vars PROVE [Contract!Next]_Contract!vars
  OBVIOUS
<1> USE DEF inputVars, worldVars, settingVars, outputVars, endVars, Goto
<1>1. CASE \/ LoadPlan \/ ResolvePolicy \/ LoadPolicy \/ LoadPricing \/ ResolveRegion
           \/ EstimateReturns \/ ChooseDrift \/ LoadState \/ MakeReader \/ DetectReturns
           \/ Refuse \/ Escape
  <2>1. /\ pc \in DecidingPlaces
        /\ \/ pc' \in DecidingPlaces /\ UNCHANGED <<exit, crashed>>
           \/ Fail \/ Crash
        /\ UNCHANGED <<options, files, stdout, verdict>>
    BY <1>1 DEF LoadPlan, ResolvePolicy, LoadPolicy, LoadPricing, ResolveRegion, EstimateReturns,
                ChooseDrift, LoadState, MakeReader, DetectReturns, Refuse, Escape,
                ReadsSomething, LooksForDefault, Inputs, DecidingPlaces, Delivering, Places
  <2>2. QED
    BY <2>1, QuietDeciding, GiveUpSteps DEF Contract!Next
<1>2. CASE EstimateStep \/ DetectStep \/ AwsChanges \/ DefaultFileChanges \/ UNCHANGED vars
  <2>1. UNCHANGED <<pc, options, files, stdout, verdict, exit, crashed>>
    BY <1>2 DEF EstimateStep, DetectStep, AwsChanges, DefaultFileChanges, vars
  <2>2. QED
    BY <2>1, QuietDeciding
<1>3. CASE EvaluateGates
  <2>1. /\ pc = "evaluate" /\ pc' = "write_json" /\ verdict = "none"
        /\ verdict' \in Verdicts /\ verdict' # "none"
    BY <1>3, CombineIsVerdict
    DEF EvaluateGates, Verdicts, ControlInv, VerdictIsTimely, Delivering
  <2>2. UNCHANGED <<options, files, stdout, exit, crashed>>
    BY <1>3 DEF EvaluateGates
  <2>3. Phase = "deciding" /\ Phase' = "delivering"
    BY <2>1 DEF Phase
  <2>4. UNCHANGED <<Owed, Shown>>
    BY <2>1, <2>2 DEF Owed, AskedAt, AskedOnStdout, Shown
  <2>5. Contract!Decide
    BY <2>1, <2>2, <2>3, <2>4 DEF Contract!Decide, Contract!Verdicts, Verdicts
  <2>6. QED
    BY <2>5 DEF Contract!Next
<1>4. options.out_json \in Paths \cup {Null} /\ options.out_md \in Paths \cup {Null}
      /\ files \in [Paths -> Contents] /\ options.fail_on_warn \in BOOLEAN
  BY OptionPaths DEF ControlInv, ControlTypeOK
<1>5. CASE WriteJson
  <2> DEFINE report == [format |-> "json", place |-> options.out_json]
  <2>1. /\ pc = "write_json" /\ pc' = "write_md"
        /\ UNCHANGED <<options, verdict, exit, crashed, stdout>>
        /\ files' = IF options.out_json = Null THEN files
                    ELSE [files EXCEPT ![options.out_json] = Rendered("json")]
    BY <1>5 DEF WriteJson, Write
  <2>2. /\ Owed = UNION {AskedAt("json", options.out_json),
                         AskedAt("markdown", options.out_md), AskedOnStdout}
        /\ Owed' = AskedAt("markdown", options.out_md) \cup AskedOnStdout
    BY <2>1 DEF Owed, AskedAt, AskedOnStdout
  <2>3. CASE options.out_json = Null
    <3>1. UNCHANGED Owed
      BY <2>2, <2>3 DEF AskedAt
    <3>2. verdict # "none" /\ UNCHANGED Phase
      BY <2>1 DEF Phase, ControlInv, VerdictIsTimely, Verdicts, Delivering
    <3>3. QED
      BY <2>1, <2>3, <3>1, <3>2, StutterSteps
  <2>4. CASE options.out_json # Null
    <3>1. report \in Owed /\ Owed' = Owed \ {report}
      BY <2>2, <2>4 DEF AskedAt, AskedOnStdout
    <3>2. Shown' = [Shown EXCEPT ![report.place] = Rendered(report.format)]
      BY <1>4, <2>1, <2>4, ShownFile
    <3>3. Contract!Deliver(report)
      BY <2>1, <3>1, <3>2, DeliverSteps DEF Delivering
    <3>4. QED
      BY <3>1, <3>3 DEF Contract!Next
  <2>5. QED
    BY <2>3, <2>4
<1>6. CASE WriteMd
  <2> DEFINE report == [format |-> "markdown", place |-> options.out_md]
  <2>1. /\ pc = "write_md" /\ pc' = "print"
        /\ UNCHANGED <<options, verdict, exit, crashed, stdout>>
        /\ files' = IF options.out_md = Null THEN files
                    ELSE [files EXCEPT ![options.out_md] = Rendered("markdown")]
    BY <1>6 DEF WriteMd, Write
  <2>2. /\ Owed = AskedAt("markdown", options.out_md) \cup AskedOnStdout
        /\ Owed' = AskedOnStdout
    BY <2>1 DEF Owed, AskedAt, AskedOnStdout
  <2>3. CASE options.out_md = Null
    <3>1. UNCHANGED Owed
      BY <2>1, <2>2, <2>3 DEF AskedAt, AskedOnStdout
    <3>2. verdict # "none" /\ UNCHANGED Phase
      BY <2>1 DEF Phase, ControlInv, VerdictIsTimely, Verdicts, Delivering
    <3>3. QED
      BY <2>1, <2>3, <3>1, <3>2, StutterSteps
  <2>4. CASE options.out_md # Null
    <3>1. report \in Owed /\ Owed' = Owed \ {report}
      BY <2>1, <2>2, <2>4 DEF AskedAt, AskedOnStdout
    <3>2. Shown' = [Shown EXCEPT ![report.place] = Rendered(report.format)]
      BY <1>4, <2>1, <2>4, ShownFile
    <3>3. Contract!Deliver(report)
      BY <2>1, <3>1, <3>2, DeliverSteps DEF Delivering
    <3>4. QED
      BY <3>1, <3>3 DEF Contract!Next
  <2>5. QED
    BY <2>3, <2>4
<1>7. ASSUME NEW report \in Owed, pc \in Delivering,
             WriteFails(pc, report.place) \/ WriteRaises(pc, report.place), report.place \in Paths
      PROVE  Contract!Next
  <2>1. /\ Fail \/ Crash
        /\ UNCHANGED <<options, verdict, stdout>>
        /\ files' \in {files, [files EXCEPT ![report.place] = Content("partial")]}
    BY <1>7 DEF WriteFails, WriteRaises
  <2>2. Shown' \in {Shown, [Shown EXCEPT ![report.place] = Content("partial")]}
    <3>1. CASE files' = files
      BY <2>1, <3>1 DEF Shown
    <3>2. CASE files' = [files EXCEPT ![report.place] = Content("partial")]
      BY <1>4, <1>7, <2>1, <3>2, ShownFile
    <3>3. QED
      BY <2>1, <3>1, <3>2
  <2>3. Contract!Abort(report)
    BY <1>7, <2>1, <2>2, AbortSteps
  <2>4. QED
    BY <2>3 DEF Contract!Next
<1>8. CASE WriteFails("write_json", options.out_json) \/ WriteRaises("write_json", options.out_json)
  <2>1. pc = "write_json" /\ options.out_json # Null
    BY <1>8 DEF WriteFails, WriteRaises
  <2>2. [format |-> "json", place |-> options.out_json] \in Owed
    BY <2>1 DEF Owed, AskedAt
  <2>3. QED
    BY <1>4, <1>7, <1>8, <2>1, <2>2 DEF Delivering
<1>9. CASE WriteFails("write_md", options.out_md) \/ WriteRaises("write_md", options.out_md)
  <2>1. pc = "write_md" /\ options.out_md # Null
    BY <1>9 DEF WriteFails, WriteRaises
  <2>2. [format |-> "markdown", place |-> options.out_md] \in Owed
    BY <2>1 DEF Owed, AskedAt
  <2>3. QED
    BY <1>4, <1>7, <1>9, <2>1, <2>2 DEF Delivering
<1>10. CASE Echo \/ EchoRaises
  <2> DEFINE report == [format |-> "markdown", place |-> Null]
  <2>1. pc = "print" /\ UNCHANGED <<options, verdict, files>> /\ Owed = AskedOnStdout
    BY <1>10 DEF Echo, EchoRaises, Owed, AskedOnStdout
  <2>2. CASE EchoRaises
    <3>1. report \in Owed /\ (Fail \/ Crash) /\ stdout' = Content("partial")
      BY <2>1, <2>2 DEF EchoRaises, AskedOnStdout
    <3>2. Contract!Abort(report)
      BY <2>1, <3>1, ShownStdout, AbortSteps DEF Delivering
    <3>3. QED
      BY <3>1, <3>2 DEF Contract!Next
  <2>3. CASE Echo
    <3>1. pc' = "exit" /\ UNCHANGED <<exit, crashed>> /\ Owed' = {}
      BY <2>3 DEF Echo, Owed
    <3>2. CASE options.out_json = Null /\ options.out_md = Null
      <4>1. report \in Owed /\ Owed' = Owed \ {report} /\ stdout' = Rendered("markdown")
        BY <2>1, <2>3, <3>1, <3>2 DEF Echo, AskedOnStdout
      <4>2. Contract!Deliver(report)
        BY <2>1, <3>1, <4>1, ShownStdout, DeliverSteps DEF Delivering
      <4>3. QED
        BY <4>1, <4>2 DEF Contract!Next
    <3>3. CASE ~(options.out_json = Null /\ options.out_md = Null)
      <4>1. UNCHANGED Owed /\ UNCHANGED stdout
        BY <2>1, <2>3, <3>1, <3>3 DEF Echo, AskedOnStdout
      <4>2. verdict # "none" /\ UNCHANGED Phase
        BY <2>1, <3>1 DEF Phase, ControlInv, VerdictIsTimely, Verdicts, Delivering
      <4>3. QED
        BY <2>1, <3>1, <4>1, <4>2, StutterSteps
    <3>4. QED
      BY <3>2, <3>3
  <2>4. QED
    BY <1>10, <2>2, <2>3
<1>11. CASE Exit
  <2>1. /\ pc = "exit" /\ pc' = "done" /\ verdict \in Verdicts /\ verdict # "none"
        /\ UNCHANGED <<options, verdict, files, stdout, crashed>>
    BY <1>11 DEF Exit, ControlInv, VerdictIsTimely, Verdicts, Delivering
  <2>2. Phase = "delivering" /\ Phase' = "ended" /\ Owed = {} /\ Owed' = {} /\ UNCHANGED Shown
    BY <2>1 DEF Phase, Owed, Shown
  <2>3. exit' \in Contract!Codes(verdict)
    BY <1>4, <1>11, <2>1 DEF Exit, ExitCode, Contract!Codes, Verdicts
  <2>4. Contract!End
    BY <2>1, <2>2, <2>3 DEF Contract!End
  <2>5. QED
    BY <2>4 DEF Contract!Next
<1>12. QED
  BY <1>1, <1>2, <1>3, <1>5, <1>6, <1>8, <1>9, <1>10, <1>11 DEF Next, Run

\* Whatever plan, state, policy and options it is given and whatever fails, a
\* run decides once and before anything is seen, delivers what was asked for
\* where it was asked for and nothing else, and ends with a code of its verdict
\* (R11, R18, R19, A5, A6).
THEOREM EveryRunKeepsContract == Spec => KeepsContract
<1>1. Spec => []ControlInv
  BY ControlHolds
<1>2. QED
  BY <1>1, ContractInit, StepKeepsContract, PTL DEF Spec, KeepsContract, Contract!Spec
=============================================================================
