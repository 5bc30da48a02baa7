----------------------- MODULE AnalyzeFindingsProofs -----------------------
(***************************************************************************)
(* Proofs about what a run of analyze finds and reports, for every plan,   *)
(* state, policy file, command line and mix of faults, however often AWS   *)
(* and the default policy file change around it.  What the cost and drift  *)
(* loops establish is taken from their own proofs.                         *)
(***************************************************************************)
EXTENDS AnalyzeProofs, PolicyGatesProofs

CostLoop  == INSTANCE CostEstimatorProofs
DriftLoop == INSTANCE DriftDetectorProofs

-----------------------------------------------------------------------------
(***************************************************************************)
(* CostLoop and DriftLoop are Cost and Drift with their proofs: each of    *)
(* their operators is what it is there.                                    *)
(***************************************************************************)
LEMMA CostLoopAssumptions ==
  CostLoop!PlansAssumption /\ CostLoop!RatesAssumption /\ CostLoop!MoneyAssumption
  BY CostAssumptions
  DEF Cost!Changes, CostLoop!Changes, Cost!Attributes, CostLoop!Attributes,
      Cost!IngressRules, CostLoop!IngressRules,
      Cost!PlansAssumption, Cost!RatesAssumption, Cost!MoneyAssumption,
      CostLoop!PlansAssumption, CostLoop!RatesAssumption, CostLoop!MoneyAssumption

LEMMA SameClasses ==
  /\ \A c : Cost!ClassOf(c) = ClassOf(c) /\ CostLoop!ClassOf(c) = ClassOf(c)
  /\ \A p : Cost!Classified(p) = Classified(p) /\ CostLoop!Classified(p) = Classified(p)
<1>1. \A c : Cost!ClassOf(c) = ClassOf(c) /\ CostLoop!ClassOf(c) = ClassOf(c)
  BY DEF Cost!ClassOf, CostLoop!ClassOf, ClassOf,
         Cost!ClassifyActions, CostLoop!ClassifyActions, ClassifyActions,
         Cost!Excluded, CostLoop!Excluded, Excluded,
         Cost!Unrecognized, CostLoop!Unrecognized, Unrecognized
<1>2. QED
  BY <1>1 DEF Cost!Classified, CostLoop!Classified, Classified,
              Cost!ActionClass, CostLoop!ActionClass, ActionClass

LEMMA SameContext ==
  /\ \A n : Cost!Magnitude(n) = CostLoop!Magnitude(n)
  /\ \A n : Cost!ContextRound(n) = CostLoop!ContextRound(n)
  /\ \A n : Cost!Overflows(n) <=> CostLoop!Overflows(n)
<1>1. \A n : Cost!Magnitude(n) = CostLoop!Magnitude(n)
  BY DEF Cost!Magnitude, CostLoop!Magnitude
<1>2. Cost!Unit = CostLoop!Unit
  BY DEF Cost!Unit, CostLoop!Unit
<1>3. \A n : Cost!ContextRound(n) = CostLoop!ContextRound(n)
  BY <1>1, <1>2 DEF Cost!ContextRound, CostLoop!ContextRound
<1>4. \A n : Cost!Overflows(n) <=> CostLoop!Overflows(n)
  BY <1>1 DEF Cost!Overflows, CostLoop!Overflows, Cost!MaxCents, CostLoop!MaxCents
<1>5. QED
  BY <1>1, <1>3, <1>4

LEMMA SameQuotes ==
  /\ \A p, q : /\ Cost!Times(p, q) = CostLoop!Times(p, q)
               /\ Cost!Plus(p, q) = CostLoop!Plus(p, q)
               /\ Cost!Minus(p, q) = CostLoop!Minus(p, q)
  /\ \A p : Cost!Negated(p) = CostLoop!Negated(p)
  /\ \A n : Cost!Priced(n) = CostLoop!Priced(n)
  /\ \A r : Cost!Faulty(r) = CostLoop!Faulty(r)
  /\ \A v, d : Cost!OrDefault(v, d) = CostLoop!OrDefault(v, d)
  BY SameContext
  DEF Cost!Times, CostLoop!Times, Cost!Plus, CostLoop!Plus, Cost!Minus, CostLoop!Minus,
      Cost!Combined, CostLoop!Combined, Cost!Quote, CostLoop!Quote,
      Cost!Negated, CostLoop!Negated, Cost!Priced, CostLoop!Priced,
      Cost!Faulty, CostLoop!Faulty, Cost!NoFault, CostLoop!NoFault,
      Cost!OrDefault, CostLoop!OrDefault, Cost!Absent, CostLoop!Absent

LEMMA SamePrices ==
  /\ \A c : Cost!FaultOf(c) = CostLoop!FaultOf(c)
  /\ \A c : Cost!LineCents(c) = CostLoop!LineCents(c)
<1>1. \A s, k : Cost!RateOf(s, k) = CostLoop!RateOf(s, k)
  BY SameQuotes DEF Cost!RateOf, CostLoop!RateOf, Cost!Absent, CostLoop!Absent,
                    Cost!Unknown, CostLoop!Unknown
<1>2. \A r : Cost!PerMonth(r) = CostLoop!PerMonth(r)
  BY SameQuotes DEF Cost!PerMonth, CostLoop!PerMonth
<1>3. \A r, a : Cost!PerGB(r, a) = CostLoop!PerGB(r, a)
  BY <1>1, SameQuotes DEF Cost!PerGB, CostLoop!PerGB, Cost!GigaBytes, CostLoop!GigaBytes
<1>4. \A t, a : Cost!MonthlyCost(t, a) = CostLoop!MonthlyCost(t, a)
  BY <1>1, <1>2, <1>3, SameQuotes DEF Cost!MonthlyCost, CostLoop!MonthlyCost
<1>5. \A c : Cost!Delta(c) = CostLoop!Delta(c)
  BY <1>4, SameClasses, SameQuotes DEF Cost!Delta, CostLoop!Delta
<1>6. \A c : Cost!FaultOf(c) = CostLoop!FaultOf(c)
  BY <1>5 DEF Cost!FaultOf, CostLoop!FaultOf, Cost!PricedTypes, CostLoop!PricedTypes
<1>7. \A c : Cost!LineCents(c) = CostLoop!LineCents(c)
  BY <1>5, SameContext
  DEF Cost!LineCents, CostLoop!LineCents, Cost!RoundHalfUp, CostLoop!RoundHalfUp
<1>8. QED
  BY <1>6, <1>7

LEMMA SameSums ==
  /\ Cost!PricedPositions = CostLoop!PricedPositions
  /\ Cost!SumsRepresentable <=> CostLoop!SumsRepresentable
  /\ ExactTotal = CostLoop!SumOver(LAMBDA i : CostLoop!LineCents(plan[i]),
                                   CostLoop!PricedPositions)
<1>1. Cost!PricedPositions = CostLoop!PricedPositions
  BY SameClasses, SamePrices DEF Cost!PricedPositions, CostLoop!PricedPositions,
                                 Cost!NoFault, CostLoop!NoFault
<1>2. \A f : Cost!SumFunction(f) = CostLoop!SumFunction(f)
  BY DEF Cost!SumFunctionOnSet, CostLoop!SumFunctionOnSet,
         Cost!SumFunction, CostLoop!SumFunction,
         Cost!FoldFunction, CostLoop!FoldFunction,
         Cost!FoldFunctionOnSet, CostLoop!FoldFunctionOnSet,
         Cost!MapThenFoldSet, CostLoop!MapThenFoldSet
<1>3. \A c : Cost!Magnitude(Cost!LineCents(c)) = CostLoop!Magnitude(CostLoop!LineCents(c))
  BY SamePrices, SameContext
<1>4. Cost!SumsRepresentable <=> CostLoop!SumsRepresentable
  BY <1>1, <1>2, <1>3 DEF Cost!SumsRepresentable, CostLoop!SumsRepresentable,
                          Cost!SumOver, CostLoop!SumOver, Cost!MaxCents, CostLoop!MaxCents
<1>5. ExactTotal = CostLoop!SumOver(LAMBDA i : CostLoop!LineCents(plan[i]),
                                    CostLoop!PricedPositions)
  BY <1>1, <1>2, SamePrices DEF ExactTotal, Cost!SumOver, CostLoop!SumOver
<1>6. QED
  BY <1>1, <1>4, <1>5

LEMMA SameCostStep ==
  /\ Cost!Step <=> CostLoop!Step
  /\ Cost!LoopInit <=> CostLoop!LoopInit
  /\ Cost!LoopTypeOK <=> CostLoop!LoopTypeOK
<1>1. Cost!Step <=> CostLoop!Step
  BY SameClasses, SamePrices, SameContext
  DEF Cost!Step, CostLoop!Step, Cost!SkipExcluded, CostLoop!SkipExcluded,
      Cost!RecordUnpriced, CostLoop!RecordUnpriced, Cost!Price, CostLoop!Price,
      Cost!RaiseOnLine, CostLoop!RaiseOnLine, Cost!Report, CostLoop!Report,
      Cost!AtEnd, CostLoop!AtEnd, Cost!Visiting, CostLoop!Visiting,
      Cost!Excluded, CostLoop!Excluded, Cost!ActionClass, CostLoop!ActionClass,
      Cost!NoFault, CostLoop!NoFault
<1>2. QED
  BY <1>1 DEF Cost!LoopInit, CostLoop!LoopInit, Cost!LoopTypeOK, CostLoop!LoopTypeOK,
              Cost!Reasons, CostLoop!Reasons

LEMMA SameObjects ==
  /\ Drift!Supported = DriftLoop!Supported
  /\ \A type : Drift!AttributesOf(type) = DriftLoop!AttributesOf(type)
  /\ Drift!Attributes = DriftLoop!Attributes
  /\ Drift!Resources = DriftLoop!Resources
  /\ \A type : Drift!Live(type) = DriftLoop!Live(type)
  /\ Drift!LiveObjects = DriftLoop!LiveObjects
  /\ \A object : Drift!Visible(object) <=> DriftLoop!Visible(object)
  /\ \A r, live, a : Drift!Differs(r, live, a) <=> DriftLoop!Differs(r, live, a)
<1>1. /\ Drift!Supported = DriftLoop!Supported
      /\ \A type : Drift!AttributesOf(type) = DriftLoop!AttributesOf(type)
  BY DEF Drift!Supported, DriftLoop!Supported, Drift!Compared, DriftLoop!Compared,
         Drift!AttributesOf, DriftLoop!AttributesOf
<1>2. Drift!Attributes = DriftLoop!Attributes /\ Drift!Resources = DriftLoop!Resources
  BY <1>1 DEF Drift!Attributes, DriftLoop!Attributes, Drift!Resources, DriftLoop!Resources
<1>3. \A type : Drift!Live(type) = DriftLoop!Live(type)
  BY <1>1 DEF Drift!Live, DriftLoop!Live, Drift!Gone, DriftLoop!Gone
<1>4. Drift!LiveObjects = DriftLoop!LiveObjects
  BY <1>1, <1>3 DEF Drift!LiveObjects, DriftLoop!LiveObjects
<1>5. /\ \A object : Drift!Visible(object) <=> DriftLoop!Visible(object)
      /\ \A r, live, a : Drift!Differs(r, live, a) <=> DriftLoop!Differs(r, live, a)
  BY DEF Drift!Visible, DriftLoop!Visible, Drift!Differs, DriftLoop!Differs,
         Drift!StateValue, DriftLoop!StateValue
<1>6. QED
  BY <1>1, <1>2, <1>3, <1>4, <1>5

LEMMA DriftLoopAssumptions ==
  /\ DriftLoop!NamesAssumption /\ DriftLoop!TypesAssumption
  /\ DriftLoop!StatesAssumption /\ DriftLoop!EditsAssumption
  BY DriftAssumptions, SameObjects
  DEF Drift!NamesAssumption, Drift!TypesAssumption, Drift!StatesAssumption,
      Drift!EditsAssumption, DriftLoop!NamesAssumption, DriftLoop!TypesAssumption,
      DriftLoop!StatesAssumption, DriftLoop!EditsAssumption

LEMMA SameDriftStep ==
  /\ Drift!Init <=> DriftLoop!Init
  /\ Drift!TypeOK <=> DriftLoop!TypeOK
  /\ Drift!Detect <=> DriftLoop!Detect
  /\ \A id : Drift!Edit(id) <=> DriftLoop!Edit(id)
  /\ Drift!Comparisons = DriftLoop!Comparisons
<1>1. /\ Drift!Init <=> DriftLoop!Init
      /\ Drift!TypeOK <=> DriftLoop!TypeOK
  BY SameObjects DEF Drift!Init, DriftLoop!Init, Drift!TypeOK, DriftLoop!TypeOK
<1>2. \A i, live : Drift!Compare(i, live) = DriftLoop!Compare(i, live)
  BY SameObjects DEF Drift!Compare, DriftLoop!Compare, Drift!Compared, DriftLoop!Compared,
                     Drift!Changed, DriftLoop!Changed
<1>3. ASSUME NEW i
      PROVE  /\ \A types : Drift!Visiting(i, types) <=> DriftLoop!Visiting(i, types)
             /\ Drift!Object(i) = DriftLoop!Object(i)
             /\ Drift!Sight(i) <=> DriftLoop!Sight(i)
             /\ Drift!Missing(i) = DriftLoop!Missing(i)
  BY DEF Drift!Visiting, DriftLoop!Visiting, Drift!Object, DriftLoop!Object,
         Drift!Sight, DriftLoop!Sight, Drift!Missing, DriftLoop!Missing
<1>4. ASSUME NEW i
      PROVE  /\ Drift!SkipUnsupported(i) <=> DriftLoop!SkipUnsupported(i)
             /\ Drift!NoUsableId(i) <=> DriftLoop!NoUsableId(i)
             /\ Drift!CallFails(i) <=> DriftLoop!CallFails(i)
             /\ Drift!ReadNothing(i) <=> DriftLoop!ReadNothing(i)
             /\ Drift!ReadWhole(i) <=> DriftLoop!ReadWhole(i)
             /\ Drift!ReadVersioning(i) <=> DriftLoop!ReadVersioning(i)
             /\ Drift!ReadTagging(i) <=> DriftLoop!ReadTagging(i)
  BY <1>2, <1>3, SameObjects
  DEF Drift!SkipUnsupported, DriftLoop!SkipUnsupported, Drift!NoUsableId, DriftLoop!NoUsableId,
      Drift!CallFails, DriftLoop!CallFails, Drift!ReadNothing, DriftLoop!ReadNothing,
      Drift!ReadWhole, DriftLoop!ReadWhole, Drift!ReadVersioning, DriftLoop!ReadVersioning,
      Drift!ReadTagging, DriftLoop!ReadTagging
<1>5. Drift!Detect <=> DriftLoop!Detect
  BY <1>4 DEF Drift!Detect, DriftLoop!Detect
<1>6. \A id : Drift!Edit(id) <=> DriftLoop!Edit(id)
  BY SameObjects DEF Drift!Edit, DriftLoop!Edit, Drift!BecomesLegally, DriftLoop!BecomesLegally
<1>7. Drift!Comparisons = DriftLoop!Comparisons
  BY DEF Drift!Comparisons, DriftLoop!Comparisons, Drift!Passed, DriftLoop!Passed
<1>8. QED
  BY <1>1, <1>5, <1>6, <1>7

-----------------------------------------------------------------------------
(***************************************************************************)
(* What is known of a run at each of its statements.  A loop's own         *)
(* invariant holds from the statement that enters it on; before that its   *)
(* variables are as they were set up, and after it as it left them.        *)
(***************************************************************************)
BeforePricing == {"load_plan", "resolve_policy", "load_policy", "load_pricing", "resolve_region"}

BeforeDetection == BeforePricing \cup {"estimate", "drift", "load_state", "make_reader"}

\* Entered with everything both loops report.
Reporting == Delivering \cup {"evaluate"}

AfterPricing == Reporting \cup {"drift", "load_state", "make_reader", "detect"}

InputTypes ==
  /\ plan \in Plans
  /\ region \in DOMAIN Rates \cup {Null}
  /\ providers \in Providers
  /\ flag_file \in PolicyFiles
  /\ default_file \in PolicyFiles \cup {Null}
  /\ defaults_seen \subseteq PolicyFiles \cup {Null}
  /\ policy_path \in {"flag", "default", "builtin", Null}
  /\ policy \in PolicyFiles \cup {DefaultPolicy, Null}
  /\ pc \in Settled \/ verdict # "none" => policy # Null
  /\ crashed \in BOOLEAN
  /\ exit \in {0, 1, 2, Null}

CostKnown ==
  /\ CostLoop!LoopInit \/ CostLoop!LoopInv
  /\ pc \in BeforePricing => CostLoop!LoopInit
  /\ pc = "estimate" => CostLoop!LoopInv
  /\ pc \in AfterPricing \/ verdict # "none" => CostLoop!LoopInv /\ status = "reported"

\* Nothing has been looked at.
Untouched == here = 1 /\ drifts = <<>> /\ skipped = {} /\ errors = {}

DriftKnown ==
  /\ DriftLoop!DriftInv
  /\ ran \in BOOLEAN
  /\ ran => here = Len(state) + 1
  /\ ~ran /\ (pc \in BeforeDetection \cup Reporting \/ verdict # "none") => Untouched
  /\ pc \in BeforeDetection \cup {"detect"} => ~ran
  /\ pc \in {"load_state", "make_reader", "detect"} => WantsDrift
  /\ pc \in Reporting \/ verdict # "none" => (ran <=> WantsDrift)

Decided == verdict # "none" => verdict = Combine(Evaluate(policy, Reports))

\* Why a run with a verdict has ended.
Ended ==
  /\ pc = "write_json" => \A path \in Paths : files[path].format \notin {"json", "markdown"}
  /\ pc = "write_md" => \A path \in Paths : files[path].format # "markdown"
  /\ pc = "done" /\ verdict # "none" =>
        \/ exit = ExitCode(verdict, ran /\ errors # {}, options.fail_on_warn)
        \/ exit = 2 /\ ~Delivered
        \/ exit = 1 /\ crashed

RunInv == ControlInv /\ InputTypes /\ CostKnown /\ DriftKnown /\ Decided /\ Ended

-----------------------------------------------------------------------------
\* What the proofs of the loops say about a step of theirs.
Entered == plan \in Plans /\ region \in DOMAIN Rates /\ CostLoop!LoopInit

LEMMA CostBegins == Entered => CostLoop!LoopInv
  BY CostLoopAssumptions, CostLoop!LoopIsInductive DEF Entered, CostLoop!Begun

LEMMA CostBeginsNext == Entered' => CostLoop!LoopInv'
  BY CostBegins, PTL

LEMMA CostSteps == CostLoop!LoopInv /\ Cost!Step => CostLoop!LoopInv'
  BY CostLoopAssumptions, CostLoop!LoopIsInductive, SameCostStep DEF CostLoop!Next

LEMMA CostStays ==
  ASSUME UNCHANGED <<plan, region, costVars>>
  PROVE  /\ CostLoop!LoopInit => CostLoop!LoopInit'
         /\ CostLoop!LoopInv => CostLoop!LoopInv'
<1>1. UNCHANGED CostLoop!vars
  BY DEF costVars, CostLoop!vars
<1>2. CostLoop!LoopInv => CostLoop!LoopInv'
  BY <1>1, CostLoopAssumptions, CostLoop!LoopIsInductive
<1>3. QED
  BY <1>2 DEF costVars, CostLoop!LoopInit

LEMMA DriftBegins == Drift!Init => DriftLoop!DriftInv
  BY DriftLoopAssumptions, DriftLoop!InvInit, SameDriftStep

LEMMA DriftSteps ==
  DriftLoop!DriftInv /\ (Drift!Detect \/ \E id \in Ids : Drift!Edit(id)) => DriftLoop!DriftInv'
  BY DriftLoopAssumptions, DriftLoop!InvStep, SameDriftStep DEF DriftLoop!Next

LEMMA DriftStays ==
  ASSUME UNCHANGED <<state, aws, edits, driftVars>>, DriftLoop!DriftInv
  PROVE  DriftLoop!DriftInv'
<1>1. UNCHANGED DriftLoop!vars
  BY DEF driftVars, DriftLoop!vars
<1>2. QED
  BY <1>1, DriftLoopAssumptions, DriftLoop!InvStep

-----------------------------------------------------------------------------
LEMMA InitRun == Init => RunInv
<1> SUFFICES ASSUME Init PROVE RunInv
  OBVIOUS
<1>1. ControlInv
  BY InitControl
<1>2. InputTypes /\ Decided /\ Ended
  BY DEF Init, InputTypes, Decided, Ended, Settled, Delivering
<1>3. CostKnown
  BY SameCostStep DEF Init, CostKnown, AfterPricing, Reporting, Delivering
<1>4. DriftKnown
  <2>1. DriftLoop!DriftInv
    BY DriftBegins DEF Init
  <2>2. Untouched
    BY DEF Init, Drift!Init, Untouched
  <2>3. QED
    BY <2>1, <2>2 DEF Init, DriftKnown, Reporting, Delivering
<1>5. QED
  BY <1>1, <1>2, <1>3, <1>4 DEF RunInv

\* Steps of the run that only move it on, or end it.
Moves ==
  \/ LoadPlan \/ LoadPricing \/ EstimateReturns \/ ChooseDrift \/ LoadState \/ MakeReader
  \/ DetectReturns \/ Refuse \/ Escape

\* Steps that write a report, or end it there.
Delivers ==
  \/ WriteJson \/ WriteMd \/ Echo \/ EchoRaises \/ Exit
  \/ WriteFails("write_json", options.out_json) \/ WriteFails("write_md", options.out_md)
  \/ WriteRaises("write_json", options.out_json) \/ WriteRaises("write_md", options.out_md)

LEMMA StepsAre ==
  ASSUME [Next]_vars
  PROVE  \/ Moves \/ Delivers \/ ResolvePolicy \/ LoadPolicy \/ ResolveRegion \/ EstimateStep
         \/ DetectStep \/ EvaluateGates \/ AwsChanges \/ DefaultFileChanges \/ UNCHANGED vars
  BY DEF Next, Run, Moves, Delivers

LEMMA MovesLeave ==
  ASSUME Moves
  PROVE  /\ UNCHANGED <<costVars, driftVars, inputVars, worldVars, settingVars, outputVars,
                        defaults_seen, verdict>>
         /\ pc \notin Delivering \cup {"done"}
         /\ pc' \in Places \ (Delivering \cup {"load_plan"})
         /\ pc' # "done" => UNCHANGED endVars
         /\ pc' = "done" => Fail \/ Crash
  BY DEF Moves, LoadPlan, LoadPricing, EstimateReturns, ChooseDrift, LoadState, MakeReader,
         DetectReturns, Refuse, Escape, ReadsSomething, LooksForDefault, Inputs, Goto, endVars, Fail, Crash,
         Delivering, Places

LEMMA DeliversLeave ==
  ASSUME Delivers
  PROVE  /\ UNCHANGED <<costVars, driftVars, inputVars, worldVars, settingVars,
                        defaults_seen, ran, verdict>>
         /\ pc \in Delivering
         /\ pc' \in (Delivering \ {"write_json"}) \cup {"done"}
         /\ pc' # "done" => UNCHANGED endVars
         /\ pc' = "done" =>
              \/ Fail \/ Crash
              \/ /\ exit' = ExitCode(verdict, ran /\ errors # {}, options.fail_on_warn)
                 /\ crashed' = crashed
  BY DEF Delivers, WriteJson, WriteMd, Write, Echo, EchoRaises, Exit, WriteFails, WriteRaises,
         Goto, endVars, outputVars, Fail, Crash, Delivering

-----------------------------------------------------------------------------
LEMMA InputTypesStay ==
  ASSUME InputTypes,
         UNCHANGED <<plan, providers, flag_file, default_file, defaults_seen, policy_path, policy>>,
         region' \in DOMAIN Rates \cup {Null}, crashed' \in BOOLEAN, exit' \in {0, 1, 2, Null},
         pc' \in Settled \/ verdict' # "none" => pc \in Settled \/ verdict # "none"
  PROVE  InputTypes'
  BY DEF InputTypes

LEMMA InputTypesStep == ControlInv /\ InputTypes /\ [Next]_vars => InputTypes'
<1> SUFFICES ASSUME ControlInv, InputTypes, [Next]_vars PROVE InputTypes'
  OBVIOUS
<1> USE DEF inputVars, worldVars, settingVars, outputVars, endVars
<1>1. /\ crashed \in BOOLEAN /\ exit \in {0, 1, 2, Null}
      /\ region \in DOMAIN Rates \cup {Null}
  BY DEF InputTypes
<1>2. CASE Moves
  <2>1. pc' \in Settled => pc \in Settled
    BY <1>2 DEF Moves, LoadPlan, LoadPricing, EstimateReturns, ChooseDrift, LoadState, MakeReader,
                DetectReturns, Refuse, Escape, Goto, Fail, Crash, Settled, Delivering
  <2>2. QED
    BY <1>1, <1>2, <2>1, MovesLeave, InputTypesStay DEF Fail, Crash
<1>3. CASE Delivers
  <2>1. \A v, e, f : ExitCode(v, e, f) \in {0, 1, 2}
    BY DEF ExitCode
  <2>2. pc \in Settled
    BY <1>3, DeliversLeave DEF Settled
  <2>3. QED
    BY <1>1, <1>3, <2>1, <2>2, DeliversLeave, InputTypesStay DEF Fail, Crash
<1>4. CASE ResolvePolicy
  BY <1>4 DEF ResolvePolicy, Goto, InputTypes, Settled, Delivering
<1>5. CASE LoadPolicy
  <2>1. CASE policy_path = "default" /\ default_file = Null
    BY <1>1, <1>5, <2>1, InputTypesStay DEF LoadPolicy, Fail, Settled, Delivering
  <2>2. CASE ~(policy_path = "default" /\ default_file = Null)
    <3>1. /\ pc = "load_policy" /\ UNCHANGED <<exit, crashed>>
          /\ policy' = CASE policy_path = "flag"    -> flag_file
                          [] policy_path = "default" -> default_file
                          [] policy_path = "builtin" -> DefaultPolicy
      BY <1>5, <2>2 DEF LoadPolicy, Goto
    <3>2. policy_path \in {"flag", "default", "builtin"}
      BY <3>1 DEF ControlInv, PolicyResolved
    <3>3. policy' \in PolicyFiles \cup {DefaultPolicy}
      <4>1. policy_path = "flag" => policy' = flag_file
        BY <3>1
      <4>2. policy_path = "default" => policy' = default_file
        BY <3>1
      <4>3. policy_path = "builtin" => policy' = DefaultPolicy
        BY <3>1
      <4>4. QED
        BY <2>2, <3>2, <4>1, <4>2, <4>3 DEF InputTypes
    <3>4. policy' # Null
      BY <3>3, PoliciesAssumption, NullAssumption
    <3>5. QED
      BY <1>5, <3>1, <3>3, <3>4 DEF LoadPolicy, InputTypes
  <2>3. QED
    BY <2>1, <2>2
<1>6. CASE ResolveRegion
  BY <1>1, <1>6, InputTypesStay DEF ResolveRegion, Goto, Fail, Settled, Delivering
<1>7. CASE EstimateStep
  BY <1>1, <1>7, InputTypesStay DEF EstimateStep
<1>8. CASE DetectStep
  BY <1>1, <1>8, InputTypesStay DEF DetectStep
<1>9. CASE EvaluateGates
  BY <1>1, <1>9, InputTypesStay DEF EvaluateGates, Goto, Settled
<1>10. CASE AwsChanges
  BY <1>1, <1>10, InputTypesStay DEF AwsChanges
<1>11. CASE DefaultFileChanges
  BY <1>11 DEF DefaultFileChanges, InputTypes
<1>12. CASE UNCHANGED vars
  BY <1>1, <1>12, InputTypesStay DEF vars
<1>13. QED
  BY <1>2, <1>3, <1>4, <1>5, <1>6, <1>7, <1>8, <1>9, <1>10, <1>11, <1>12, StepsAre

-----------------------------------------------------------------------------
LEMMA CostKnownStays ==
  ASSUME CostKnown, UNCHANGED <<plan, region, costVars>>,
         pc' \in BeforePricing => pc \in BeforePricing,
         pc' = "estimate" => pc = "estimate",
         pc' \in AfterPricing \/ verdict' # "none" => pc \in AfterPricing \/ verdict # "none"
  PROVE  CostKnown'
<1>1. /\ CostLoop!LoopInit => CostLoop!LoopInit'
      /\ CostLoop!LoopInv => CostLoop!LoopInv'
      /\ UNCHANGED status
  BY CostStays DEF costVars
<1>2. QED
  BY <1>1 DEF CostKnown

LEMMA CostKnownStep == InputTypes /\ CostKnown /\ [Next]_vars => CostKnown'
<1> SUFFICES ASSUME InputTypes, CostKnown, [Next]_vars PROVE CostKnown'
  OBVIOUS
<1> USE DEF inputVars, worldVars, settingVars, outputVars
<1>1. CASE Moves
  <2>1. /\ pc' \in BeforePricing => pc \in BeforePricing
        /\ pc' = "estimate" => pc = "estimate"
    BY <1>1 DEF Moves, LoadPlan, LoadPricing, EstimateReturns, ChooseDrift, LoadState, MakeReader,
                DetectReturns, Refuse, Escape, Goto, Fail, Crash, BeforePricing
  <2>2. CASE EstimateReturns
    <3>1. CostLoop!LoopInv /\ UNCHANGED <<plan, region, costVars>> /\ UNCHANGED verdict
      BY <2>2 DEF EstimateReturns, CostKnown
    <3>2. CostLoop!LoopInv' /\ UNCHANGED status
      BY <3>1, CostStays DEF costVars
    <3>3. CASE status = "reported"
      BY <2>2, <3>2, <3>3 DEF EstimateReturns, Goto, CostKnown, BeforePricing
    <3>4. CASE status # "reported"
      <4>1. pc' = "done"
        BY <2>2, <3>4 DEF EstimateReturns, Crash
      <4>2. QED
        BY <3>1, <3>2, <3>4, <4>1 DEF CostKnown, BeforePricing, AfterPricing, Reporting, Delivering
    <3>5. QED
      BY <3>3, <3>4
  <2>3. CASE ~EstimateReturns
    <3>1. pc' \in AfterPricing => pc \in AfterPricing
      BY <1>1, <2>3
      DEF Moves, LoadPlan, LoadPricing, ChooseDrift, LoadState, MakeReader, DetectReturns,
          Refuse, Escape, Goto, Fail, Crash, AfterPricing, Reporting, Delivering
    <3>2. QED
      BY <1>1, <2>1, <3>1, MovesLeave, CostKnownStays
  <2>4. QED
    BY <2>2, <2>3
<1>2. CASE Delivers
  BY <1>2, DeliversLeave, CostKnownStays DEF BeforePricing, AfterPricing, Reporting, Delivering
<1>3. CASE ResolvePolicy
  BY <1>3, CostKnownStays
  DEF ResolvePolicy, Goto, BeforePricing, AfterPricing, Reporting, Delivering
<1>4. CASE LoadPolicy
  BY <1>4, CostKnownStays
  DEF LoadPolicy, Goto, Fail, BeforePricing, AfterPricing, Reporting, Delivering
<1>5. CASE ResolveRegion
  <2>1. CostLoop!LoopInit /\ UNCHANGED <<plan, costVars, verdict>>
    BY <1>5 DEF ResolveRegion, CostKnown, BeforePricing
  <2>2. CostLoop!LoopInit'
    BY <2>1 DEF CostLoop!LoopInit, costVars
  <2>3. CASE RequestedRegion \in DOMAIN Rates
    <3>1. pc' = "estimate" /\ region' \in DOMAIN Rates /\ plan' \in Plans
      BY <1>5, <2>1, <2>3 DEF ResolveRegion, Goto, InputTypes
    <3>2. CostLoop!LoopInv'
      BY <2>2, <3>1, CostBeginsNext DEF Entered
    <3>3. verdict # "none" => status = "reported"
      BY DEF CostKnown
    <3>4. QED
      BY <2>1, <3>1, <3>2, <3>3
      DEF CostKnown, BeforePricing, AfterPricing, Reporting, Delivering, costVars
  <2>4. CASE RequestedRegion \notin DOMAIN Rates
    BY <1>5, <2>4, CostKnownStays
    DEF ResolveRegion, Fail, BeforePricing, AfterPricing, Reporting, Delivering
  <2>5. QED
    BY <2>3, <2>4
<1>6. CASE EstimateStep
  <2>1. /\ pc = "estimate" /\ UNCHANGED <<pc, verdict>>
        /\ CostLoop!LoopInv /\ Cost!Step
    BY <1>6 DEF EstimateStep, CostKnown
  <2>2. status = "running"
    BY <2>1 DEF Cost!Step, Cost!SkipExcluded, Cost!RecordUnpriced, Cost!Price,
                Cost!RaiseOnLine, Cost!Report, Cost!AtEnd, Cost!Visiting
  <2>3. verdict = "none"
    BY <2>2 DEF CostKnown
  <2>4. CostLoop!LoopInv'
    BY <2>1, CostSteps
  <2>5. QED
    BY <2>1, <2>3, <2>4 DEF CostKnown, BeforePricing, AfterPricing, Reporting, Delivering
<1>7. CASE DetectStep \/ AwsChanges \/ DefaultFileChanges \/ UNCHANGED vars
  BY <1>7, CostKnownStays DEF DetectStep, AwsChanges, DefaultFileChanges, vars
<1>8. CASE EvaluateGates
  BY <1>8, CostKnownStays DEF EvaluateGates, Goto, BeforePricing, AfterPricing, Reporting
<1>9. QED
  BY <1>1, <1>2, <1>3, <1>4, <1>5, <1>6, <1>7, <1>8, StepsAre

-----------------------------------------------------------------------------
LEMMA DriftKnownStays ==
  ASSUME DriftKnown, UNCHANGED <<state, aws, edits, driftVars, ran, options>>,
         pc' \in BeforeDetection => pc \in BeforeDetection,
         pc' = "detect" => pc \in {"make_reader", "detect"},
         pc' \in {"load_state", "make_reader", "detect"} => WantsDrift,
         pc' \in Reporting \/ verdict' # "none" =>
            \/ pc \in Reporting \/ verdict # "none"
            \/ pc \in BeforeDetection /\ ~WantsDrift
  PROVE  DriftKnown'
<1>1. DriftLoop!DriftInv'
  BY DriftStays DEF DriftKnown
<1>2. /\ Untouched => Untouched'
      /\ UNCHANGED <<here, state>> /\ UNCHANGED WantsDrift
  BY DEF Untouched, WantsDrift, driftVars
<1>3. QED
  BY <1>1, <1>2 DEF DriftKnown, BeforeDetection

LEMMA DriftKnownStep == ControlInv /\ DriftKnown /\ [Next]_vars => DriftKnown'
<1> SUFFICES ASSUME ControlInv, DriftKnown, [Next]_vars PROVE DriftKnown'
  OBVIOUS
<1> USE DEF inputVars, worldVars, settingVars, outputVars
<1>1. CASE DetectReturns
  <2>1. /\ pc = "detect" /\ pc' = "evaluate" /\ here = Len(state) + 1 /\ ran'
        /\ UNCHANGED <<state, aws, edits, driftVars, options, verdict>>
    BY <1>1 DEF DetectReturns, Goto
  <2>2. DriftLoop!DriftInv'
    BY <2>1, DriftStays DEF DriftKnown
  <2>3. WantsDrift /\ WantsDrift'
    BY <2>1 DEF DriftKnown, WantsDrift
  <2>4. ran' = TRUE /\ here' = Len(state') + 1
    BY <1>1, <2>1 DEF DetectReturns, driftVars
  <2>5. QED
    BY <2>1, <2>2, <2>3, <2>4 DEF DriftKnown, BeforeDetection, BeforePricing
<1>2. CASE Moves /\ ~DetectReturns
  <2>1. UNCHANGED ran
    BY <1>2 DEF Moves, LoadPlan, LoadPricing, EstimateReturns, ChooseDrift, LoadState,
                MakeReader, Refuse, Escape
  <2>2. /\ pc' \in BeforeDetection => pc \in BeforeDetection
        /\ pc' = "detect" => pc \in {"make_reader", "detect"}
        /\ pc' \in {"load_state", "make_reader", "detect"} =>
              (pc = "drift" /\ WantsDrift) \/ pc \in {"load_state", "make_reader"}
        /\ pc' \in Reporting => pc = "drift" /\ ~WantsDrift
    BY <1>2
    DEF Moves, LoadPlan, LoadPricing, EstimateReturns, ChooseDrift, LoadState, MakeReader,
        Refuse, Escape, Goto, Fail, Crash, BeforeDetection, BeforePricing, Reporting, Delivering
  <2>3. pc' \in {"load_state", "make_reader", "detect"} => WantsDrift
    BY <2>2 DEF DriftKnown
  <2>4. pc = "drift" => pc \in BeforeDetection
    BY DEF BeforeDetection
  <2>5. QED
    BY <1>2, <2>1, <2>2, <2>3, <2>4, MovesLeave, DriftKnownStays
<1>3. CASE Delivers
  BY <1>3, DeliversLeave, DriftKnownStays DEF BeforeDetection, BeforePricing, Reporting, Delivering
<1>4. CASE ResolvePolicy
  BY <1>4, DriftKnownStays
  DEF ResolvePolicy, Goto, BeforeDetection, BeforePricing, Reporting, Delivering
<1>5. CASE LoadPolicy
  BY <1>5, DriftKnownStays
  DEF LoadPolicy, Goto, Fail, BeforeDetection, BeforePricing, Reporting, Delivering
<1>6. CASE ResolveRegion
  BY <1>6, DriftKnownStays
  DEF ResolveRegion, Goto, Fail, BeforeDetection, BeforePricing, Reporting, Delivering
<1>7. CASE EstimateStep
  <2>1. pc = "estimate" /\ UNCHANGED <<state, aws, edits, driftVars, ran, options, pc, verdict>>
    BY <1>7 DEF EstimateStep
  <2>2. QED
    BY <2>1, DriftKnownStays DEF BeforeDetection
<1>8. CASE DetectStep \/ AwsChanges
  <2>1. /\ pc = "detect" /\ UNCHANGED <<pc, ran, options, verdict>>
        /\ Drift!Detect \/ \E id \in Ids : Drift!Edit(id)
    BY <1>8 DEF DetectStep, AwsChanges
  <2>2. ~ran /\ verdict = "none" /\ WantsDrift
    BY <2>1 DEF DriftKnown, ControlInv, VerdictIsTimely, Delivering
  <2>3. DriftLoop!DriftInv'
    BY <2>1, DriftSteps DEF DriftKnown
  <2>4. QED
    BY <2>1, <2>2, <2>3
    DEF DriftKnown, WantsDrift, BeforeDetection, BeforePricing, Reporting, Delivering
<1>9. CASE DefaultFileChanges
  <2>1. /\ pc \in {"resolve_policy", "load_policy"}
        /\ UNCHANGED <<state, aws, edits, driftVars, ran, options, pc, verdict>>
    BY <1>9 DEF DefaultFileChanges
  <2>2. QED
    BY <2>1, DriftKnownStays DEF BeforeDetection, BeforePricing
<1>10. CASE UNCHANGED vars
  <2>1. UNCHANGED <<state, aws, edits, driftVars, ran, options, pc, verdict>>
    BY <1>10 DEF vars
  <2>2. pc \in {"load_state", "make_reader", "detect"} => WantsDrift
    BY DEF DriftKnown
  <2>3. QED
    BY <2>1, <2>2, DriftKnownStays
<1>11. CASE EvaluateGates
  <2>1. /\ pc = "evaluate" /\ pc' = "write_json"
        /\ UNCHANGED <<state, aws, edits, driftVars, ran, options>>
    BY <1>11 DEF EvaluateGates, Goto
  <2>2. QED
    BY <2>1, DriftKnownStays DEF BeforeDetection, BeforePricing, Reporting
<1>12. QED
  BY <1>1, <1>2, <1>3, <1>4, <1>5, <1>6, <1>7, <1>8, <1>9, <1>10, <1>11, StepsAre

-----------------------------------------------------------------------------
LEMMA DecidedStep == ControlInv /\ Decided /\ [Next]_vars => Decided'
<1> SUFFICES ASSUME ControlInv, Decided, [Next]_vars PROVE Decided'
  OBVIOUS
<1> USE DEF inputVars, settingVars, costVars, driftVars
<1>1. CASE UNCHANGED <<policy, plan, total, unpriced, ran, drifts, verdict>>
  BY <1>1 DEF Decided, Reports
<1>2. CASE EvaluateGates
  <2>1. UNCHANGED <<policy, plan, total, unpriced, ran, drifts>>
    BY <1>2 DEF EvaluateGates
  <2>2. Evaluate(policy, Reports)' = Evaluate(policy, Reports)
    BY <2>1 DEF Reports
  <2>3. verdict' = Combine(Evaluate(policy, Reports))
    BY <1>2 DEF EvaluateGates
  <2>4. QED
    BY <2>2, <2>3 DEF Decided
<1>3. CASE verdict' = verdict /\ verdict = "none"
  BY <1>3 DEF Decided
<1>4. CASE Delivers \/ UNCHANGED vars
  BY <1>1, <1>4, DeliversLeave DEF vars
<1>5. CASE \/ Moves \/ ResolvePolicy \/ LoadPolicy \/ ResolveRegion \/ EstimateStep
           \/ DetectStep \/ AwsChanges \/ DefaultFileChanges
  <2>1. verdict' = verdict /\ pc \notin Delivering \cup {"done"}
    BY <1>5, MovesLeave
    DEF ResolvePolicy, LoadPolicy, ResolveRegion, EstimateStep, DetectStep, AwsChanges,
        DefaultFileChanges, Goto, Delivering
  <2>2. QED
    BY <1>3, <2>1 DEF ControlInv, VerdictIsTimely
<1>6. QED
  BY <1>2, <1>4, <1>5, StepsAre

-----------------------------------------------------------------------------
\* A report that could not be written is one the run was asked for.
LEMMA FailedWriteIsMissed ==
  ASSUME ControlTypeOK, Ended,
         \/ WriteFails("write_json", options.out_json)
         \/ WriteFails("write_md", options.out_md)
  PROVE  ~Delivered'
<1>1. /\ UNCHANGED options
      /\ options.out_json \in Paths \cup {Null} /\ options.out_md \in Paths \cup {Null}
      /\ files \in [Paths -> Contents]
  BY OptionPaths DEF WriteFails, ControlTypeOK, inputVars
<1>2. /\ Rendered("json")'.format = "json" /\ Rendered("markdown")'.format = "markdown"
      /\ Content("partial").format = "partial"
  BY DEF Rendered, Content
<1>3. ASSUME NEW path \in Paths, NEW formats \in SUBSET {"json", "markdown"},
             files' \in {files, [files EXCEPT ![path] = Content("partial")]},
             files[path].format \notin formats
      PROVE  files'[path].format \notin formats
  BY <1>1, <1>2, <1>3
<1>4. CASE WriteFails("write_json", options.out_json)
  <2> DEFINE path == options.out_json
  <2>1. /\ path \in Paths /\ pc = "write_json"
        /\ files' \in {files, [files EXCEPT ![path] = Content("partial")]}
    BY <1>1, <1>4 DEF WriteFails
  <2>2. files[path].format \notin {"json", "markdown"}
    BY <2>1 DEF Ended
  <2>3. files'[path].format \notin {"json", "markdown"}
    BY <1>3, <2>1, <2>2
  <2>4. Delivered' => files'[path] \in {Rendered("json")', Rendered("markdown")'}
    BY <1>1, <2>1, NullAssumption DEF Delivered
  <2>5. QED
    BY <1>2, <2>3, <2>4
<1>5. CASE WriteFails("write_md", options.out_md)
  <2> DEFINE path == options.out_md
  <2>1. /\ path \in Paths /\ pc = "write_md" /\ path # Null
        /\ files' \in {files, [files EXCEPT ![path] = Content("partial")]}
    BY <1>1, <1>5 DEF WriteFails
  <2>2. files[path].format \notin {"markdown"}
    BY <2>1 DEF Ended
  <2>3. files'[path].format \notin {"markdown"}
    BY <1>3, <2>1, <2>2
  <2>4. Delivered' => files'[path] = Rendered("markdown")'
    BY <1>1, <2>1 DEF Delivered
  <2>5. QED
    BY <1>2, <2>3, <2>4
<1>6. QED
  BY <1>4, <1>5

LEMMA EndedStep == ControlInv /\ Ended /\ [Next]_vars => Ended'
<1> SUFFICES ASSUME ControlInv, Ended, [Next]_vars PROVE Ended'
  OBVIOUS
<1> USE DEF inputVars, settingVars, outputVars, endVars, driftVars
<1>1. ControlTypeOK /\ VerdictIsTimely /\ ExitIsLast
  BY DEF ControlInv
<1>2. CASE EvaluateGates
  <2>1. pc = "evaluate" /\ pc' = "write_json" /\ files' = files
    BY <1>2 DEF EvaluateGates, Goto
  <2>2. verdict = "none"
    BY <1>1, <2>1 DEF VerdictIsTimely, Delivering
  <2>3. \A path \in Paths : files[path] = Content("old")
    BY <2>2 DEF ControlInv, OutputsShowVerdict, Outputs
  <2>4. QED
    BY <2>1, <2>3 DEF Ended, Content
<1>3. CASE WriteJson
  <2>1. /\ pc = "write_json" /\ pc' = "write_md" /\ Rendered("json").format = "json"
        /\ files' = IF options.out_json = Null THEN files
                    ELSE [files EXCEPT ![options.out_json] = Rendered("json")]
    BY <1>3 DEF WriteJson, Write, Goto, Rendered
  <2>2. files \in [Paths -> Contents]
    BY <1>1 DEF ControlTypeOK
  <2>3. \A path \in Paths : files'[path] \in {files[path], Rendered("json")}
    BY <2>1, <2>2
  <2>4. QED
    BY <2>1, <2>3 DEF Ended
<1>4. CASE WriteMd \/ Echo
  BY <1>4 DEF WriteMd, Write, Echo, Goto, Ended
<1>5. CASE Exit
  BY <1>5 DEF Exit, Ended
<1>6. CASE \/ EchoRaises
           \/ WriteRaises("write_json", options.out_json)
           \/ WriteRaises("write_md", options.out_md)
  BY <1>6 DEF EchoRaises, WriteRaises, Crash, Ended
<1>7. CASE WriteFails("write_json", options.out_json) \/ WriteFails("write_md", options.out_md)
  <2>1. pc' = "done" /\ exit' = 2
    BY <1>7 DEF WriteFails, Fail
  <2>2. QED
    BY <1>1, <1>7, <2>1, FailedWriteIsMissed DEF Ended
<1>8. CASE \/ Moves \/ ResolvePolicy \/ LoadPolicy \/ ResolveRegion \/ EstimateStep
           \/ DetectStep \/ AwsChanges \/ DefaultFileChanges
  <2>1. /\ verdict' = verdict /\ pc \notin Delivering \cup {"done"}
        /\ pc' \notin {"write_json", "write_md"}
    BY <1>8, MovesLeave
    DEF ResolvePolicy, LoadPolicy, ResolveRegion, EstimateStep, DetectStep, AwsChanges,
        DefaultFileChanges, Goto, Fail, Delivering
  <2>2. QED
    BY <1>1, <2>1 DEF VerdictIsTimely, Ended
<1>9. CASE UNCHANGED vars
  BY <1>9 DEF vars, Ended, Delivered, Rendered
<1>10. QED
  BY <1>2, <1>3, <1>4, <1>5, <1>6, <1>7, <1>8, <1>9, StepsAre DEF Delivers

LEMMA RunHolds == Spec => []RunInv
<1>1. RunInv /\ [Next]_vars => RunInv'
  BY StepKeepsControl, InputTypesStep, CostKnownStep, DriftKnownStep, DecidedStep, EndedStep
  DEF RunInv
<1>2. QED
  BY <1>1, InitRun, PTL DEF Spec

-----------------------------------------------------------------------------
(***************************************************************************)
(* What the gates are given is what is true of the plan, the state and AWS.*)
(***************************************************************************)
LEMMA PlansAre == Plans \subseteq Seq(Changes)
  BY CostAssumptions
  DEF Cost!PlansAssumption, Cost!Changes, Changes, Cost!Attributes, Attributes,
      Cost!IngressRules, IngressRules

\* The limit gate looks at the total reported.
TotalOver == policy.limit_usd # Unlimited /\ total > policy.limit_usd

LEMMA WhatGatesSee ==
  ASSUME RunInv, verdict # "none"
  PROVE  /\ policy \in Policies /\ IsFiniteSet(policy.allowed_ports)
         /\ plan \in Seq(Changes)
         /\ total \in Int
         /\ Cost!SumsRepresentable => total = ExactTotal
         /\ unpriced # <<>> <=> Unpriceable # {}
         /\ Deletions(plan) = Removed
         /\ ~ran => drifts = <<>>
<1>1. policy \in PolicyFiles \cup {DefaultPolicy}
  BY DEF RunInv, InputTypes
<1>2. policy \in Policies /\ IsFiniteSet(policy.allowed_ports)
  <2>1. IsFiniteSet(DefaultPolicy.allowed_ports)
    BY FS_EmptySet DEF DefaultPolicy
  <2>2. QED
    BY <1>1, <2>1, PoliciesAssumption
<1>3. plan \in Seq(Changes)
  BY PlansAre DEF RunInv, InputTypes
<1>4. CostLoop!LoopInv /\ status = "reported"
  BY DEF RunInv, CostKnown
<1>5. total \in Int
  BY <1>4 DEF CostLoop!LoopInv, CostLoop!TypeOK, CostLoop!LoopTypeOK
<1>6. /\ Cost!SumsRepresentable => total = ExactTotal
      /\ unpriced # <<>> <=> Unpriceable # {}
  <2>1. /\ CostLoop!SumsRepresentable =>
              total = CostLoop!SumOver(LAMBDA i : CostLoop!LineCents(plan[i]),
                                       CostLoop!PricedPositions)
        /\ unpriced # <<>> <=> CostLoop!Classified(plan) \ CostLoop!PricedPositions # {}
    BY <1>4, CostLoopAssumptions, CostLoop!ReportedLoop
  <2>2. QED
    BY <2>1, SameSums, SameClasses DEF Unpriceable
<1>7. Deletions(plan) = Removed
  BY DEF Deletions, Removed, Classified, ActionClass
<1>8. ~ran => drifts = <<>>
  BY DEF RunInv, DriftKnown, Untouched
<1>9. QED
  BY <1>2, <1>3, <1>5, <1>6, <1>7, <1>8

LEMMA SettingsAre ==
  ASSUME NEW p \in Policies
  PROVE  /\ p.treat_unpriced_as \in Actions /\ p.deletions_action \in Actions
         /\ p.drift_action \in Actions /\ p.limit_usd \in Int \cup {Unlimited}
  BY DEF Policies

\* What each gate answers.
LEMMA GatesAnswer ==
  ASSUME RunInv, verdict # "none"
  PROVE  LET r == Evaluate(policy, Reports)
         IN  /\ r["max_monthly_delta"] =
                  IF TotalOver THEN "block"
                  ELSE IF Unpriceable # {} THEN Escalated(policy.treat_unpriced_as) ELSE "pass"
             /\ r["open_ingress"] = IF Exposes(plan, policy.allowed_ports) THEN "block" ELSE "pass"
             /\ r["deletions"] =
                  IF \E i \in Removed : plan[i].type \in policy.protected_types THEN "block"
                  ELSE IF Removed = {} THEN "pass" ELSE Escalated(policy.deletions_action)
             /\ r["drift"] =
                  IF ~ran THEN "skipped"
                  ELSE IF drifts = <<>> THEN "pass" ELSE Escalated(policy.drift_action)
<1> DEFINE r == Evaluate(policy, Reports)
<1>1. /\ r["max_monthly_delta"] = EvalMaxMonthlyDelta(policy, total, unpriced # <<>>)
      /\ r["open_ingress"] = EvalOpenIngress(policy, plan)
      /\ r["deletions"] = EvalDeletions(policy, plan)
      /\ r["drift"] = EvalDrift(policy, ran, drifts # <<>>)
  BY DEF Evaluate, Reports
<1>2. policy \in Policies /\ policy.treat_unpriced_as \in Actions
  BY WhatGatesSee, SettingsAre
<1>3. /\ Escalated(policy.treat_unpriced_as) \in {"pass", "warn", "block"}
      /\ Severity["pass"] = 0 /\ Severity["warn"] = 1 /\ Severity["block"] = 2
  BY <1>2 DEF Escalated, Actions, Severity
<1>4. r["max_monthly_delta"] =
        IF TotalOver THEN "block"
        ELSE IF Unpriceable # {} THEN Escalated(policy.treat_unpriced_as) ELSE "pass"
  BY <1>1, <1>3, WhatGatesSee DEF EvalMaxMonthlyDelta, Worse, TotalOver
<1>5. r["open_ingress"] = IF Exposes(plan, policy.allowed_ports) THEN "block" ELSE "pass"
  <2>1. EvalOpenIngress(policy, plan) = "block" <=> Exposes(plan, policy.allowed_ports)
    BY WhatGatesSee, IngressGateIsExact
  <2>2. EvalOpenIngress(policy, plan) \in {"pass", "block"}
    BY DEF EvalOpenIngress
  <2>3. QED
    BY <1>1, <2>1, <2>2
<1>6. r["deletions"] =
        IF \E i \in Removed : plan[i].type \in policy.protected_types THEN "block"
        ELSE IF Removed = {} THEN "pass" ELSE Escalated(policy.deletions_action)
  BY <1>1, WhatGatesSee DEF EvalDeletions
<1>7. r["drift"] = IF ~ran THEN "skipped"
                   ELSE IF drifts = <<>> THEN "pass" ELSE Escalated(policy.drift_action)
  BY <1>1 DEF EvalDrift
<1>8. QED
  BY <1>4, <1>5, <1>6, <1>7

\* What the verdict says, of the total reported.
LEMMA VerdictMeans ==
  ASSUME RunInv, verdict # "none"
  PROVE  /\ verdict = "BLOCK" <=> TotalOver \/ Forbidden
         /\ verdict = "WARN" => Warning
         /\ verdict = "PASS" => ~Warning
<1> DEFINE r == Evaluate(policy, Reports)
           Unpriced == Unpriceable # {}
           Protected == \E i \in Removed : plan[i].type \in policy.protected_types
           Open == Exposes(plan, policy.allowed_ports)
           Drifting == drifts # <<>>
           u == policy.treat_unpriced_as
           d == policy.deletions_action
           f == policy.drift_action
<1>1. /\ r["max_monthly_delta"] =
            IF TotalOver THEN "block" ELSE IF Unpriced THEN Escalated(u) ELSE "pass"
      /\ r["open_ingress"] = IF Open THEN "block" ELSE "pass"
      /\ r["deletions"] = IF Protected THEN "block"
                          ELSE IF Removed = {} THEN "pass" ELSE Escalated(d)
      /\ r["drift"] = IF ~ran THEN "skipped" ELSE IF ~Drifting THEN "pass" ELSE Escalated(f)
  BY GatesAnswer
<1>2. ~ran => ~Drifting
  BY WhatGatesSee
<1>3. u \in Actions /\ d \in Actions /\ f \in Actions
  BY WhatGatesSee, SettingsAre
<1>4. \A a \in Actions : /\ Escalated(a) = "block" <=> a = "block"
                         /\ Escalated(a) = "warn" <=> a = "warn"
  BY DEF Actions, Escalated
<1>5. /\ Forbidden <=> \/ u = "block" /\ Unpriced
                       \/ Open
                       \/ d = "block" /\ Removed # {}
                       \/ Protected
                       \/ f = "block" /\ Drifting
      /\ Warning <=> \/ u = "warn" /\ Unpriced
                     \/ d = "warn" /\ Removed # {}
                     \/ f = "warn" /\ Drifting
  BY DEF Forbidden, Warning
<1>6. verdict = Combine(r)
  BY DEF RunInv, Decided
<1> HIDE DEF r, Unpriced, Protected, Open, Drifting, u, d, f
<1>7. (\E g \in Gates : r[g] = "block") <=> TotalOver \/ Forbidden
  BY <1>1, <1>2, <1>3, <1>4, <1>5 DEF Gates
<1>8. ~(TotalOver \/ Forbidden) => ((\E g \in Gates : r[g] = "warn") <=> Warning)
  <2>1. Protected => Removed # {}
    BY DEF Protected
  <2>2. QED
    BY <1>1, <1>2, <1>3, <1>4, <1>5, <2>1 DEF Gates
<1>9. QED
  BY <1>6, <1>7, <1>8 DEF Combine

\* Nothing was left uncompared that could be compared.
LEMMA AllCompared ==
  ASSUME RunInv, ran, errors = {}
  PROVE  \A i \in DOMAIN state : state[i].type \in Drift!Supported => i \in Drift!Comparisons
<1>1. DriftLoop!TypeOK /\ DriftLoop!OneFateEach /\ here = Len(state) + 1
  BY DEF RunInv, DriftKnown, DriftLoop!DriftInv
<1>2. DOMAIN state = 1 .. Len(state) /\ Len(state) \in Nat
  BY <1>1, DriftLoopAssumptions DEF DriftLoop!TypeOK, DriftLoop!StatesAssumption
<1>3. DriftLoop!Passed = DOMAIN state
  BY <1>1, <1>2 DEF DriftLoop!Passed
<1>4. QED
  BY <1>1, <1>3, SameObjects, SameDriftStep DEF DriftLoop!OneFateEach, DriftLoop!Comparisons

\* A report without drifts is one of agreement, attribute by attribute.
LEMMA NoDriftIsAgreement ==
  ASSUME RunInv, drifts = <<>>
  PROVE  Drifted = {}
<1>1. DriftLoop!SilenceIsReal
  BY DriftLoopAssumptions, DriftLoop!SilenceFollows DEF RunInv, DriftKnown
<1>2. \A i : DriftLoop!DriftsOf(i) = {}
  BY DEF DriftLoop!DriftsOf
<1>3. \A i \in DriftLoop!Comparisons : \A attribute \in DriftLoop!AttributesOf(state[i].type) :
         \E live \in seen[i] :
            DriftLoop!Visible(live) /\ ~DriftLoop!Differs(state[i], live.value, attribute)
  BY <1>1, <1>2 DEF DriftLoop!SilenceIsReal
<1>4. QED
  BY <1>3, SameObjects, SameDriftStep DEF Drifted

LEMMA EndedRuns ==
  ASSUME RunInv, exit # Null
  PROVE  pc = "done" /\ exit \in {0, 1, 2}
  BY DEF RunInv, ControlInv, ExitIsLast, InputTypes

LEMMA NullIsNoCode == Null \notin {0, 1, 2}
  BY NullAssumption

\* Whatever plan, state, policy and options a run is given, whatever fails and
\* however AWS changes meanwhile: exit 0 is only seen by CI when nothing the
\* policy in use forbids is there and everything to be checked was checked (R12,
\* R14-R18).
THEOREM GreenAlwaysMeansClean == Spec => []GreenMeansClean
<1>1. RunInv => GreenMeansClean
  <2> SUFFICES ASSUME RunInv, exit = 0
               PROVE  /\ ~Forbidden
                      /\ Cost!SumsRepresentable => ~OverLimit
                      /\ options.fail_on_warn => ~Warning
                      /\ WantsDrift =>
                          /\ \A i \in DOMAIN state : state[i].type \in Drift!Supported =>
                                  i \in Drift!Comparisons
                          /\ \/ policy.drift_action = "ignore"
                             \/ policy.drift_action = "warn" /\ ~options.fail_on_warn
                             \/ Drifted = {}
    BY DEF GreenMeansClean
  <2>1. pc = "done"
    BY EndedRuns, NullIsNoCode
  <2>2. verdict \in {"PASS", "WARN"} /\ verdict # "none" /\ verdict # "BLOCK"
    BY <2>1 DEF RunInv, ControlInv, ExitFollowsVerdict
  <2>3. exit = ExitCode(verdict, ran /\ errors # {}, options.fail_on_warn)
    BY <2>1, <2>2 DEF RunInv, Ended
  <2>4. /\ ~(verdict = "WARN" /\ options.fail_on_warn)
        /\ ~(ran /\ errors # {})
    BY <2>2, <2>3 DEF ExitCode
  <2>5. ~TotalOver /\ ~Forbidden /\ (options.fail_on_warn => ~Warning)
    BY <2>2, <2>4, VerdictMeans
  <2>6. Cost!SumsRepresentable => ~OverLimit
    BY <2>2, <2>5, WhatGatesSee DEF OverLimit, TotalOver
  <2>7. ASSUME WantsDrift
        PROVE  /\ \A i \in DOMAIN state : state[i].type \in Drift!Supported =>
                       i \in Drift!Comparisons
               /\ \/ policy.drift_action = "ignore"
                  \/ policy.drift_action = "warn" /\ ~options.fail_on_warn
                  \/ Drifted = {}
    <3>1. ran /\ errors = {}
      BY <2>2, <2>4, <2>7 DEF RunInv, DriftKnown
    <3>2. policy.drift_action \in Actions
      BY <2>2, WhatGatesSee, SettingsAre
    <3>3. CASE drifts = <<>>
      BY <3>1, <3>3, AllCompared, NoDriftIsAgreement
    <3>4. CASE drifts # <<>>
      <4>1. /\ policy.drift_action # "block"
            /\ options.fail_on_warn => policy.drift_action # "warn"
        BY <2>5, <3>4 DEF Forbidden, Warning
      <4>2. QED
        BY <3>1, <3>2, <4>1, AllCompared DEF Actions
    <3>5. QED
      BY <3>3, <3>4
  <2>8. QED
    BY <2>5, <2>6, <2>7
<1>2. QED
  BY <1>1, RunHolds, PTL

\* Nor does CI ever see exit 1 from a run that was not stopped by the policy in
\* use, unless it crashed: no failed input and no failed write looks like a
\* finding (R14-R18).
THEOREM RedAlwaysMeansGated == Spec => []RedMeansGated
<1>1. RunInv => RedMeansGated
  <2> SUFFICES ASSUME RunInv, exit = 1, ~crashed, Cost!SumsRepresentable
               PROVE  OverLimit \/ Forbidden \/ (options.fail_on_warn /\ Warning)
    BY DEF RedMeansGated
  <2>1. pc = "done"
    BY EndedRuns, NullIsNoCode
  <2>2. verdict = "BLOCK" \/ (verdict = "WARN" /\ options.fail_on_warn)
    BY <2>1 DEF RunInv, ControlInv, ExitFollowsVerdict
  <2>3. verdict # "none"
    BY <2>2
  <2>4. TotalOver => OverLimit
    BY <2>3, WhatGatesSee DEF OverLimit, TotalOver
  <2>5. QED
    BY <2>2, <2>3, <2>4, VerdictMeans
<1>2. QED
  BY <1>1, RunHolds, PTL

-----------------------------------------------------------------------------
(***************************************************************************)
(* What the reports show of it.                                            *)
(***************************************************************************)
LEMMA ListsAre ==
  ASSUME RunInv, verdict # "none"
  PROVE  /\ Outcome.lists \in [Lists -> Nat]
         /\ IsFiniteSet(skipped) /\ IsFiniteSet(errors)
         /\ Len(drifts) = 0 <=> drifts = <<>>
<1>1. DriftLoop!TypeOK
  BY DEF RunInv, DriftKnown, DriftLoop!DriftInv
<1>2. DOMAIN state = 1 .. Len(state) /\ Len(state) \in Nat
  BY <1>1, DriftLoopAssumptions DEF DriftLoop!TypeOK, DriftLoop!StatesAssumption
<1>3. IsFiniteSet(DOMAIN state)
  BY <1>2, FS_Interval
<1>4. /\ IsFiniteSet(skipped) /\ Cardinality(skipped) \in Nat
      /\ IsFiniteSet(errors) /\ Cardinality(errors) \in Nat
  BY <1>1, <1>3, FS_Subset, FS_CardinalityType DEF DriftLoop!TypeOK
<1>5. Len(drifts) \in Nat /\ (Len(drifts) = 0 <=> drifts = <<>>)
  BY <1>1 DEF DriftLoop!TypeOK
<1>6. Len(breakdown) \in Nat /\ Len(unpriced) \in Nat
  BY CostLoopAssumptions, CostLoop!ReportedLoop DEF RunInv, CostKnown
<1>7. QED
  BY <1>4, <1>5, <1>6 DEF Outcome, Lists

LEMMA PageIs ==
  /\ Page.sections = [name \in Headings(Outcome) |-> Section(Outcome.lists[name])]
  /\ DOMAIN Page.sections = Headings(Outcome)
  /\ Page.summary = Summary(plan) /\ Page.changed = Changed(Summary(plan))
  /\ Page.total = total /\ Page.policy = Evaluate(policy, Reports)
  /\ Dict.changed = Changed(Summary(plan)) /\ Dict.lists = Outcome.lists
  BY DEF Page, Dict, RenderMd, ToDict, Outcome

\* A section that is left out had nothing to say, and one that is cut short
\* counts what it leaves out.
LEMMA EntriesAre ==
  ASSUME RunInv, verdict # "none"
  PROVE  /\ \A name \in Lists : Entries(name) = Outcome.lists[name]
         /\ "drifts" \in DOMAIN Page.sections <=> ran
         /\ ran /\ "errors" \notin DOMAIN Page.sections => errors = {}
<1>1. /\ Outcome.lists \in [Lists -> Nat]
      /\ IsFiniteSet(skipped) /\ IsFiniteSet(errors)
  BY ListsAre
<1>2. /\ Outcome.ran = ran
      /\ Outcome.lists["drifts"] = Len(drifts)
      /\ Outcome.lists["skipped"] = Cardinality(skipped)
      /\ Outcome.lists["errors"] = Cardinality(errors)
  BY DEF Outcome
<1>3. ~ran => \A name \in {"drifts", "skipped", "errors"} : Outcome.lists[name] = 0
  <2>1. ~ran => drifts = <<>> /\ skipped = {} /\ errors = {}
    BY DEF RunInv, DriftKnown, Untouched
  <2>2. QED
    BY <1>2, <2>1, FS_EmptySet
<1> DEFINE v == Outcome
<1> HIDE DEF v
<1>4. /\ v.lists \in [Lists -> Nat] /\ v.ran = ran
      /\ ~ran => \A name \in {"drifts", "skipped", "errors"} : v.lists[name] = 0
  BY <1>1, <1>2, <1>3 DEF v
<1>5. ASSUME NEW name \in Lists
      PROVE  Entries(name) = v.lists[name]
  <2>1. Entries(name) = IF name \in Headings(v)
                        THEN Section(v.lists[name]).shown + Section(v.lists[name]).more ELSE 0
    BY PageIs DEF Entries, v
  <2>2. v.lists[name] \in Nat
    BY <1>4
  <2>3. Section(v.lists[name]).shown + Section(v.lists[name]).more = v.lists[name]
    BY <2>2, RowsAssumption DEF Section
  <2>4. name \notin Headings(v) => v.lists[name] = 0
    BY <1>4, <2>2 DEF Headings, Lists
  <2>5. QED
    BY <2>1, <2>3, <2>4
<1>6. "drifts" \in DOMAIN Page.sections <=> ran
  BY <1>4, PageIs DEF Headings, v
<1>7. ran /\ "errors" \notin DOMAIN Page.sections => errors = {}
  <2>1. ran /\ "errors" \notin Headings(v) => ~(v.lists["errors"] > 0)
    BY <1>4 DEF Headings
  <2>2. v.lists["errors"] \in Nat /\ v.lists["errors"] = Cardinality(errors)
    BY <1>2, <1>4 DEF v, Lists
  <2>3. Cardinality(errors) = 0 => errors = {}
    BY <1>1, FS_EmptySet
  <2>4. QED
    BY <2>1, <2>2, <2>3, PageIs DEF v
<1>8. QED
  BY <1>5, <1>6, <1>7 DEF v

LEMMA Listed ==
  /\ Outcome.lists["cost"] = Len(breakdown) /\ Outcome.lists["unpriced"] = Len(unpriced)
  /\ Outcome.lists["drifts"] = Len(drifts)
  /\ Outcome.lists["skipped"] = Cardinality(skipped)
  /\ Outcome.lists["errors"] = Cardinality(errors)
  /\ {"cost", "unpriced", "drifts", "skipped", "errors"} = Lists
  BY DEF Outcome, Lists

\* What the page is silent about is in order, for every run that gets as far as
\* a verdict, whatever its exit code (R10-R12, R20).
THEOREM SilentPageIsAlwaysClean == Spec => []SilentPageIsClean
<1>1. RunInv => SilentPageIsClean
  <2> SUFFICES ASSUME RunInv, verdict # "none"
               PROVE  /\ "drifts" \in DOMAIN Page.sections <=> WantsDrift
                      /\ WantsDrift /\ "errors" \notin DOMAIN Page.sections =>
                            \A i \in DOMAIN state : state[i].type \in Drift!Supported =>
                               i \in Drift!Comparisons
                      /\ WantsDrift /\ Entries("drifts") = 0 => Drifted = {}
    BY DEF SilentPageIsClean
  <2>1. ran <=> WantsDrift
    BY DEF RunInv, DriftKnown
  <2>2. "drifts" \in DOMAIN Page.sections <=> WantsDrift
    BY <2>1, EntriesAre
  <2>3. WantsDrift /\ "errors" \notin DOMAIN Page.sections => ran /\ errors = {}
    BY <2>1, EntriesAre
  <2>4. Entries("drifts") = 0 => drifts = <<>>
    BY EntriesAre, Listed, ListsAre
  <2>5. QED
    BY <2>2, <2>3, <2>4, AllCompared, NoDriftIsAgreement
<1>2. QED
  BY <1>1, RunHolds, PTL

LEMMA PositionsOfPlans ==
  ASSUME RunInv
  PROVE  IsFiniteSet(Classified(plan))
<1>1. plan \in Seq(Changes)
  BY PlansAre DEF RunInv, InputTypes
<1>2. DOMAIN plan = 1 .. Len(plan) /\ Len(plan) \in Nat
  BY <1>1
<1>3. IsFiniteSet(DOMAIN plan)
  BY <1>2, FS_Interval
<1>4. QED
  BY <1>3, FS_Subset DEF Classified

\* The header counts each classified change once.
LEMMA SummaryCounts ==
  ASSUME RunInv
  PROVE  /\ Summary(plan) \in [ActionClass -> Nat]
         /\ Changed(Summary(plan)) = Cardinality(Classified(plan))
         /\ Summary(plan)["delete"] + Summary(plan)["replace"] = 0 => Removed = {}
<1> DEFINE C(class) == {i \in Classified(plan) : ClassOf(plan[i]) = class}
<1>1. ASSUME NEW class
      PROVE  C(class) \subseteq Classified(plan) /\ IsFiniteSet(C(class))
             /\ Cardinality(C(class)) \in Nat
  BY PositionsOfPlans, FS_Subset, FS_CardinalityType
<1>2. \A class \in ActionClass : Summary(plan)[class] = Cardinality(C(class))
  BY DEF Summary
<1>3. Summary(plan) \in [ActionClass -> Nat]
  <2>1. \A class \in ActionClass : Cardinality(C(class)) \in Nat
    BY <1>1
  <2>2. QED
    BY <2>1 DEF Summary
<1>4. {"create", "delete", "update", "replace"} = ActionClass
  BY DEF ActionClass
<1>5. /\ Classified(plan) = C("create") \cup (C("delete") \cup (C("update") \cup C("replace")))
      /\ C("create") \cap (C("delete") \cup (C("update") \cup C("replace"))) = {}
      /\ C("delete") \cap (C("update") \cup C("replace")) = {}
      /\ C("update") \cap C("replace") = {}
  BY DEF Classified, ActionClass
<1>6. Removed = C("delete") \cup C("replace")
  BY DEF Removed
<1> HIDE DEF C
<1>7. ASSUME NEW A, NEW B, IsFiniteSet(A), IsFiniteSet(B), A \cap B = {}
      PROVE  IsFiniteSet(A \cup B) /\ Cardinality(A \cup B) = Cardinality(A) + Cardinality(B)
  <2>1. Cardinality({}) = 0
    BY FS_EmptySet
  <2>2. Cardinality(A) \in Nat /\ Cardinality(B) \in Nat
    BY <1>7, FS_CardinalityType
  <2>3. /\ IsFiniteSet(A \cup B)
        /\ Cardinality(A \cup B) = Cardinality(A) + Cardinality(B) - Cardinality(A \cap B)
    BY <1>7, FS_Union
  <2>4. Cardinality(A \cap B) = 0
    BY <1>7, <2>1
  <2>5. QED
    BY <2>2, <2>3, <2>4
<1>8. /\ IsFiniteSet(C("update") \cup C("replace"))
      /\ Cardinality(C("update") \cup C("replace")) =
           Cardinality(C("update")) + Cardinality(C("replace"))
  BY <1>1, <1>5, <1>7
<1>9. /\ IsFiniteSet(C("delete") \cup (C("update") \cup C("replace")))
      /\ Cardinality(C("delete") \cup (C("update") \cup C("replace"))) =
           Cardinality(C("delete")) + Cardinality(C("update") \cup C("replace"))
  BY <1>1, <1>5, <1>7, <1>8
<1>10. Cardinality(Classified(plan)) =
          Cardinality(C("create"))
            + Cardinality(C("delete") \cup (C("update") \cup C("replace")))
  BY <1>1, <1>5, <1>7, <1>9
<1>11. Changed(Summary(plan)) = Cardinality(Classified(plan))
  <2>1. Changed(Summary(plan)) =
           Cardinality(C("create")) + Cardinality(C("delete"))
             + Cardinality(C("update")) + Cardinality(C("replace"))
    BY <1>2, <1>4 DEF Changed
  <2>2. QED
    BY <1>1, <1>8, <1>9, <1>10, <2>1
<1>12. Summary(plan)["delete"] + Summary(plan)["replace"] = 0 => Removed = {}
  <2>1. ASSUME Summary(plan)["delete"] + Summary(plan)["replace"] = 0 PROVE Removed = {}
    <3>1. Cardinality(C("delete")) = 0 /\ Cardinality(C("replace")) = 0
      BY <1>1, <1>2, <1>4, <2>1
    <3>2. C("delete") = {} /\ C("replace") = {}
      BY <1>1, <3>1, FS_EmptySet
    <3>3. QED
      BY <1>6, <3>2
  <2>2. QED
    BY <2>1
<1>13. QED
  BY <1>3, <1>11, <1>12

\* The reports add up, however long their lists are and wherever the page cuts
\* them: three loops and a summary have counted the same changes and resources
\* (R3, R7, R20).
THEOREM ReportsAlwaysAddUp == Spec => []ReportAddsUp
<1>1. RunInv => ReportAddsUp
  <2> SUFFICES ASSUME RunInv, verdict # "none"
               PROVE  /\ Page.changed = Entries("cost") + Entries("unpriced")
                      /\ ran => Entries("skipped") =
                           Cardinality({i \in DOMAIN state : state[i].type \notin Drift!Supported})
                      /\ Dict.changed = Page.changed
                      /\ \A name \in Lists : Entries(name) = Dict.lists[name]
    BY DEF ReportAddsUp
  <2>1. \A name \in Lists : Entries(name) = Outcome.lists[name]
    BY EntriesAre
  <2>2. Len(breakdown) + Len(unpriced) = Cardinality(Classified(plan))
    <3>1. \A S : CostLoop!Cardinality(S) = Cardinality(S)
      BY DEF CostLoop!Cardinality, Cardinality
    <3>2. CostLoop!LoopInv /\ status = "reported"
      BY DEF RunInv, CostKnown
    <3>3. Len(breakdown) + Len(unpriced) = CostLoop!Cardinality(CostLoop!Classified(plan))
      BY <3>2, CostLoopAssumptions, CostLoop!ReportedLoop
    <3>4. QED
      BY <3>1, <3>3, SameClasses
  <2>3. Page.changed = Entries("cost") + Entries("unpriced")
    BY <2>1, <2>2, Listed, PageIs, SummaryCounts
  <2>4. ASSUME ran
        PROVE  Entries("skipped") =
                 Cardinality({i \in DOMAIN state : state[i].type \notin Drift!Supported})
    <3>1. DriftLoop!TypeOK /\ DriftLoop!OneFateEach /\ here = Len(state) + 1
      BY <2>4 DEF RunInv, DriftKnown, DriftLoop!DriftInv
    <3>2. DOMAIN state = 1 .. Len(state) /\ Len(state) \in Nat
      BY <3>1, DriftLoopAssumptions DEF DriftLoop!TypeOK, DriftLoop!StatesAssumption
    <3>3. DriftLoop!Passed = DOMAIN state
      BY <3>1, <3>2 DEF DriftLoop!Passed
    <3>4. skipped = {i \in DOMAIN state : state[i].type \notin Drift!Supported}
      BY <3>1, <3>3, SameObjects DEF DriftLoop!OneFateEach
    <3>5. QED
      BY <2>1, <3>4, Listed
  <2>5. QED
    BY <2>1, <2>3, <2>4, PageIs
<1>2. QED
  BY <1>1, RunHolds, PTL

\* Whoever is sent back by an exit code other than 0 finds the cause on the
\* page, if the run got as far as writing one (R14, R16, R17, R20).
THEOREM CauseIsAlwaysShown == Spec => []CauseIsShown
<1>1. RunInv => CauseIsShown
  <2> SUFFICES ASSUME RunInv, verdict # "none" PROVE CauseIsShown
    BY DEF CauseIsShown
  <2> DEFINE r == Evaluate(policy, Reports)
  <2>1. \A name \in Lists : Entries(name) = Outcome.lists[name] /\ Entries(name) \in Nat
    BY EntriesAre, ListsAre
  <2>2. exit = 2 /\ Delivered => Entries("errors") > 0
    <3> SUFFICES ASSUME exit = 2, Delivered PROVE Entries("errors") > 0
      OBVIOUS
    <3>1. pc = "done"
      BY EndedRuns, NullIsNoCode
    <3>2. exit = ExitCode(verdict, ran /\ errors # {}, options.fail_on_warn)
      BY <3>1 DEF RunInv, Ended
    <3>3. errors # {}
      BY <3>2 DEF ExitCode
    <3>4. Cardinality(errors) # 0
      BY <3>3, ListsAre, FS_EmptySet
    <3>5. QED
      BY <2>1, <3>4, Listed
  <2>3. verdict # "PASS" => \E g \in Gates : r[g] \in {"warn", "block"}
    BY DEF RunInv, Decided, Combine
  <2>4. r["max_monthly_delta"] \in {"warn", "block"} =>
           \/ Entries("unpriced") > 0
           \/ policy.limit_usd # Unlimited /\ total > policy.limit_usd
    <3>1. Unpriceable # {} => Entries("unpriced") > 0
      <4>1. unpriced # <<>> => Len(unpriced) # 0
        BY DEF RunInv, CostKnown, CostLoop!LoopInv, CostLoop!TypeOK, CostLoop!LoopTypeOK
      <4>2. QED
        BY <2>1, <4>1, Listed, WhatGatesSee
    <3>2. QED
      BY <3>1, GatesAnswer DEF TotalOver
  <2>5. r["deletions"] \in {"warn", "block"} =>
           Page.summary["delete"] + Page.summary["replace"] > 0
    <3>1. r["deletions"] \in {"warn", "block"} => Removed # {}
      BY GatesAnswer
    <3>2. Summary(plan)["delete"] \in Nat /\ Summary(plan)["replace"] \in Nat
      BY SummaryCounts DEF ActionClass
    <3>3. QED
      BY <3>1, <3>2, SummaryCounts, PageIs
  <2>6. r["drift"] \in {"warn", "block"} => Entries("drifts") > 0
    <3>1. r["drift"] \in {"warn", "block"} => drifts # <<>>
      BY GatesAnswer
    <3>2. QED
      BY <2>1, <3>1, Listed, ListsAre
  <2>7. Page.policy = r /\ Page.total = total
    BY PageIs
  <2> HIDE DEF r
  <2>8. QED
    BY <2>2, <2>3, <2>4, <2>5, <2>6, <2>7 DEF CauseIsShown
<1>2. QED
  BY <1>1, RunHolds, PTL

\* Every variable of a run keeps its type, and what the renderers are handed is
\* a verdict they can read.
THEOREM RunTypeCorrect == Spec => []TypeOK
<1>1. RunInv => TypeOK
  <2> SUFFICES ASSUME RunInv PROVE TypeOK
    OBVIOUS
  <2>1. Cost!LoopTypeOK
    <3>1. plan \in Seq(Changes)
      BY PlansAre DEF RunInv, InputTypes
    <3>2. CostLoop!LoopInit => CostLoop!LoopTypeOK
      BY <3>1 DEF CostLoop!LoopInit, CostLoop!LoopTypeOK
    <3>3. CostLoop!LoopInv => CostLoop!LoopTypeOK
      BY DEF CostLoop!LoopInv, CostLoop!TypeOK
    <3>4. QED
      BY <3>2, <3>3, SameCostStep DEF RunInv, CostKnown
  <2>2. Drift!TypeOK
    BY SameDriftStep DEF RunInv, DriftKnown, DriftLoop!DriftInv
  <2>3. verdict # "none" => Outcome \in VerdictRecords
    <3> SUFFICES ASSUME verdict # "none" PROVE Outcome \in VerdictRecords
      OBVIOUS
    <3>1. verdict \in Verdicts /\ ran \in BOOLEAN
      BY DEF RunInv, ControlInv, VerdictIsTimely, DriftKnown
    <3>2. Evaluate(policy, Reports) \in [Gates -> Outcomes]
      <4> DEFINE r == Evaluate(policy, Reports)
      <4>1. \A a \in Actions : Escalated(a) \in Outcomes
        BY DEF Escalated, Actions, Outcomes, Severity
      <4>2. {"pass", "block", "skipped"} \subseteq Outcomes
        BY DEF Outcomes, Severity
      <4>3. /\ policy.treat_unpriced_as \in Actions /\ policy.deletions_action \in Actions
            /\ policy.drift_action \in Actions
        BY WhatGatesSee, SettingsAre
      <4>4. \A g \in Gates : r[g] \in Outcomes
        BY <4>1, <4>2, <4>3, GatesAnswer DEF Gates
      <4>5. r = [g \in Gates |-> r[g]]
        BY DEF Evaluate, Gates
      <4> HIDE DEF r
      <4>6. QED
        BY <4>4, <4>5 DEF r
    <3>3. total \in Int /\ Outcome.lists \in [Lists -> Nat]
          /\ Summary(plan) \in [ActionClass -> Nat]
      BY WhatGatesSee, ListsAre, SummaryCounts
    <3>4. QED
      BY <3>1, <3>2, <3>3 DEF Outcome, VerdictRecords
  <2>4. QED
    BY <2>1, <2>2, <2>3
    DEF TypeOK, RunInv, ControlInv, ControlTypeOK, VerdictIsTimely, InputTypes, DriftKnown
<1>2. QED
  BY <1>1, RunHolds, PTL

-----------------------------------------------------------------------------
(***************************************************************************)
(* The steps left.                                                         *)
(***************************************************************************)
LEMMA StatementsAreCounted ==
  \A p \in Places : /\ StatementsLeft[p] \in 0 .. 15
                    /\ p # "done" => StatementsLeft[p] > 0
  BY DEF Places, StatementsLeft

LEMMA ThreeCounts ==
  ASSUME NEW m \in Nat, NEW n \in Nat,
         NEW a \in 0 .. 15, NEW b \in 0 .. m + 1, NEW c \in 0 .. 2 * n
  PROVE  a + b + c \in 0 .. 16 + m + 2 * n
  OBVIOUS

LEMMA CountsAreIntegers ==
  ASSUME NEW m \in Nat, NEW n \in Nat,
         NEW a \in 0 .. 15, NEW b \in 0 .. m + 1, NEW c \in 0 .. 2 * n
  PROVE  b \in Int /\ c \in Int /\ a \in Nat
  OBVIOUS

LEMMA LoopsAreCounted ==
  ASSUME RunInv
  PROVE  /\ Len(plan) \in Nat /\ Cost!ChangesLeft \in 0 .. Len(plan) + 1
         /\ Len(state) \in Nat /\ Drift!CallsLeft \in 0 .. 2 * Len(state)
<1>1. /\ CostLoop!LoopInit \/ CostLoop!LoopInv
      /\ plan \in Plans /\ DriftLoop!DriftInv
  BY DEF RunInv, CostKnown, InputTypes, DriftKnown
<1>2. Len(plan) \in Nat /\ Cost!ChangesLeft \in 0 .. Len(plan) + 1
  <2>1. Len(plan) \in Nat
    BY <1>1, PlansAre
  <2>2. CASE CostLoop!LoopInit
    BY <2>1, <2>2 DEF CostLoop!LoopInit, Cost!ChangesLeft
  <2>3. CASE CostLoop!LoopInv
    <3>1. CostLoop!ChangesLeft \in 0 .. Len(plan) + 1
      BY <2>3, CostLoopAssumptions, CostLoop!EstimateAdvances DEF CostLoop!LoopInv
    <3>2. QED
      BY <3>1 DEF CostLoop!ChangesLeft, Cost!ChangesLeft
  <2>4. QED
    BY <1>1, <2>1, <2>2, <2>3
<1>3. Len(state) \in Nat /\ Drift!CallsLeft \in 0 .. 2 * Len(state)
  <2>1. DriftLoop!CallsLeft \in 0 .. 2 * Len(state)
    BY <1>1, DriftLoopAssumptions, DriftLoop!CallsAreCounted
  <2>2. Len(state) \in Nat
    BY <1>1, DriftLoopAssumptions DEF DriftLoop!DriftInv, DriftLoop!TypeOK, DriftLoop!StatesAssumption
  <2>3. QED
    BY <2>1, <2>2 DEF DriftLoop!CallsLeft, Drift!CallsLeft
<1>4. QED
  BY <1>2, <1>3

\* A step outside the loops leaves them alone and goes on in the text.
LEMMA StatementsAdvance ==
  ASSUME Moves \/ Delivers \/ ResolvePolicy \/ LoadPolicy \/ ResolveRegion \/ EvaluateGates
  PROVE  /\ UNCHANGED <<plan, next, status, state, here, held>>
         /\ pc' \in Places /\ StatementsLeft[pc'] < StatementsLeft[pc]
<1>1. CASE Moves
  BY <1>1 DEF Moves, LoadPlan, LoadPricing, EstimateReturns, ChooseDrift, LoadState, MakeReader,
              DetectReturns, Refuse, Escape, ReadsSomething, LooksForDefault, Inputs, Goto, Fail, Crash,
              costVars, driftVars, inputVars, StatementsLeft, Places
<1>2. CASE Delivers
  BY <1>2 DEF Delivers, WriteJson, WriteMd, Write, Echo, EchoRaises, Exit, WriteFails, WriteRaises,
              Goto, Fail, Crash, costVars, driftVars, inputVars, StatementsLeft, Places
<1>3. CASE ResolvePolicy \/ LoadPolicy \/ ResolveRegion \/ EvaluateGates
  BY <1>3 DEF ResolvePolicy, LoadPolicy, ResolveRegion, EvaluateGates, Goto, Fail,
              costVars, driftVars, inputVars, StatementsLeft, Places
<1>4. QED
  BY <1>1, <1>2, <1>3

LEMMA StepAdvances ==
  ASSUME RunInv, [Next]_vars
  PROVE  [\/ StepsLeft' < StepsLeft
          \/ (AwsChanges \/ DefaultFileChanges) /\ StepsLeft' = StepsLeft]_vars
<1>1. /\ Cost!ChangesLeft \in Int /\ Drift!CallsLeft \in Int
      /\ pc \in Places /\ StatementsLeft[pc] \in Nat
  <2>1. pc \in Places
    BY DEF RunInv, ControlInv, ControlTypeOK
  <2>2. StatementsLeft[pc] \in 0 .. 15
    BY <2>1, StatementsAreCounted
  <2>3. /\ Len(plan) \in Nat /\ Cost!ChangesLeft \in 0 .. Len(plan) + 1
        /\ Len(state) \in Nat /\ Drift!CallsLeft \in 0 .. 2 * Len(state)
    BY LoopsAreCounted
  <2>4. /\ Cost!ChangesLeft \in Int /\ Drift!CallsLeft \in Int
        /\ StatementsLeft[pc] \in Nat
    BY <2>2, <2>3, CountsAreIntegers
  <2>5. QED
    BY <2>1, <2>4
<1>2. ASSUME UNCHANGED <<plan, next, status>> PROVE Cost!ChangesLeft' = Cost!ChangesLeft
  BY <1>2 DEF Cost!ChangesLeft
<1>3. ASSUME UNCHANGED <<state, here, held>> PROVE Drift!CallsLeft' = Drift!CallsLeft
  BY <1>3 DEF Drift!CallsLeft
<1>4. CASE Moves \/ Delivers \/ ResolvePolicy \/ LoadPolicy \/ ResolveRegion \/ EvaluateGates
  <2>1. /\ StatementsLeft[pc'] \in Nat /\ StatementsLeft[pc'] < StatementsLeft[pc]
        /\ Cost!ChangesLeft' = Cost!ChangesLeft /\ Drift!CallsLeft' = Drift!CallsLeft
    BY <1>2, <1>3, <1>4, StatementsAdvance, StatementsAreCounted
  <2>2. QED
    BY <1>1, <2>1 DEF StepsLeft
<1>5. CASE EstimateStep
  <2>1. /\ pc = "estimate" /\ pc' = pc /\ Cost!Step /\ UNCHANGED <<state, here, held>>
    BY <1>5 DEF EstimateStep, inputVars, driftVars
  <2>2. CostLoop!TypeOK /\ CostLoop!Step
    BY <2>1, SameCostStep DEF RunInv, CostKnown, CostLoop!LoopInv
  <2>3. CostLoop!ChangesLeft' \in Int /\ CostLoop!ChangesLeft' < CostLoop!ChangesLeft
    BY <2>2, CostLoopAssumptions, CostLoop!EstimateAdvances
  <2>4. Cost!ChangesLeft' \in Int /\ Cost!ChangesLeft' < Cost!ChangesLeft
    BY <2>3 DEF CostLoop!ChangesLeft, Cost!ChangesLeft
  <2>5. QED
    BY <1>1, <1>3, <2>1, <2>4 DEF StepsLeft
<1>6. CASE DetectStep
  <2>1. pc' = pc /\ Drift!Detect /\ UNCHANGED <<plan, next, status>>
    BY <1>6 DEF DetectStep, costVars
  <2>2. DriftLoop!DriftInv /\ DriftLoop!Detect
    BY <2>1, SameDriftStep DEF RunInv, DriftKnown
  <2>3. DriftLoop!CallsLeft' \in Int /\ DriftLoop!CallsLeft' < DriftLoop!CallsLeft
    BY <2>2, DriftLoopAssumptions, DriftLoop!DetectUsesACall
  <2>4. Drift!CallsLeft' \in Int /\ Drift!CallsLeft' < Drift!CallsLeft
    BY <2>3 DEF DriftLoop!CallsLeft, Drift!CallsLeft
  <2>5. QED
    BY <1>1, <1>2, <2>1, <2>4 DEF StepsLeft
<1>7. CASE AwsChanges \/ DefaultFileChanges
  <2>1. UNCHANGED <<pc, plan, next, status, state, here, held>>
    BY <1>7 DEF AwsChanges, DefaultFileChanges, Drift!Edit, costVars, driftVars, inputVars
  <2>2. QED
    BY <1>2, <1>3, <1>7, <2>1 DEF StepsLeft
<1>8. QED
  BY <1>4, <1>5, <1>6, <1>7, StepsAre

\* However often AWS and the default policy file change around it, a run never
\* goes back and tries nothing again: each step it takes leaves fewer to come, so
\* it takes at most 16, one for each change of the plan and two for each resource
\* of the state.
THEOREM RunAlwaysAdvances ==
  Spec => /\ [](StepsLeft \in 0 .. 16 + Len(plan) + 2 * Len(state))
          /\ RunAdvances
<1>1. RunInv => StepsLeft \in 0 .. 16 + Len(plan) + 2 * Len(state)
  <2> SUFFICES ASSUME RunInv PROVE StepsLeft \in 0 .. 16 + Len(plan) + 2 * Len(state)
    OBVIOUS
  <2>1. pc \in Places
    BY DEF RunInv, ControlInv, ControlTypeOK
  <2>2. StatementsLeft[pc] \in 0 .. 15
    BY <2>1, StatementsAreCounted
  <2>3. /\ Len(plan) \in Nat /\ Cost!ChangesLeft \in 0 .. Len(plan) + 1
        /\ Len(state) \in Nat /\ Drift!CallsLeft \in 0 .. 2 * Len(state)
    BY LoopsAreCounted
  <2>4. QED
    BY <2>2, <2>3, ThreeCounts DEF StepsLeft
<1>2. RunInv /\ [Next]_vars =>
        [\/ StepsLeft' < StepsLeft
         \/ (AwsChanges \/ DefaultFileChanges) /\ StepsLeft' = StepsLeft]_vars
  BY StepAdvances
<1>3. QED
  BY <1>1, <1>2, RunHolds, PTL DEF Spec, RunAdvances
=============================================================================
