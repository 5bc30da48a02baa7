--------------------------- MODULE CostEstimator ---------------------------
(***************************************************************************)
(* core/cost.py: estimate() walks the changes of a plan in order and       *)
(* either prices a change (a line of the breakdown) or records why it      *)
(* cannot (an entry of unpriced); one action per path through the loop     *)
(* body, and Report for the code after the loop.                           *)
(*                                                                         *)
(* Money is counted in ticks, TicksPerCent of them to a cent, so that the  *)
(* rounding of a line to whole cents is visible.  Every product, sum and   *)
(* difference is rounded to the 28 significant digits of Python's decimal  *)
(* context: Precision stands for 10^28.  A tick is a power of ten of a     *)
(* dollar, so the digits of a price are those of its ticks.                *)
(***************************************************************************)
EXTENDS PlanActions, Functions, SequencesExt

CONSTANTS
    Plans,          \* the plans considered, each a sequence of changes
    Rates,          \* the snapshot: region -> service -> price key -> ticks
    HoursPerMonth,  \* 730 in the code
    TicksPerCent,   \* an even number, so that half a cent exists
    Precision       \* amounts below it have no digit to lose

VARIABLES
    plan,           \* the plan being priced, and
    region,         \* the region it is priced in: inputs, never written here
    next,           \* position of the change the loop looks at
    total,          \* running total, in cents
    breakdown,      \* sequence of [change, cents], in plan order
    unpriced,       \* sequence of [change, reason], in plan order
    status          \* "running", "reported", or "raised" (InvalidOperation)

vars == <<plan, region, next, total, breakdown, unpriced, status>>

-----------------------------------------------------------------------------
PricedTypes == {"aws_instance", "aws_ebs_volume", "aws_db_instance",
                "aws_nat_gateway", "aws_lb"}

Reasons == {"unsupported_type", "unknown_price_key", "attributes_unknown"}

ASSUME PlansAssumption == Plans \subseteq Seq(Changes)
ASSUME RatesAssumption ==
    \A r \in DOMAIN Rates : \A s \in DOMAIN Rates[r] : \A k \in DOMAIN Rates[r][s] :
        Rates[r][s][k] \in Nat
ASSUME MoneyAssumption ==
    /\ HoursPerMonth \in Nat
    /\ TicksPerCent \in Nat \ {0}
    /\ TicksPerCent % 2 = 0
    /\ Precision \in Nat
    /\ Precision >= 100         \* two digits; the code has 28

-----------------------------------------------------------------------------
Magnitude(n) == IF n < 0 THEN -n ELSE n

\* What the last digit that fits counts in an amount of this magnitude.
Unit[m \in Nat] == IF m < Precision THEN 1 ELSE 10 * Unit[m \div 10]

\* The decimal context: rounded half-even to the digits that fit.
ContextRound(n) ==
    LET unit    == Unit[Magnitude(n)]
        whole   == Magnitude(n) \div unit
        rest    == Magnitude(n) % unit
        rounded == IF 2 * rest > unit \/ (2 * rest = unit /\ whole % 2 = 1)
                   THEN unit * (whole + 1) ELSE unit * whole
    IN  IF Magnitude(n) < Precision THEN n
        ELSE IF n < 0 THEN -rounded ELSE rounded

\* The largest amount Decimal.quantize can return, in cents.
MaxCents == Precision - 1

Overflows(cents) == Magnitude(cents) > MaxCents

(***************************************************************************)
(* A quote is a price in ticks, as the code computes it, or the reason     *)
(* there is none; exact is the price without the rounding of the context,  *)
(* which only properties read.  Combining two quotes keeps the fault the   *)
(* code would have raised first.                                           *)
(***************************************************************************)
NoFault == "none"
Quote(ticks, exact) == [fault |-> NoFault, ticks |-> ticks, exact |-> exact]
Priced(ticks)  == Quote(ticks, ticks)
Faulty(reason) == [fault |-> reason,  ticks |-> 0, exact |-> 0]

Combined(p, q, ticks, exact) ==
    IF p.fault # NoFault THEN p ELSE IF q.fault # NoFault THEN q
    ELSE Quote(ContextRound(ticks), exact)

Times(p, q) == Combined(p, q, p.ticks * q.ticks, p.exact * q.exact)
Plus(p, q)  == Combined(p, q, p.ticks + q.ticks, p.exact + q.exact)
Minus(p, q) == Combined(p, q, p.ticks - q.ticks, p.exact - q.exact)

\* Unary minus, on a price that has the digits of the context already.
Negated(p) == [fault |-> p.fault, ticks |-> -p.ticks, exact |-> -p.exact]

\* Mutant: the guard of BUG-3 is missing, a negative size is multiplied out.
GigaBytes_Unchecked(size) == Priced(size)

\* _require_number: bool, text, NaN and infinities come as a negative size.
GigaBytes(size) == IF size < 0 THEN Faulty("attributes_unknown") ELSE Priced(size)

OrDefault(value, default) == IF value = Absent THEN default ELSE value

\* _rate of a key read by _require_str or _optional_str.
RateOf(service, key) ==
    IF key \in {Absent, Unknown} THEN Faulty("attributes_unknown")
    ELSE IF /\ service \in DOMAIN Rates[region]
            /\ key \in DOMAIN Rates[region][service]
         THEN Priced(Rates[region][service][key])
         ELSE Faulty("unknown_price_key")

PerMonth(rate)        == Times(rate, Priced(HoursPerMonth))
PerGB(service, attrs) == Times(RateOf(service, OrDefault(attrs.storage, "gp2")),
                               GigaBytes(attrs.size))

\* Monthly cost of one side of a change, unrounded.
MonthlyCost(type, attrs) ==
    IF attrs = Null THEN Faulty("attributes_unknown")
    ELSE CASE type = "aws_instance"    -> PerMonth(RateOf(type, attrs.key))
           [] type = "aws_ebs_volume"  -> PerGB(type, attrs)
           [] type = "aws_db_instance" ->
                Plus(Times(PerMonth(RateOf("aws_db_instance.instance", attrs.key)),
                           Priced(IF attrs.multi_az THEN 2 ELSE 1)),
                     PerGB("aws_db_instance.storage", attrs))
           [] type = "aws_nat_gateway" -> PerMonth(RateOf(type, "hourly"))
           [] type = "aws_lb"          ->
                PerMonth(RateOf(type, OrDefault(attrs.key, "application")))
           [] OTHER                    -> Faulty("unsupported_type")

\* Per-resource delta (R6).
Delta(change) ==
    CASE ClassOf(change) = "create" -> MonthlyCost(change.type, change.after)
      [] ClassOf(change) = "delete" -> Negated(MonthlyCost(change.type, change.before))
      [] OTHER -> Minus(MonthlyCost(change.type, change.after),
                        MonthlyCost(change.type, change.before))

\* Mutant: a reason the verdict schema does not list.
FaultOf_Undocumented(change) ==
    IF change.type \in PricedTypes THEN Delta(change).fault ELSE "unknown_type"

\* Why a change has no line in the breakdown, or NoFault.
FaultOf(change) ==
    IF change.type \in PricedTypes THEN Delta(change).fault ELSE "unsupported_type"

\* Mutants: rounding towards zero, and ties rounded towards plus infinity.
RoundHalfUp_Truncating(ticks) ==
    IF ticks < 0 THEN -(Magnitude(ticks) \div TicksPerCent) ELSE ticks \div TicksPerCent
RoundHalfUp_TiesUpwards(ticks) == (ticks + (TicksPerCent \div 2)) \div TicksPerCent

\* quantize(_CENTS, ROUND_HALF_UP): to the nearest cent, ties away from zero.
RoundHalfUp(ticks) ==
    LET cents == (Magnitude(ticks) + (TicksPerCent \div 2)) \div TicksPerCent
    IN  IF ticks < 0 THEN -cents ELSE cents

LineCents(change) == RoundHalfUp(Delta(change).ticks)

-----------------------------------------------------------------------------
LoopTypeOK ==
    /\ next \in 1 .. Len(plan) + 1
    /\ total \in Int
    /\ breakdown \in Seq([change : Nat, cents : Int])
    /\ unpriced \in Seq([change : Nat, reason : Reasons])
    /\ status \in {"running", "reported", "raised"}

TypeOK ==
    /\ plan \in Plans
    /\ region \in DOMAIN Rates
    /\ LoopTypeOK

\* What estimate() starts from.
LoopInit ==
    /\ next = 1
    /\ total = 0
    /\ breakdown = <<>>
    /\ unpriced = <<>>
    /\ status = "running"

Init ==
    /\ plan \in Plans
    /\ Summarizable(plan)       \* summarize_plan has accepted it
    /\ region \in DOMAIN Rates
    /\ LoopInit

\* The change the loop looks at, when its body runs for it.
Visiting(i) == status = "running" /\ next = i /\ i \in DOMAIN plan

\* Mutant: types without a price are skipped like excluded changes.
SkipExcluded_DropsUnsupported(i) ==
    /\ Visiting(i)
    /\ ClassOf(plan[i]) = Excluded \/ plan[i].type \notin PricedTypes
    /\ next' = next + 1
    /\ UNCHANGED <<plan, region, total, breakdown, unpriced, status>>

SkipExcluded(i) ==
    /\ Visiting(i)
    /\ ClassOf(plan[i]) = Excluded
    /\ next' = next + 1
    /\ UNCHANGED <<plan, region, total, breakdown, unpriced, status>>

RecordUnpriced(i) ==
    /\ Visiting(i)
    /\ ClassOf(plan[i]) \in ActionClass
    /\ FaultOf(plan[i]) # NoFault
    /\ unpriced' = Append(unpriced, [change |-> i, reason |-> FaultOf(plan[i])])
    /\ next' = next + 1
    /\ UNCHANGED <<plan, region, total, breakdown, status>>

\* Mutant: the line keeps its sign, the total does not.
Price_TotalsMagnitudes(i) ==
    /\ Visiting(i)
    /\ ClassOf(plan[i]) \in ActionClass
    /\ FaultOf(plan[i]) = NoFault
    /\ ~Overflows(LineCents(plan[i]))
    /\ breakdown' = Append(breakdown, [change |-> i, cents |-> LineCents(plan[i])])
    /\ total' = ContextRound(total + Magnitude(LineCents(plan[i])))
    /\ next' = next + 1
    /\ UNCHANGED <<plan, region, unpriced, status>>

Price(i) ==
    /\ Visiting(i)
    /\ ClassOf(plan[i]) \in ActionClass
    /\ FaultOf(plan[i]) = NoFault
    /\ ~Overflows(LineCents(plan[i]))
    /\ breakdown' = Append(breakdown, [change |-> i, cents |-> LineCents(plan[i])])
    /\ total' = ContextRound(total + LineCents(plan[i]))
    /\ next' = next + 1
    /\ UNCHANGED <<plan, region, unpriced, status>>

\* The line does not fit in the context: quantize raises and nothing catches it.
RaiseOnLine(i) ==
    /\ Visiting(i)
    /\ ClassOf(plan[i]) \in ActionClass
    /\ FaultOf(plan[i]) = NoFault
    /\ Overflows(LineCents(plan[i]))
    /\ status' = "raised"
    /\ UNCHANGED <<plan, region, next, total, breakdown, unpriced>>

AtEnd == status = "running" /\ next = Len(plan) + 1

Report ==
    /\ AtEnd
    /\ status' = IF Overflows(total) THEN "raised" ELSE "reported"
    /\ UNCHANGED <<plan, region, next, total, breakdown, unpriced>>

Step ==
    \/ \E i \in DOMAIN plan :
          SkipExcluded(i) \/ RecordUnpriced(i) \/ Price(i) \/ RaiseOnLine(i)
    \/ Report

Next == Step

Spec == Init /\ [][Next]_vars /\ WF_vars(Step)
-----------------------------------------------------------------------------
\* How many steps the loop has left: one for each change and one to report.
ChangesLeft == Len(plan) + 1 - next + (IF status = "running" THEN 1 ELSE 0)

\* Every classified change the loop has passed is accounted for exactly once,
\* as a line or as an unpriced entry, in plan order, and nothing else is: a
\* change is never silently dropped from the report (R7).
Accounted ==
    LET lines   == [n \in DOMAIN breakdown |-> breakdown[n].change]
        entries == [n \in DOMAIN unpriced |-> unpriced[n].change]
        Rising(s) == \A m, n \in DOMAIN s : m < n => s[m] < s[n]
    IN  /\ Rising(lines) /\ Rising(entries)
        /\ Range(lines) \cap Range(entries) = {}
        /\ Range(lines) \cup Range(entries) = {i \in Classified(plan) : i < next}

\* The sum of f over a finite set of positions.
SumOver(f(_), S) == SumFunction([i \in S |-> f(i)])

PricedPositions == {i \in Classified(plan) : FaultOf(plan[i]) = NoFault}

\* No partial sum of the plan's lines can leave the context.
SumsRepresentable ==
    SumOver(LAMBDA i : Magnitude(LineCents(plan[i])), PricedPositions) <= MaxCents

\* The reported total is the sum of the reported lines: what the limit gate
\* compares and what the breakdown shows a reader are the same money (R5, R6).
TotalIsSumOfLines ==
    (status = "reported" /\ SumsRepresentable) =>
        total = SumOver(LAMBDA n : breakdown[n].cents, DOMAIN breakdown)

\* What is priced of a change, both its sides, had nothing been rounded.
Gross(change) == MonthlyCost(change.type, change.before).exact
                   + MonthlyCost(change.type, change.after).exact

\* The reported total is close to the exact sum of the deltas of everything that
\* has a price: it is off by at most half a cent a line, and by 25 parts in 10^28
\* of all that is priced on either side.  The second part is what the difference
\* of two huge sides loses: it comes out as 0.00 without any error.
RoundingIsBounded ==
    (status = "reported" /\ SumsRepresentable) =>
        2 * Precision * Magnitude(TicksPerCent * total
                          - SumOver(LAMBDA i : Delta(plan[i]).exact, PricedPositions))
            <= Precision * TicksPerCent * Len(breakdown)
                 + 50 * SumOver(LAMBDA i : Gross(plan[i]), PricedPositions)

\* The change that undoes a change: its sides swapped, its actions reversed.
Undo(change) ==
    [change EXCEPT !.before = change.after, !.after = change.before,
                   !.actions = CASE ClassOf(change) = "create" -> <<"delete">>
                                 [] ClassOf(change) = "delete" -> <<"create">>
                                 [] OTHER -> Reverse(change.actions)]

\* Applying a plan and then undoing it costs nothing: the plan with every
\* change undone prices the same changes and totals the opposite amount, to
\* the cent.  Rounding ties away from zero is what makes this true.
UndoCostsTheOpposite ==
    (status = "reported" /\ SumsRepresentable) =>
        /\ total = -SumOver(LAMBDA i : LineCents(Undo(plan[i])), PricedPositions)
        /\ \A i \in Classified(plan) :
              (FaultOf(Undo(plan[i])) = NoFault) = (i \in PricedPositions)

\* Creating never lowers the bill and deleting never raises it, so no created
\* resource offsets the cost of another under the limit gate (R14, BUG-3).
SignsFollowActions ==
    \A n \in DOMAIN breakdown :
        /\ ClassOf(plan[breakdown[n].change]) = "create" => breakdown[n].cents >= 0
        /\ ClassOf(plan[breakdown[n].change]) = "delete" => breakdown[n].cents <= 0

\* "A very large (but finite) size stays exact Decimal math" and does not
\* crash (tests/test_r7_unpriced.py): estimate() raises on no plan.
HugeSizeDoesNotCrash == status # "raised"
=============================================================================
