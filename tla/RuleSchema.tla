----------------------------- MODULE RuleSchema -----------------------------
(***************************************************************************)
(* The rules of the rule engine: which ones the schema accepts, what       *)
(* evaluateRule says of a value, and when a device counts as silent.       *)
(* Numbers are integers; a field absent from rules.json is Undefined.      *)
(***************************************************************************)
EXTENDS Integers

CONSTANTS
    Undefined,  \* an absent optional field
    Infinity    \* a number above every value and every bound in a rule

RangeOperators == {"outside", "inside"}
Operators == {"gt", "gte", "lt", "lte"} \union RangeOperators

\* The refinement of ThresholdRuleSchema: an operator comes with its bounds.
Accepts(rule) ==
    IF rule.operator \in RangeOperators
    THEN rule.min # Undefined /\ rule.max # Undefined
    ELSE rule.threshold # Undefined

OrElse(field, default) == IF field = Undefined THEN default ELSE field
LowerBound(rule) == OrElse(rule.min, -Infinity)
UpperBound(rule) == OrElse(rule.max, Infinity)
Threshold(rule) == OrElse(rule.threshold, 0)

\* Does the value breach the rule?
Breaches(rule, value) ==
    CASE rule.operator = "outside" -> value < LowerBound(rule) \/ value > UpperBound(rule)
      [] rule.operator = "inside"  -> value >= LowerBound(rule) /\ value <= UpperBound(rule)
      [] rule.operator = "gt"      -> value > Threshold(rule)
      [] rule.operator = "gte"     -> value >= Threshold(rule)
      [] rule.operator = "lt"      -> value < Threshold(rule)
      [] OTHER                     -> value <= Threshold(rule)

\* Variant: the bounds swapped.
ReportedFarBound(rule, value) ==
    IF rule.operator \in RangeOperators
    THEN IF value < LowerBound(rule) THEN UpperBound(rule) ELSE LowerBound(rule)
    ELSE Threshold(rule)

\* The bound the alert reports next to the value.
ReportedThreshold(rule, value) ==
    IF rule.operator \in RangeOperators
    THEN IF value < LowerBound(rule) THEN LowerBound(rule) ELSE UpperBound(rule)
    ELSE Threshold(rule)

\* Variant: seconds rounded to the nearest.
IsSilentRounded(ageMs, silenceSeconds) == (ageMs + 500) \div 1000 >= silenceSeconds

\* A connectivity rule: whole seconds since last_seen, against silenceSeconds.
IsSilent(ageMs, silenceSeconds) == ageMs \div 1000 >= silenceSeconds

=============================================================================
