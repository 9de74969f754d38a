-------------------------- MODULE EvaluationProofs --------------------------
(***************************************************************************)
(* What the stateless functions promise, for every argument: evaluateRule, *)
(* the status of a device and the connectivity rule, the series and the    *)
(* lists of the query API and its two interfaces, and the contract between *)
(* the simulator and the subscriber.                                       *)
(***************************************************************************)
EXTENDS MCEvaluation, TLAPS, SequenceTheorems, FiniteSetTheorems, WellFoundedInduction

-----------------------------------------------------------------------------
(* Calls.  A call stays what it was, and its name says of which set it is. *)

LEMMA CallsStay == Spec => []Init
<1>1. Init /\ [Done]_call => Init'
  BY DEF Init, Done
<1> QED BY <1>1, PTL DEF Spec

LEMMA CallOfName ==
    ASSUME Init
    PROVE  /\ call.fn = "evaluateRule" => call \in RuleCalls
           /\ call.fn = "status" => call \in StatusCalls
           /\ call.fn = "createFleet" => call \in FleetCalls
           /\ call.fn = "tick" => call \in TickCalls
           /\ call.fn = "message" => call \in MessageCalls
           /\ call.fn = "series" => call \in SeriesCalls
           /\ call.fn = "alerts" => call \in AlertCalls
           /\ call.fn = "devices" => call \in DeviceCalls
           /\ call.fn = "question" => call \in QuestionCalls
<1>1. call \in RuleCalls => call.fn = "evaluateRule"
  BY DEF RuleCalls
<1>2. call \in StatusCalls => call.fn = "status"
  BY DEF StatusCalls
<1>3. call \in SeriesCalls => call.fn = "series"
  BY DEF SeriesCalls
<1>4. call \in AlertCalls => call.fn = "alerts"
  BY DEF AlertCalls
<1>5. call \in QuestionCalls => call.fn = "question"
  BY DEF QuestionCalls
<1>6. call \in MessageCalls => call.fn = "message"
  BY DEF MessageCalls
<1>7. call \in FleetCalls => call.fn = "createFleet"
  BY DEF FleetCalls
<1>8. call \in TickCalls => call.fn = "tick"
  BY DEF TickCalls
<1>9. call \in DeviceCalls => call.fn = "devices"
  BY DEF DeviceCalls
<1> QED
  BY <1>1, <1>2, <1>3, <1>4, <1>5, <1>6, <1>7, <1>8, <1>9 DEF Init

-----------------------------------------------------------------------------
(* evaluateRule.                                                           *)

\* Every rule of the schema, with any bounds.
AnyField == Int \union {Undefined}
AnyRule == [operator : Operators, threshold : AnyField, min : AnyField, max : AnyField]

\* What a breach of a rule says of the value and the bound reported with it.
LEMMA BreachExplained ==
    ASSUME NEW rule \in AnyRule, Accepts(rule), NEW value \in Int, Breaches(rule, value),
           NEW bound, bound = ReportedThreshold(rule, value)
    PROVE  /\ rule.operator = "outside" =>
                \/ bound = rule.min /\ value < bound
                \/ bound = rule.max /\ value > bound
           /\ rule.operator \in {"gt", "gte"} => value >= bound
           /\ rule.operator \in {"lt", "lte"} => value <= bound
<1>0. /\ rule.operator \in Operators /\ rule.threshold \in Int \union {Undefined}
      /\ rule.min \in Int \union {Undefined} /\ rule.max \in Int \union {Undefined}
  BY DEF AnyRule, AnyField
<1>1. CASE rule.operator = "outside"
  <2>1. rule.min \in Int /\ rule.max \in Int
    BY <1>0, <1>1 DEF Accepts, RangeOperators
  <2>2. LowerBound(rule) = rule.min /\ UpperBound(rule) = rule.max
    BY <2>1, EvaluationAssumption DEF LowerBound, UpperBound, OrElse
  <2>3. value < rule.min \/ value > rule.max
    BY <1>1, <2>2 DEF Breaches
  <2>4. bound = IF value < rule.min THEN rule.min ELSE rule.max
    BY <1>1, <2>2 DEF ReportedThreshold, RangeOperators
  <2> QED BY <1>1, <2>1, <2>3, <2>4
<1>2. CASE rule.operator \in {"gt", "gte", "lt", "lte"}
  <2>1. rule.threshold \in Int
    BY <1>0, <1>2 DEF Accepts, RangeOperators
  <2>2. Threshold(rule) = rule.threshold /\ bound = rule.threshold
    BY <1>2, <2>1, EvaluationAssumption
       DEF Threshold, OrElse, ReportedThreshold, RangeOperators
  <2> QED BY <1>2, <2>1, <2>2 DEF Breaches
<1> QED BY <1>0, <1>1, <1>2 DEF Operators, RangeOperators

\* AlertExplainsItself: whatever rule the schema accepts, with whatever bounds, a
\* value that breaches it lies on the breaching side of the bound that
\* evaluateRule reports with it.
THEOREM BreachesAreExplained ==
    /\ \A rule \in AnyRule, value \in Int : Accepts(rule) => Explained(rule, value)
    /\ Spec => []AlertExplainsItself
<1>1. ASSUME NEW rule \in AnyRule, NEW value \in Int, Accepts(rule)
      PROVE  Explained(rule, value)
  <2> SUFFICES ASSUME Breaches(rule, value) PROVE Explained(rule, value)
    BY DEF Explained
  <2>1. PICK bound : bound = ReportedThreshold(rule, value)
    OBVIOUS
  <2>2. /\ rule.operator = "outside" =>
             \/ bound = rule.min /\ value < bound
             \/ bound = rule.max /\ value > bound
        /\ rule.operator \in {"gt", "gte"} => value >= bound
        /\ rule.operator \in {"lt", "lte"} => value <= bound
    BY <1>1, <2>1, BreachExplained
  <2>3. rule.operator \in {"outside", "inside", "gt", "gte", "lt", "lte"}
    BY DEF AnyRule, Operators, RangeOperators
  <2> QED BY <2>1, <2>2, <2>3 DEF Explained
<1>2. Init => AlertExplainsItself
  <2> SUFFICES ASSUME Init, Evaluates PROVE Explained(call.rule, call.value)
    BY DEF AlertExplainsItself
  <2>1. call \in RuleCalls
    BY CallOfName DEF Evaluates
  <2>2. call.rule \in Rules /\ Accepts(call.rule) /\ call.value \in Values
    BY <2>1 DEF RuleCalls
  <2>3. Rules \subseteq AnyRule /\ Values \subseteq Int
    BY EvaluationAssumption DEF Rules, AnyRule, Fields, AnyField, Bounds, Values
  <2> QED BY <1>1, <2>2, <2>3
<1>3. Spec => []AlertExplainsItself
  BY <1>2, CallsStay, PTL
<1> QED BY <1>1, <1>3

-----------------------------------------------------------------------------
(* The status of a device and the connectivity rule.                       *)

\* Whole seconds since last_seen, against a threshold in whole seconds.
LEMMA WholeSeconds ==
    ASSUME NEW ageMs \in Int, NEW thresholdMs \in Int, thresholdMs % 1000 = 0
    PROVE  (ageMs \div 1000 >= thresholdMs \div 1000) <=> (ageMs >= thresholdMs)
OBVIOUS

\* StatusAgreesWithSweep: with a threshold of whole seconds, the same for both, the
\* API shows a device of any age OFFLINE when the sweep holds it silent, but for
\* one that is as old as the threshold to the millisecond, and only then.
THEOREM OfflineIsSilent ==
    ASSUME OFFLINE_THRESHOLD_MS \in Nat, OFFLINE_THRESHOLD_MS % 1000 = 0
    PROVE  /\ \A ageMs \in Int : Agreed(ageMs)
           /\ Spec => []StatusAgreesWithSweep
<1>1. ASSUME NEW ageMs \in Int PROVE Agreed(ageMs)
  <2>1. IsSilent(ageMs, OFFLINE_THRESHOLD_MS \div 1000) <=> ageMs >= OFFLINE_THRESHOLD_MS
    BY WholeSeconds DEF IsSilent
  <2>2. Status(ageMs) = "OFFLINE" <=> ageMs > OFFLINE_THRESHOLD_MS
    BY DEF Status
  <2> QED BY <2>1, <2>2 DEF Agreed
<1>2. Ages \subseteq Int
  <2>1. \A s \in -1 .. 62 : (s * 1000 - 1) .. (s * 1000 + 1) \subseteq Int
    OBVIOUS
  <2>2. {s * 1000 + 500 : s \in 58 .. 61} \subseteq Int
    OBVIOUS
  <2> SUFFICES ASSUME NEW age \in Ages PROVE age \in Int
    OBVIOUS
  <2>3. CASE \E s \in -1 .. 62 : age \in (s * 1000 - 1) .. (s * 1000 + 1)
    BY <2>1, <2>3
  <2>4. CASE age \in {s * 1000 + 500 : s \in 58 .. 61}
    BY <2>2, <2>4
  <2>5. \/ age \in UNION {(s * 1000 - 1) .. (s * 1000 + 1) : s \in -1 .. 62}
        \/ age \in {s * 1000 + 500 : s \in 58 .. 61}
    BY DEF Ages
  <2> QED BY <2>3, <2>4, <2>5
<1>3. Init => StatusAgreesWithSweep
  <2> SUFFICES ASSUME Init, call.fn = "status" PROVE Agreed(call.ageMs)
    BY DEF StatusAgreesWithSweep
  <2>1. PICK age \in Ages : age = call.ageMs
    BY CallOfName DEF StatusCalls
  <2>2. age \in Int
    BY <1>2
  <2>3. Agreed(age)
    BY <1>1, <2>2
  <2> QED BY <2>1, <2>3
<1>4. Spec => []StatusAgreesWithSweep
  BY <1>3, CallsStay, PTL
<1> QED BY <1>1, <1>4

-----------------------------------------------------------------------------
(* Order.  ORDER BY and LIMIT, for any finite set of rows with numbers as  *)
(* keys: OrderBy is read as a recursion over its subsets.                  *)

LEMMA Least ==
    ASSUME NEW T, T \subseteq Nat, T # {}
    PROVE  \E x \in T : \A y \in T : x <= y
<1>1. PICK x \in T : \A y \in T : ~ (<<y, x>> \in OpToRel(<, Nat))
  BY NatLessThanWellFounded, WFMin, Zenon
<1>2. \A y \in T : ~ (y < x)
  BY <1>1 DEF OpToRel
<1> QED BY <1>2

LEMMA Induction ==
    ASSUME NEW S, 0 \in S, \A n \in Nat : n \in S => n + 1 \in S
    PROVE  Nat \subseteq S
<1> SUFFICES ASSUME Nat \ S # {} PROVE FALSE
  OBVIOUS
<1>1. PICK x \in Nat \ S : \A y \in Nat \ S : x <= y
  BY Least
<1> QED BY <1>1

\* Keys by which rows can be ordered.
IsKey(key, rows) == \A r \in rows : key[r] \in Int

\* The subsets of rows with at most n members.
Sizes(rows, n) == {S \in SUBSET rows : Cardinality(S) <= n}

LEMMA SubsetsFinite ==
    ASSUME NEW rows, IsFiniteSet(rows), NEW S \in SUBSET rows
    PROVE  IsFiniteSet(S) /\ Cardinality(S) \in Nat /\ (Cardinality(S) = 0 <=> S = {})
<1>1. IsFiniteSet(S)
  BY FS_Subset
<1> QED BY <1>1, FS_CardinalityType, FS_EmptySet

LEMMA OneLess ==
    ASSUME NEW rows, IsFiniteSet(rows), NEW n \in Nat, NEW S \in Sizes(rows, n + 1),
           NEW r \in S
    PROVE  S \ {r} \in Sizes(rows, n)
<1>1. S \in SUBSET rows /\ Cardinality(S) <= n + 1
  BY DEF Sizes
<1>2. IsFiniteSet(S) /\ Cardinality(S) \in Nat
  BY <1>1, SubsetsFinite
<1>3. Cardinality(S \ {r}) = Cardinality(S) - 1
  BY <1>2, FS_RemoveElement
<1> QED BY <1>1, <1>2, <1>3 DEF Sizes

LEMMA LeastKey ==
    ASSUME NEW rows, IsFiniteSet(rows), NEW key, IsKey(key, rows)
    PROVE  \A S \in SUBSET rows : S # {} => \E r \in S : \A s \in S : key[r] <= key[s]
<1> DEFINE HasLeast(S) == S # {} => \E r \in S : \A s \in S : key[r] <= key[s]
           Good == {n \in Nat : \A S \in Sizes(rows, n) : HasLeast(S)}
<1>1. 0 \in Good
  <2> SUFFICES ASSUME NEW S \in Sizes(rows, 0) PROVE S = {}
    OBVIOUS
  <2>1. S \in SUBSET rows /\ Cardinality(S) <= 0
    BY DEF Sizes
  <2> QED BY <2>1, SubsetsFinite
<1>2. ASSUME NEW n \in Nat, n \in Good PROVE n + 1 \in Good
  <2> SUFFICES ASSUME NEW S \in Sizes(rows, n + 1), S # {}
               PROVE  \E r \in S : \A s \in S : key[r] <= key[s]
    OBVIOUS
  <2>1. PICK q : q \in S
    OBVIOUS
  <2>2. S \ {q} \in Sizes(rows, n)
    BY <2>1, OneLess
  <2>3. HasLeast(S \ {q})
    BY <1>2, <2>2
  <2>4. \A s \in S : key[s] \in Int
    BY DEF Sizes, IsKey
  <2>5. CASE S \ {q} = {}
    BY <2>1, <2>4, <2>5
  <2>6. CASE S \ {q} # {}
    <3>1. PICK p \in S \ {q} : \A s \in S \ {q} : key[p] <= key[s]
      BY <2>3, <2>6
    <3>2. CASE key[p] <= key[q]
      BY <2>1, <3>1, <3>2
    <3>3. CASE key[q] <= key[p]
      BY <2>1, <2>4, <3>1, <3>3
    <3> QED BY <2>1, <2>4, <3>2, <3>3
  <2> QED BY <2>5, <2>6
<1> HIDE DEF Good
<1>3. Nat \subseteq Good
  BY <1>1, <1>2, Induction
<1> USE DEF Good
<1> SUFFICES ASSUME NEW S \in SUBSET rows PROVE HasLeast(S)
  OBVIOUS
<1>4. Cardinality(S) \in Nat
  BY SubsetsFinite
<1>5. S \in Sizes(rows, Cardinality(S))
  BY <1>4 DEF Sizes
<1> QED BY <1>3, <1>4, <1>5

LEMMA FirstIsLeast ==
    ASSUME NEW rows, IsFiniteSet(rows), NEW key, IsKey(key, rows),
           NEW S \in SUBSET rows, S # {}
    PROVE  First(S, key) \in S /\ \A s \in S : key[First(S, key)] <= key[s]
BY LeastKey, Zenon DEF First

\* f is the function OrderBy recurs through, over the sets in D.
Recurs(f, D, key) ==
    f = [S \in D |-> IF S = {} THEN << >> ELSE <<First(S, key)>> \o f[S \ {First(S, key)}]]

LEMMA RecursiveFunction ==
    ASSUME NEW rows, IsFiniteSet(rows), NEW key, IsKey(key, rows)
    PROVE  \E f : Recurs(f, SUBSET rows, key)
<1> DEFINE Good == {n \in Nat : \E f : Recurs(f, Sizes(rows, n), key)}
<1>1. 0 \in Good
  <2>1. Sizes(rows, 0) = {{}}
    BY SubsetsFinite, FS_EmptySet DEF Sizes
  <2>2. PICK f : f = [S \in Sizes(rows, 0) |-> << >>]
    OBVIOUS
  <2>3. Recurs(f, Sizes(rows, 0), key)
    BY <2>1, <2>2, Zenon DEF Recurs
  <2> QED BY <2>3
<1>2. ASSUME NEW n \in Nat, n \in Good PROVE n + 1 \in Good
  <2>1. PICK f : Recurs(f, Sizes(rows, n), key)
    BY <1>2
  <2>2. PICK g : g = [S \in Sizes(rows, n + 1) |->
                        IF S = {} THEN << >>
                        ELSE <<First(S, key)>> \o f[S \ {First(S, key)}]]
    OBVIOUS
  <2>3. Sizes(rows, n) \subseteq Sizes(rows, n + 1)
    BY SubsetsFinite DEF Sizes
  <2>4. \A S \in Sizes(rows, n) : g[S] = f[S]
    BY <2>1, <2>2, <2>3, Zenon DEF Recurs
  <2>5. ASSUME NEW S \in Sizes(rows, n + 1), S # {}
        PROVE  g[S \ {First(S, key)}] = f[S \ {First(S, key)}]
    <3>1. S \in SUBSET rows
      BY DEF Sizes
    <3>2. First(S, key) \in S
      BY <2>5, <3>1, FirstIsLeast
    <3>3. S \ {First(S, key)} \in Sizes(rows, n)
      BY <3>2, OneLess
    <3> QED BY <2>4, <3>3
  <2>6. \A S \in Sizes(rows, n + 1) :
            (IF S = {} THEN << >> ELSE <<First(S, key)>> \o f[S \ {First(S, key)}]) =
            (IF S = {} THEN << >> ELSE <<First(S, key)>> \o g[S \ {First(S, key)}])
    BY <2>5, Zenon
  <2>7. Recurs(g, Sizes(rows, n + 1), key)
    BY <2>2, <2>6, Zenon DEF Recurs
  <2> QED BY <2>7
<1> HIDE DEF Good
<1>3. Nat \subseteq Good
  BY <1>1, <1>2, Induction
<1>4. Cardinality(rows) \in Nat
  BY FS_CardinalityType
<1>5. SUBSET rows = Sizes(rows, Cardinality(rows))
  BY FS_Subset DEF Sizes
<1> QED BY <1>3, <1>4, <1>5 DEF Good

\* The members of S, each once, by their keys.
Sorts(s, S, key) ==
    /\ s \in Seq(S)
    /\ S = {s[i] : i \in DOMAIN s}
    /\ \A i, j \in DOMAIN s : i < j => s[i] # s[j] /\ key[s[i]] <= key[s[j]]

LEMMA SortsOneMore ==
    ASSUME NEW S, NEW key, NEW x \in S, \A y \in S : key[x] <= key[y],
           NEW s, Sorts(s, S \ {x}, key)
    PROVE  Sorts(<<x>> \o s, S, key)
<1>0. s \in Seq(S \ {x}) /\ S \ {x} = {s[i] : i \in DOMAIN s}
  BY DEF Sorts
<1>1. s \in Seq(S) /\ <<x>> \in Seq(S) /\ Len(<<x>>) = 1
  BY <1>0, SeqMonotonic
<1>a. Len(s) \in Nat /\ DOMAIN s = 1 .. Len(s) /\ <<x>>[1] = x
  BY <1>1
<1>2. PICK t : t = <<x>> \o s
  OBVIOUS
<1>3. /\ t \in Seq(S) /\ Len(t) = 1 + Len(s)
      /\ \A i \in 1 .. 1 + Len(s) : t[i] = IF i <= 1 THEN <<x>>[i] ELSE s[i - 1]
  BY <1>1, <1>2, ConcatProperties
<1>4. DOMAIN t = 1 .. Len(t) /\ t[1] = x /\ \A i \in 2 .. 1 + Len(s) : t[i] = s[i - 1]
  BY <1>3, <1>a
<1>5. \A i \in 2 .. Len(t) : i - 1 \in DOMAIN s
  BY <1>3, <1>a
<1>6. \A i \in 1 .. Len(s) : s[i] # x /\ s[i] \in S
  BY <1>0, <1>a
<1>7. S = {t[i] : i \in DOMAIN t}
  <2>1. ASSUME NEW y \in S PROVE \E i \in DOMAIN t : t[i] = y
    <3>1. CASE y = x
      BY <1>3, <1>4, <1>a, <3>1
    <3>2. CASE y # x
      <4>1. PICK i \in 1 .. Len(s) : y = s[i]
        BY <1>0, <1>a, <3>2
      <4>2. i + 1 \in 2 .. 1 + Len(s) /\ (i + 1) - 1 = i
        BY <1>a, <4>1
      <4>3. t[i + 1] = y
        BY <1>4, <4>1, <4>2
      <4> QED BY <1>3, <1>4, <1>a, <4>2, <4>3
    <3> QED BY <3>1, <3>2
  <2>2. \A i \in DOMAIN t : t[i] \in S
    BY <1>3, <1>4
  <2> QED BY <2>1, <2>2
<1>8. ASSUME NEW i \in DOMAIN t, NEW j \in DOMAIN t, i < j
      PROVE  t[i] # t[j] /\ key[t[i]] <= key[t[j]]
  <2>1. i \in 1 .. 1 + Len(s) /\ j \in 2 .. 1 + Len(s) /\ j - 1 \in 1 .. Len(s)
    BY <1>3, <1>4, <1>8, <1>a
  <2>2. t[j] = s[j - 1] /\ t[j] # x /\ t[j] \in S
    BY <1>4, <1>6, <2>1
  <2>3. CASE i = 1
    BY <1>4, <2>2, <2>3
  <2>4. CASE i # 1
    <3>1. i \in 2 .. 1 + Len(s) /\ i - 1 \in 1 .. Len(s) /\ i - 1 < j - 1
      BY <1>8, <1>a, <2>1, <2>4
    <3>2. t[i] = s[i - 1]
      BY <1>4, <3>1
    <3>3. s[i - 1] # s[j - 1] /\ key[s[i - 1]] <= key[s[j - 1]]
      BY <1>a, <2>1, <3>1 DEF Sorts
    <3> QED BY <2>2, <3>2, <3>3
  <2> QED BY <2>3, <2>4
<1>9. Sorts(t, S, key)
  BY <1>3, <1>7, <1>8, Zenon DEF Sorts
<1> QED BY <1>2, <1>9

LEMMA OrderBySorts ==
    ASSUME NEW rows, IsFiniteSet(rows), NEW key, IsKey(key, rows)
    PROVE  Sorts(OrderBy(rows, key), rows, key)
<1>1. PICK f : f = CHOOSE g : Recurs(g, SUBSET rows, key)
  OBVIOUS
<1>2. Recurs(f, SUBSET rows, key)
  BY <1>1, RecursiveFunction, Zenon
<1>3. OrderBy(rows, key) = f[rows]
  BY <1>1, Zenon DEF OrderBy, Recurs
<1> DEFINE Good == {n \in Nat : \A S \in Sizes(rows, n) : Sorts(f[S], S, key)}
<1>4. \A S \in SUBSET rows : S = {} => Sorts(f[S], S, key)
  <2> SUFFICES Sorts(f[{}], {}, key)
    OBVIOUS
  <2>1. f[{}] = << >>
    BY <1>2, Zenon DEF Recurs
  <2> QED BY <2>1 DEF Sorts
<1>5. 0 \in Good
  BY <1>4, SubsetsFinite DEF Sizes
<1>6. ASSUME NEW n \in Nat, n \in Good PROVE n + 1 \in Good
  <2> SUFFICES ASSUME NEW S \in Sizes(rows, n + 1) PROVE Sorts(f[S], S, key)
    OBVIOUS
  <2>1. S \in SUBSET rows
    BY DEF Sizes
  <2> SUFFICES ASSUME S # {} PROVE Sorts(f[S], S, key)
    BY <1>4, <2>1
  <2>2. PICK x : x = First(S, key)
    OBVIOUS
  <2>3. x \in S /\ \A s \in S : key[x] <= key[s]
    BY <2>1, <2>2, FirstIsLeast
  <2>4. f[S] = <<x>> \o f[S \ {x}]
    BY <1>2, <2>1, <2>2, Zenon DEF Recurs
  <2>5. Sorts(f[S \ {x}], S \ {x}, key)
    BY <1>6, <2>3, OneLess
  <2> QED BY <2>3, <2>4, <2>5, SortsOneMore
<1> HIDE DEF Good
<1>7. Nat \subseteq Good
  BY <1>5, <1>6, Induction
<1>8. rows \in Sizes(rows, Cardinality(rows)) /\ Cardinality(rows) \in Nat
  BY FS_CardinalityType DEF Sizes
<1> QED BY <1>3, <1>7, <1>8 DEF Good

LEMMA TakesFirst ==
    ASSUME NEW S, NEW s \in Seq(S), NEW n \in Nat
    PROVE  /\ Take(s, n) \in Seq(S)
           /\ \A i \in DOMAIN Take(s, n) : i \in DOMAIN s /\ Take(s, n)[i] = s[i]
           /\ Len(Take(s, n)) < n => Take(s, n) = s
           /\ Len(Take(s, n)) <= n
           /\ \A i \in DOMAIN s : i \notin DOMAIN Take(s, n) => i > n
<1>1. PICK m : m = IF Len(s) < n THEN Len(s) ELSE n
  OBVIOUS
<1>2. m \in Nat /\ m <= Len(s) /\ m <= n /\ (m = Len(s) \/ m = n) /\ Len(s) \in Nat
  BY <1>1
<1>3. PICK t : t = SubSeq(s, 1, m)
  OBVIOUS
<1>4. \A i \in 1 .. m : s[i] \in S
  BY <1>2, ElementOfSeq
<1>5. t \in Seq(S) /\ Len(t) = m /\ \A i \in 1 .. m : t[i] = s[i]
  BY <1>2, <1>3, <1>4, SubSeqProperties
<1>6. DOMAIN t = 1 .. m /\ DOMAIN s = 1 .. Len(s)
  BY <1>5
<1>7. Take(s, n) = t
  BY <1>1, <1>3 DEF Take
<1>8. m < n => t = s
  BY <1>2, <1>3, SubSeqFull
<1>9. ASSUME NEW i \in DOMAIN t PROVE i \in DOMAIN s /\ t[i] = s[i]
  <2>1. i \in 1 .. m
    BY <1>6, Zenon
  <2>2. t[i] = s[i] /\ i \in 1 .. Len(s)
    BY <1>2, <1>5, <2>1
  <2> QED BY <1>6, <2>2, Zenon
<1>10. ASSUME NEW i \in DOMAIN s, i \notin DOMAIN t PROVE i > n
  <2>1. i \in 1 .. Len(s) /\ i \notin 1 .. m
    BY <1>6, <1>10, Zenon
  <2> QED BY <1>2, <2>1
<1>11. (Len(t) < n => t = s) /\ Len(t) <= n
  BY <1>2, <1>5, <1>8
<1> QED BY <1>5, <1>7, <1>9, <1>10, <1>11, Zenon

\* The first n of what Sorts: the ones left out have no lesser keys.
LEMMA FirstByKey ==
    ASSUME NEW S, NEW key, NEW s, Sorts(s, S, key), NEW n \in Nat,
           NEW t, t = Take(s, n)
    PROVE  /\ t \in Seq(S)
           /\ \A x \in S : x \notin ItemsOf(t) =>
                 Len(t) = n /\ \A i \in DOMAIN t : key[t[i]] <= key[x]
           /\ \A i, j \in DOMAIN t : i < j => key[t[i]] <= key[t[j]]
<1>1. /\ s \in Seq(S) /\ S = {s[i] : i \in DOMAIN s}
      /\ \A i, j \in DOMAIN s : i < j => key[s[i]] <= key[s[j]]
  BY Zenon DEF Sorts
<1>3. /\ t \in Seq(S)
      /\ \A i \in DOMAIN t : i \in DOMAIN s /\ t[i] = s[i]
      /\ Len(t) < n => t = s
      /\ Len(t) <= n
      /\ \A i \in DOMAIN s : i \notin DOMAIN t => i > n
  BY <1>1, TakesFirst
<1>4. DOMAIN t = 1 .. Len(t) /\ Len(t) \in Nat /\ DOMAIN s = 1 .. Len(s) /\ Len(s) \in Nat
  BY <1>1, <1>3
<1>5. ASSUME NEW x \in S, x \notin ItemsOf(t)
      PROVE  Len(t) = n /\ \A i \in DOMAIN t : key[t[i]] <= key[x]
  <2>1. PICK k \in DOMAIN s : x = s[k]
    BY <1>1
  <2>2. k \notin DOMAIN t
    BY <1>3, <1>5, <2>1, Zenon DEF ItemsOf
  <2>3. Len(t) = n
    <3>1. t # s
      BY <2>1, <2>2
    <3>2. ~(Len(t) < n) /\ Len(t) <= n
      BY <1>3, <3>1, Zenon
    <3>3. ~(Len(t) < n) /\ Len(t) <= n /\ Len(t) \in Nat => Len(t) = n
      OBVIOUS
    <3> QED BY <1>4, <3>2, <3>3, Zenon
  <2>4. ASSUME NEW i \in DOMAIN t PROVE key[t[i]] <= key[x]
    <3>1. i < k
      BY <1>3, <1>4, <2>1, <2>2
    <3> QED BY <1>1, <1>3, <2>1, <3>1
  <2> QED BY <2>3, <2>4
<1>6. \A i, j \in DOMAIN t : i < j => key[t[i]] <= key[t[j]]
  BY <1>1, <1>3
<1> QED BY <1>3, <1>5, <1>6

LEMMA InRangeFinite ==
    ASSUME NEW S, NEW a \in Int, NEW b \in Int, S \subseteq a .. b
    PROVE  IsFiniteSet(S)
<1>1. IsFiniteSet(a .. b)
  BY FS_Interval
<1> QED BY <1>1, FS_Subset

LEMMA FiniteAlerts ==
    ASSUME NEW A, NEW B, IsFiniteSet(A), IsFiniteSet(B)
    PROVE  IsFiniteSet([device : A, time : B])
<1>1. PICK f : f = [p \in A \X B |-> [device |-> p[1], time |-> p[2]]]
  OBVIOUS
<1>2. f \in Surjection(A \X B, [device : A, time : B])
  <2>1. \A p \in A \X B : f[p] \in [device : A, time : B]
    BY <1>1
  <2>2. f \in [A \X B -> [device : A, time : B]]
    BY <1>1, <2>1
  <2>3. ASSUME NEW r \in [device : A, time : B] PROVE \E p \in A \X B : f[p] = r
    <3>1. <<r.device, r.time>> \in A \X B
      OBVIOUS
    <3>2. f[<<r.device, r.time>>] = r
      BY <1>1, <3>1
    <3> QED BY <3>1, <3>2
  <2> QED BY <2>2, <2>3 DEF Surjection
<1> QED BY <1>2, FS_Product, FS_Surjection

LEMMA FiniteReadings ==
    ASSUME NEW A, NEW B, NEW C, IsFiniteSet(A), IsFiniteSet(B), IsFiniteSet(C)
    PROVE  IsFiniteSet([time : A, value : B, arrived : C])
<1>1. PICK f : f = [p \in (A \X B) \X C |->
                       [time |-> p[1][1], value |-> p[1][2], arrived |-> p[2]]]
  OBVIOUS
<1>2. f \in Surjection((A \X B) \X C, [time : A, value : B, arrived : C])
  <2>1. \A p \in (A \X B) \X C : f[p] \in [time : A, value : B, arrived : C]
    BY <1>1
  <2>2. f \in [(A \X B) \X C -> [time : A, value : B, arrived : C]]
    BY <1>1, <2>1
  <2>3. ASSUME NEW r \in [time : A, value : B, arrived : C]
        PROVE  \E p \in (A \X B) \X C : f[p] = r
    <3>1. <<<<r.time, r.value>>, r.arrived>> \in (A \X B) \X C
      OBVIOUS
    <3>2. f[<<<<r.time, r.value>>, r.arrived>>] = r
      BY <1>1, <3>1
    <3> QED BY <3>1, <3>2
  <2> QED BY <2>2, <2>3 DEF Surjection
<1>3. IsFiniteSet(A \X B)
  BY FS_Product
<1>4. IsFiniteSet((A \X B) \X C)
  BY <1>3, FS_Product
<1> QED BY <1>2, <1>4, FS_Surjection

LEMMA LeastAndGreatest ==
    ASSUME NEW S, IsFiniteSet(S), S # {}, S \subseteq Int
    PROVE  /\ Min(S) \in S /\ Max(S) \in S
           /\ \A y \in S : Min(S) <= y /\ y <= Max(S)
<1>1. PICK up : up = [x \in S |-> x]
  OBVIOUS
<1>2. PICK down : down = [x \in S |-> -x]
  OBVIOUS
<1>3. IsKey(up, S) /\ IsKey(down, S)
  BY <1>1, <1>2 DEF IsKey
<1>4. \E x \in S : \A y \in S : up[x] <= up[y]
  BY <1>3, LeastKey
<1>5. \E x \in S : \A y \in S : down[x] <= down[y]
  BY <1>3, LeastKey
<1>6. \E x \in S : \A y \in S : x <= y
  BY <1>1, <1>4
<1>7. \E x \in S : \A y \in S : x >= y
  BY <1>2, <1>5
<1>8. Min(S) \in S /\ \A y \in S : Min(S) <= y
  BY <1>6, Zenon DEF Min
<1>9. Max(S) \in S /\ \A y \in S : Max(S) >= y
  BY <1>7, Zenon DEF Max
<1>10. \A y \in S : y <= Max(S)
  BY <1>9
<1> QED BY <1>8, <1>9, <1>10, Zenon

-----------------------------------------------------------------------------
(* Series.                                                                 *)

LEMMA BucketOf ==
    ASSUME NEW t \in Int, NEW w \in Nat \ {0}
    PROVE  Bucket(t, w) \in Int /\ Bucket(t, w) <= t /\ t < Bucket(t, w) + w
BY DEF Bucket

\* The first points of rows, by time.
LEMMA AscendingByTime ==
    ASSUME NEW rows, IsFiniteSet(rows), \A r \in rows : r.time \in Int,
           NEW points, points = Ascending(rows), MAX_SERIES_POINTS \in Nat
    PROVE  /\ points \in Seq(rows)
           /\ \A i, j \in DOMAIN points : i < j => points[i].time <= points[j].time
           /\ \A r \in rows : r \notin ItemsOf(points) =>
                 /\ Len(points) = MAX_SERIES_POINTS
                 /\ \A p \in ItemsOf(points) : p.time <= r.time
<1>1. PICK key : key = OldestFirst(rows)
  OBVIOUS
<1>2. \A r \in rows : key[r] = r.time
  BY <1>1 DEF OldestFirst
<1>3. PICK s : s = OrderBy(rows, key)
  OBVIOUS
<1>4. IsKey(key, rows)
  BY <1>2 DEF IsKey
<1>5. Sorts(s, rows, key)
  BY <1>3, <1>4, OrderBySorts
<1>6. points = Take(s, MAX_SERIES_POINTS)
  BY <1>1, <1>3, Zenon DEF Ascending
<1>7. /\ points \in Seq(rows)
      /\ \A r \in rows : r \notin ItemsOf(points) =>
            /\ Len(points) = MAX_SERIES_POINTS
            /\ \A i \in DOMAIN points : key[points[i]] <= key[r]
      /\ \A i, j \in DOMAIN points : i < j => key[points[i]] <= key[points[j]]
  BY <1>5, <1>6, FirstByKey, SMTT(30)
<1>8. \A i \in DOMAIN points : points[i] \in rows /\ key[points[i]] = points[i].time
  BY <1>2, <1>7
<1>9. ASSUME NEW r \in rows, r \notin ItemsOf(points)
      PROVE  /\ Len(points) = MAX_SERIES_POINTS
             /\ \A p \in ItemsOf(points) : p.time <= r.time
  <2>2. ASSUME NEW p \in ItemsOf(points) PROVE p.time <= r.time
    <3>1. PICK i \in DOMAIN points : p = points[i]
      BY Zenon DEF ItemsOf
    <3>2. key[points[i]] <= key[r]
      BY <1>7, <1>9, Zenon
    <3>3. key[points[i]] = p.time /\ key[r] = r.time
      BY <1>2, <1>8, <3>1, Zenon
    <3> QED BY <3>2, <3>3, Zenon
  <2> QED BY <1>7, <1>9, <2>2, Zenon
<1>10. \A i, j \in DOMAIN points : i < j => points[i].time <= points[j].time
  BY <1>7, <1>8, Zenon
<1> QED BY <1>7, <1>9, <1>10

\* The row of a view for the bucket b.
RowOf(telemetry, view, refreshes, b) == Row(Held(telemetry, view, refreshes, b), b)

\* Row p stands in the view for the bucket of reading r.
StandsFor(p, r, telemetry, view, refreshes) ==
    /\ p = RowOf(telemetry, view, refreshes, Bucket(r.time, view.width))
    /\ Held(telemetry, view, refreshes, Bucket(r.time, view.width)) # {}

LEMMA RowsOfView ==
    ASSUME NEW telemetry, IsFiniteSet(telemetry), NEW view, NEW refreshes
    PROVE  /\ IsFiniteSet(View(telemetry, view, refreshes))
           /\ \A p : p \in View(telemetry, view, refreshes) <=>
                 \E r \in telemetry : StandsFor(p, r, telemetry, view, refreshes)
<1>1. PICK row : row = [r \in telemetry |->
                           RowOf(telemetry, view, refreshes, Bucket(r.time, view.width))]
  OBVIOUS
<1>2. PICK rows : rows = {row[r] : r \in telemetry}
  OBVIOUS
<1>3. row \in Surjection(telemetry, rows)
  BY <1>1, <1>2, Zenon DEF Surjection
<1>4. IsFiniteSet(rows)
  BY <1>3, FS_Surjection
<1>5. \A p : p \in View(telemetry, view, refreshes) <=>
          \E r \in telemetry : StandsFor(p, r, telemetry, view, refreshes)
  BY Zenon DEF View, RowOf, StandsFor
<1>6. View(telemetry, view, refreshes) \subseteq rows
  BY <1>1, <1>2, <1>5, Zenon DEF StandsFor
<1> QED BY <1>4, <1>5, <1>6, FS_Subset, Zenon

\* What a view has of a bucket: every value it has been computed from lies between its
\* minimum and its maximum.
LEMMA RowHasRange ==
    ASSUME NEW held, IsFiniteSet(held), held # {}, \A r \in held : r.value \in Int,
           NEW b \in Int, NEW row, row = Row(held, b)
    PROVE  /\ row \in [time : Int, min : Int, max : Int]
           /\ row.time = b /\ row.min <= row.max
           /\ \A r \in held : row.min <= r.value /\ r.value <= row.max
<1>1. PICK values : values = {r.value : r \in held}
  OBVIOUS
<1>2. values \subseteq Int /\ values # {} /\ \A r \in held : r.value \in values
  BY <1>1
<1>3. IsFiniteSet(values)
  <2>1. PICK f : f = [r \in held |-> r.value]
    OBVIOUS
  <2>2. f \in Surjection(held, values)
    BY <1>1, <2>1, Zenon DEF Surjection
  <2> QED BY <2>2, FS_Surjection
<1>4. row = [time |-> b, min |-> Min(values), max |-> Max(values)]
  BY <1>1, Zenon DEF Row
<1>5. /\ Min(values) \in Int /\ Max(values) \in Int
      /\ \A y \in values : Min(values) <= y /\ y <= Max(values)
  BY <1>2, <1>3, LeastAndGreatest
<1>6. Min(values) <= Max(values)
  BY <1>2, <1>5
<1> QED BY <1>2, <1>4, <1>5, <1>6

\* Every view and every set of readings.
IsView(view) == view \in [width : Nat \ {0}, start : Nat, end : Nat]
AreReadings(telemetry) ==
    IsFiniteSet(telemetry) /\ telemetry \subseteq [time : Int, value : Int, arrived : Int]

LEMMA ViewHasRanges ==
    ASSUME NEW telemetry, AreReadings(telemetry), NEW view, IsView(view), NEW refreshes,
           NEW p \in View(telemetry, view, refreshes)
    PROVE  p \in [time : Int, min : Int, max : Int] /\ p.min <= p.max
<1>1. PICK r \in telemetry :
          /\ p = RowOf(telemetry, view, refreshes, Bucket(r.time, view.width))
          /\ Held(telemetry, view, refreshes, Bucket(r.time, view.width)) # {}
  BY RowsOfView DEF AreReadings, StandsFor
<1>2. PICK b : b = Bucket(r.time, view.width)
  OBVIOUS
<1>3. r.time \in Int /\ view.width \in Nat \ {0}
  BY DEF AreReadings, IsView
<1>4. b \in Int
  BY <1>2, <1>3, BucketOf
<1>5. PICK held : held = Held(telemetry, view, refreshes, b)
  OBVIOUS
<1>6. held \subseteq telemetry
  BY <1>5 DEF Held
<1>7. IsFiniteSet(held) /\ held # {} /\ \A q \in held : q.value \in Int
  BY <1>1, <1>2, <1>5, <1>6, FS_Subset DEF AreReadings
<1>8. p = Row(held, b)
  BY <1>1, <1>2, <1>5, Zenon DEF RowOf
<1> QED BY <1>4, <1>7, <1>8, RowHasRange

LEMMA RawHasNoHoles ==
    ASSUME NEW telemetry, IsFiniteSet(telemetry), \A r \in telemetry : r.time \in Int,
           NEW params, NEW now, NEW from \in Int, NEW to \in Int,
           From(params, now) = from, To(params, now) = to,
           MAX_SERIES_POINTS \in Nat,
           NEW points, points = rawPoints(telemetry, params, now)
    PROVE  /\ points \in Seq(telemetry)
           /\ \A i, j \in DOMAIN points : i < j => points[i].time <= points[j].time
           /\ \A r \in telemetry : from <= r.time /\ r.time <= to =>
                 \/ r \in ItemsOf(points)
                 \/ /\ Len(points) = MAX_SERIES_POINTS
                    /\ \A p \in ItemsOf(points) : p.time <= r.time
<1>1. PICK rows : rows = {r \in telemetry : InRange(r.time, params, now)}
  OBVIOUS
<1>2. rows \subseteq telemetry /\ IsFiniteSet(rows)
  BY <1>1, FS_Subset
<1>3. points = Ascending(rows)
  BY <1>1, Zenon DEF rawPoints
<1>4. \A r \in telemetry : from <= r.time /\ r.time <= to => r \in rows
  BY <1>1 DEF InRange
<1>5. /\ points \in Seq(rows)
      /\ \A i, j \in DOMAIN points : i < j => points[i].time <= points[j].time
      /\ \A r \in rows : r \notin ItemsOf(points) =>
            /\ Len(points) = MAX_SERIES_POINTS
            /\ \A p \in ItemsOf(points) : p.time <= r.time
  BY <1>2, <1>3, AscendingByTime
<1>6. points \in Seq(telemetry)
  BY <1>2, <1>5, SeqMonotonic
<1> QED BY <1>4, <1>5, <1>6, Zenon

\* The runs of a policy that find a reading whose bucket is to be refreshed.
Runs(view, refreshes, r) ==
    {t \in refreshes :
        /\ r.arrived <= t
        /\ t >= Bucket(r.time, view.width) + view.width + view.end
        /\ t <= Bucket(r.time, view.width) + view.start}

\* The points of a view count in every reading from from to to but for the cases
\* SeriesHaveNoHoles names.
AllCounted(points, telemetry, view, refreshes, from, to) ==
    \A r \in telemetry : from <= r.time /\ r.time <= to =>
        \/ r.time < from + view.width - 1
        \/ Runs(view, refreshes, r) = {}
        \/ /\ Len(points) = MAX_SERIES_POINTS
           /\ \A p \in ItemsOf(points) : p.time <= Bucket(r.time, view.width)
        \/ \E p \in ItemsOf(points) :
              /\ p.time = Bucket(r.time, view.width)
              /\ p.min <= r.value /\ r.value <= p.max

LEMMA AggregateHasNoHoles ==
    ASSUME NEW telemetry, AreReadings(telemetry),
           NEW params, NEW now, NEW from \in Int, NEW to \in Int,
           From(params, now) = from, To(params, now) = to,
           MAX_SERIES_POINTS \in Nat, NEW view, IsView(view),
           NEW refreshes \in SUBSET Int,
           NEW points, points = aggregatePoints(telemetry, view, refreshes, params, now)
    PROVE  /\ points \in Seq(View(telemetry, view, refreshes))
           /\ \A i, j \in DOMAIN points : i < j => points[i].time <= points[j].time
           /\ AllCounted(points, telemetry, view, refreshes, from, to)
<1>1. PICK all : all = View(telemetry, view, refreshes)
  OBVIOUS
<1>2. /\ IsFiniteSet(all)
      /\ \A p : p \in all <=>
            \E r \in telemetry : StandsFor(p, r, telemetry, view, refreshes)
  BY <1>1, RowsOfView DEF AreReadings
<1>3. \A p \in all : p.time \in Int
  BY <1>1, ViewHasRanges
<1>4. PICK rows : rows = {p \in all : InRange(p.time, params, now)}
  OBVIOUS
<1>5. rows \subseteq all /\ IsFiniteSet(rows)
  BY <1>2, <1>4, FS_Subset
<1>6. points = Ascending(rows)
  BY <1>1, <1>4, Zenon DEF aggregatePoints
<1>7. /\ points \in Seq(rows)
      /\ \A i, j \in DOMAIN points : i < j => points[i].time <= points[j].time
      /\ \A r \in rows : r \notin ItemsOf(points) =>
            /\ Len(points) = MAX_SERIES_POINTS
            /\ \A p \in ItemsOf(points) : p.time <= r.time
  BY <1>3, <1>5, <1>6, AscendingByTime
<1>8. points \in Seq(all)
  BY <1>5, <1>7, SeqMonotonic
<1>9. ASSUME NEW r \in telemetry, from <= r.time, r.time <= to,
             ~(r.time < from + view.width - 1), Runs(view, refreshes, r) # {}
      PROVE  \/ /\ Len(points) = MAX_SERIES_POINTS
                /\ \A p \in ItemsOf(points) : p.time <= Bucket(r.time, view.width)
             \/ \E p \in ItemsOf(points) :
                   /\ p.time = Bucket(r.time, view.width)
                   /\ p.min <= r.value /\ r.value <= p.max
  <2>1. PICK b : b = Bucket(r.time, view.width)
    OBVIOUS
  <2>2. /\ r.time \in Int /\ r.value \in Int /\ r.arrived \in Int
        /\ view.width \in Nat \ {0} /\ view.start \in Nat /\ view.end \in Nat
    BY DEF AreReadings, IsView
  <2>3. b \in Int /\ b <= r.time /\ r.time < b + view.width
    BY <2>1, <2>2, BucketOf
  <2>4. b >= from /\ b <= to
    BY <1>9, <2>2, <2>3
  <2>5. PICK t \in refreshes : r.arrived <= t /\ t >= b + view.width + view.end
                               /\ t <= b + view.start
    BY <1>9, <2>1, Zenon DEF Runs
  <2>6. t - view.start <= b /\ b + view.width <= t - view.end
    BY <2>2, <2>3, <2>5
  <2>7. Covers(t, view, b)
    BY <2>6, Zenon DEF Covers
  <2>8. PICK held : held = Held(telemetry, view, refreshes, b)
    OBVIOUS
  <2>9. r \in held
    BY <2>1, <2>5, <2>7, <2>8, Zenon DEF Held
  <2>10. held \subseteq telemetry
    BY <2>8, Zenon DEF Held
  <2>11. IsFiniteSet(held) /\ held # {} /\ \A q \in held : q.value \in Int
    BY <2>9, <2>10, FS_Subset DEF AreReadings
  <2>12. PICK p : p = Row(held, b)
    OBVIOUS
  <2>13. p.time = b /\ p.min <= r.value /\ r.value <= p.max
    BY <2>3, <2>9, <2>11, <2>12, RowHasRange
  <2>14. p = RowOf(telemetry, view, refreshes, b)
    BY <2>8, <2>12, Zenon DEF RowOf
  <2>15. p \in all
    BY <1>2, <2>1, <2>8, <2>11, <2>14, Zenon DEF StandsFor
  <2>16. p \in rows
    BY <1>4, <2>4, <2>13, <2>15 DEF InRange
  <2> QED BY <1>7, <2>1, <2>13, <2>16
<1>10. AllCounted(points, telemetry, view, refreshes, from, to)
  BY <1>9, Zenon DEF AllCounted
<1> QED BY <1>1, <1>7, <1>8, <1>10, Zenon

\* Every request for a series, with any of its fields left out.
AnyRequest ==
    [metric : TELEMETRY_METRICS, resolution : Resolutions \union {Empty},
     from : Int \union {Empty}, to : Int \union {Empty}]

LEMMA SeriesAreWhole ==
    ASSUME NEW telemetry, AreReadings(telemetry),
           NEW refreshes \in SUBSET Int,
           NEW request \in AnyRequest
    PROVE  NoHoles(telemetry, refreshes, request)
<1> DEFINE given == GrpcParams(request)
           params == Parse(given)
           to == IF request.to = Empty THEN Now ELSE request.to
           from == IF request.from = Empty THEN to - Hour ELSE request.from
           resolution == IF request.resolution = Empty THEN "1m" ELSE request.resolution
           raw == request.resolution = "raw"
           view == ViewPolicy[params.resolution]
           points == querySeries(telemetry, refreshes, params, Now).points
           Beyond(time) == /\ Len(points) = MAX_SERIES_POINTS
                           /\ \A p \in ItemsOf(points) : p.time <= time
<1>1. /\ DOMAIN given = {"metric", "resolution", "from", "to"}
      /\ given.metric = request.metric
      /\ given.resolution = IF request.resolution = Empty THEN Absent ELSE request.resolution
      /\ given.from = IF request.from = Empty THEN Absent ELSE request.from
      /\ given.to = IF request.to = Empty THEN Absent ELSE request.to
  BY DEF GrpcParams, AnyRequest
<1>2. Issues(given) = {}
  BY <1>1 DEF Issues, AnyRequest
<1>3. /\ params.resolution = resolution
      /\ params.from = given.from /\ params.to = given.to
  <2> HIDE DEF given
  <2>1. CASE given.resolution = Absent
    <3>1. params = [given EXCEPT !.resolution = "1m"]
      BY <2>1 DEF Parse
    <3>2. request.resolution = Empty
      BY <1>1, <2>1, QueryAssumption DEF AnyRequest
    <3> QED BY <1>1, <3>1, <3>2
  <2>2. CASE given.resolution # Absent
    BY <1>1, <2>2, QueryAssumption DEF Parse
  <2> QED BY <2>1, <2>2
<1>4. From(params, Now) = from /\ To(params, Now) = to /\ from \in Int /\ to \in Int
  <2> HIDE DEF params
  <2> QED BY <1>1, <1>3, QueryAssumption DEF From, To, AnyRequest
<1>5. params.resolution = "raw" <=> raw
  BY <1>3, QueryAssumption DEF Resolutions, AnyRequest
<1>0. MAX_SERIES_POINTS \in Nat
  BY QueryAssumption
<1> HIDE DEF params, given, from, to
<1>6. CASE raw
  <2>1. points = rawPoints(telemetry, params, Now)
    BY <1>5, <1>6 DEF querySeries
  <2> HIDE DEF points
  <2>2. IsFiniteSet(telemetry) /\ \A r \in telemetry : r.time \in Int
    BY DEF AreReadings
  <2>3. /\ \A i, j \in DOMAIN points : i < j => points[i].time <= points[j].time
        /\ \A r \in telemetry : from <= r.time /\ r.time <= to =>
              r \in ItemsOf(points) \/ Beyond(r.time)
    BY <1>0, <1>4, <2>1, <2>2, RawHasNoHoles, SMTT(30)
  <2>4. \A r \in {s \in telemetry : from <= s.time /\ s.time <= to} :
            r \in ItemsOf(points) \/ Beyond(r.time)
    BY <2>3, Zenon
  <2> USE DEF points, params, given, from, to
  <2> QED BY <1>2, <1>3, <1>6, <2>3, <2>4, Zenon DEF NoHoles
<1>7. CASE ~raw
  <2> DEFINE Counted(r) == \E p \in ItemsOf(points) :
                              /\ p.time = Bucket(r.time, view.width)
                              /\ p.min <= r.value /\ r.value <= p.max
  <2>1. points = aggregatePoints(telemetry, view, refreshes, params, Now)
    BY <1>5, <1>7 DEF querySeries
  <2>2. IsView(view)
    BY <1>3, <1>5, <1>7, QueryAssumption DEF Resolutions, AnyRequest, IsView
  <2> HIDE DEF points, view
  <2>3. /\ \A i, j \in DOMAIN points : i < j => points[i].time <= points[j].time
        /\ AllCounted(points, telemetry, view, refreshes, from, to)
    BY <1>0, <1>4, <2>1, <2>2, AggregateHasNoHoles
  <2>4. \A r \in {s \in telemetry : from <= s.time /\ s.time <= to} :
              \/ r.time < from + view.width - 1
              \/ Runs(view, refreshes, r) = {}
              \/ Beyond(Bucket(r.time, view.width))
              \/ Counted(r)
    BY <2>3, Zenon DEF AllCounted
  <2> USE DEF points, params, given, from, to, view
  <2> QED BY <1>2, <1>3, <1>7, <2>3, <2>4, Zenon DEF NoHoles, Runs
<1> QED BY <1>6, <1>7

\* SeriesHaveNoHoles, for any readings, views, runs of their policies and requests:
\* what query of SeriesService leaves out is out of the range, in the first bucket,
\* missed by the policy since it arrived, too early or too late for it, or after as many
\* points as the limit allows.
THEOREM SeriesAreComplete ==
    /\ \A telemetry : \A refreshes \in SUBSET Int, request \in AnyRequest :
          AreReadings(telemetry) => NoHoles(telemetry, refreshes, request)
    /\ Spec => []SeriesHaveNoHoles
<1>1. ASSUME NEW telemetry, NEW refreshes \in SUBSET Int, NEW request \in AnyRequest,
             AreReadings(telemetry)
      PROVE  NoHoles(telemetry, refreshes, request)
  BY <1>1, SeriesAreWhole
<1>2. Init => SeriesHaveNoHoles
  <2> SUFFICES ASSUME Init, call.fn = "series"
               PROVE  NoHoles(call.telemetry, call.refreshes, call.request)
    BY DEF SeriesHaveNoHoles
  <2>1. call \in SeriesCalls
    BY CallOfName
  <2>2. /\ call.telemetry \in Tables
        /\ call.refreshes \in {{}, {Now}, {3, 5, 7}, 3 .. Now}
        /\ call.request \in [metric : TELEMETRY_METRICS, resolution : {"raw", "1m", Empty},
                             from : {1, 2, Empty}, to : {2, Empty}]
    BY <2>1 DEF SeriesCalls
  <2>3. Now \in Int
    BY QueryAssumption
  <2>4. call.refreshes \in SUBSET Int
    BY <2>2, <2>3
  <2>5. call.request \in AnyRequest
    BY <2>2 DEF AnyRequest, Resolutions
  <2>6. call.telemetry \subseteq Readings
    BY <2>2, Zenon DEF Tables, kSubset
  <2>7. IsFiniteSet(Readings)
    <3>1. IsFiniteSet({0, 1, 2, 5}) /\ IsFiniteSet(1 .. 2) /\ IsFiniteSet({2, 4, 7})
      <4>1. {0, 1, 2, 5} \subseteq 0 .. 5 /\ {2, 4, 7} \subseteq 2 .. 7
        OBVIOUS
      <4> QED BY <4>1, InRangeFinite
    <3> QED BY <3>1, FiniteReadings, Zenon DEF Readings
  <2>8. AreReadings(call.telemetry)
    <3>1. IsFiniteSet(call.telemetry)
      BY <2>6, <2>7, FS_Subset
    <3>2. Readings \subseteq [time : Int, value : Int, arrived : Int]
      BY DEF Readings
    <3> QED BY <2>6, <3>1, <3>2, Zenon DEF AreReadings
  <2> QED BY <1>1, <2>4, <2>5, <2>8
<1>3. Spec => []SeriesHaveNoHoles
  BY <1>2, CallsStay, PTL
<1> QED BY <1>1, <1>3

-----------------------------------------------------------------------------
(* Lists.                                                                  *)

\* Matches says what the property means by it.
LEMMA NewestAreListed ==
    ASSUME NEW alerts, IsFiniteSet(alerts), \A a \in alerts : a.time \in Int,
           NEW query, query.limit \in Nat
    PROVE  NewestListed(alerts, query)
<1> DEFINE Wants(a) ==
               /\ query.device \in {Absent, a.device}
               /\ query.from = Absent \/ query.from <= a.time
               /\ query.to = Absent \/ a.time <= query.to
           matching == {a \in alerts : Matches(a, query)}
<1>1. \A a \in alerts : Matches(a, query) <=> Wants(a)
  BY DEF Matches, Between
<1>2. PICK key : key = NewestFirst(matching)
  OBVIOUS
<1>3. \A a \in matching : key[a] = -a.time /\ a.time \in Int
  BY <1>2 DEF NewestFirst
<1>4. IsFiniteSet(matching) /\ IsKey(key, matching)
  BY <1>3, FS_Subset DEF IsKey
<1>5. PICK listed : listed = Take(OrderBy(matching, key), query.limit)
  OBVIOUS
<1>6. findAll(alerts, query) = listed
  BY <1>2, <1>5, Zenon DEF findAll
<1>7. /\ listed \in Seq(matching)
      /\ \A a \in matching : a \notin ItemsOf(listed) =>
            Len(listed) = query.limit /\ \A i \in DOMAIN listed : key[listed[i]] <= key[a]
  <2> HIDE DEF matching
  <2>1. PICK s : s = OrderBy(matching, key)
    OBVIOUS
  <2>2. Sorts(s, matching, key)
    BY <1>4, <2>1, OrderBySorts
  <2>3. listed = Take(s, query.limit)
    BY <1>5, <2>1
  <2> QED BY <2>2, <2>3, FirstByKey
<1>8. \A i \in DOMAIN listed : listed[i] \in matching
  BY <1>7
<1>9. \A i \in DOMAIN listed : Wants(listed[i])
  BY <1>1, <1>8
<1>10. ASSUME NEW a \in {b \in alerts : Wants(b)} \ ItemsOf(listed)
       PROVE  Len(listed) = query.limit /\ \A b \in ItemsOf(listed) : b.time >= a.time
  <2>1. a \in matching /\ a \notin ItemsOf(listed)
    BY <1>1
  <2>2. ASSUME NEW b \in ItemsOf(listed) PROVE b.time >= a.time
    <3>1. PICK i \in DOMAIN listed : b = listed[i]
      BY DEF ItemsOf
    <3>2. key[b] <= key[a]
      BY <1>7, <2>1, <3>1
    <3>3. b \in matching
      BY <1>8, <3>1
    <3> HIDE DEF matching
    <3> QED BY <1>3, <2>1, <3>2, <3>3
  <2> QED BY <1>7, <2>1, <2>2
<1> HIDE DEF matching
<1> QED BY <1>6, <1>9, <1>10, Zenon DEF NewestListed


LEMMA DeviceFound ==
    ASSUME NEW V, FailuresDiffer(V), NEW devices, NEW id \in DOMAIN devices,
           id \in Int, devices[id] \in Int,
           NEW shadows, \A d \in DOMAIN shadows : shadows[d] \in V, NEW now,
           NEW row, row = findOne(id, devices, shadows, now)
    PROVE  /\ row \in SummaryRows(V) /\ row # NotFound /\ row.device_id = id
           /\ row = toSummary(id, devices, Shadow(id, shadows), now)
<1>1. PICK shadow : shadow = Shadow(id, shadows)
  OBVIOUS
<1>2. shadow \in Optional(V)
  BY <1>1 DEF Shadow, Optional
<1>3. row = toSummary(id, devices, shadow, now)
  BY <1>1, Zenon DEF findOne
<1>4. row \in SummaryRows(V) /\ row.device_id = id
  BY <1>2, <1>3 DEF toSummary, Status, SummaryRows
<1>5. row # NotFound
  BY <1>4, Zenon DEF FailuresDiffer
<1> QED BY <1>1, <1>3, <1>4, <1>5

\* The list is of what each of the devices is alone, in the order of ids.
ListedBy(ids, list, devices, shadows, now) ==
    /\ ids \in Seq(DOMAIN devices) /\ DOMAIN ids = DOMAIN list
    /\ \A id \in DOMAIN devices : \E i \in DOMAIN ids : ids[i] = id
    /\ \A i, j \in DOMAIN ids : i < j => ids[i] < ids[j]
    /\ \A i \in DOMAIN ids : list[i] = findOne(ids[i], devices, shadows, now)

LEMMA DeviceRows ==
    ASSUME NEW V, FailuresDiffer(V), NEW devices, IsFiniteSet(DOMAIN devices),
           \A id \in DOMAIN devices : id \in Int /\ devices[id] \in Int,
           NEW shadows, \A id \in DOMAIN shadows : shadows[id] \in V, NEW now,
           NEW list, list = listDevices(devices, shadows, now)
    PROVE  /\ list \in Seq(SummaryRows(V)) /\ list # Rejected
           /\ \E ids : ListedBy(ids, list, devices, shadows, now)
<1>1. PICK key : key = ById(DOMAIN devices)
  OBVIOUS
<1>2. \A id \in DOMAIN devices : key[id] = id
  BY <1>1 DEF ById
<1>3. IsKey(key, DOMAIN devices)
  BY <1>2 DEF IsKey
<1>4. PICK ids : ids = OrderBy(DOMAIN devices, key)
  OBVIOUS
<1>5. Sorts(ids, DOMAIN devices, key)
  BY <1>3, <1>4, OrderBySorts
<1>6. /\ ids \in Seq(DOMAIN devices) /\ DOMAIN devices = {ids[i] : i \in DOMAIN ids}
      /\ \A i, j \in DOMAIN ids : i < j => ids[i] # ids[j] /\ key[ids[i]] <= key[ids[j]]
  BY <1>5, Zenon DEF Sorts
<1>7. \A i \in DOMAIN ids : ids[i] \in DOMAIN devices
  BY <1>6
<1>8. ASSUME NEW i \in DOMAIN ids, NEW j \in DOMAIN ids, i < j PROVE ids[i] < ids[j]
  <2>1. ids[i] # ids[j] /\ ids[i] <= ids[j]
    BY <1>2, <1>6, <1>7, <1>8
  <2>2. ids[i] \in Int /\ ids[j] \in Int
    BY <1>7
  <2> QED BY <2>1, <2>2
<1>9. PICK rows : rows = [i \in DOMAIN ids |-> findOne(ids[i], devices, shadows, now)]
  OBVIOUS
<1>10. \A i \in DOMAIN ids : rows[i] \in SummaryRows(V)
  BY <1>7, <1>9, DeviceFound
<1>11. rows \in Seq(SummaryRows(V)) /\ DOMAIN rows = DOMAIN ids
  BY <1>6, <1>9, <1>10
<1>12. list = rows
  <2>1. CASE ids = << >>
    <3>1. list = << >>
      BY <1>1, <1>4, <2>1, Zenon DEF listDevices
    <3>2. rows = << >>
      BY <1>11, <2>1
    <3> QED BY <3>1, <3>2
  <2>2. CASE ids # << >>
    <3>1. PICK replies : replies = [i \in DOMAIN ids |-> Shadow(ids[i], shadows)]
      OBVIOUS
    <3>2. mget(ids, shadows) = replies
      BY <2>2, <3>1, Zenon DEF mget
    <3>3. \A i \in DOMAIN ids : replies[i] \in Optional(V)
      BY <3>1 DEF Shadow, Optional
    <3>4. replies \in Seq(Optional(V))
      BY <1>6, <3>1, <3>3
    <3>5. replies # Rejected
      BY <3>4, Zenon DEF FailuresDiffer
    <3>6. list = Summaries(ids, devices, replies, now)
      BY <1>1, <1>4, <2>2, <3>2, Zenon DEF listDevices
    <3>7. list = [i \in DOMAIN ids |-> toSummary(ids[i], devices, replies[i], now)]
      BY <3>5, <3>6, Zenon DEF Summaries
    <3>8. \A i \in DOMAIN ids : rows[i] = toSummary(ids[i], devices, replies[i], now)
      BY <1>7, <1>9, <3>1, Zenon DEF findOne
    <3> QED BY <1>9, <3>7, <3>8, Zenon
  <2> QED BY <2>1, <2>2
<1>13. list # Rejected
  BY <1>11, <1>12, Zenon DEF FailuresDiffer
<1>14. \A id \in DOMAIN devices : \E i \in DOMAIN ids : ids[i] = id
  BY <1>6
<1>15. \A i \in DOMAIN ids : list[i] = findOne(ids[i], devices, shadows, now)
  BY <1>9, <1>12, Zenon
<1>16. ListedBy(ids, list, devices, shadows, now)
  BY <1>6, <1>8, <1>11, <1>12, <1>14, <1>15, Zenon DEF ListedBy
<1> QED BY <1>11, <1>12, <1>13, <1>16

LEMMA DevicesAreListed ==
    ASSUME NEW V, FailuresDiffer(V), NEW devices, IsFiniteSet(DOMAIN devices),
           \A id \in DOMAIN devices : id \in Int /\ devices[id] \in Int,
           NEW shadows, \A id \in DOMAIN shadows : shadows[id] \in V
    PROVE  AllListed(devices, shadows)
<1> DEFINE One(id) == findOne(id, devices, shadows, 1)
<1>1. PICK list : list = listDevices(devices, shadows, 1)
  OBVIOUS
<1>2. /\ list \in Seq(SummaryRows(V)) /\ list # Rejected
      /\ \E ids : ListedBy(ids, list, devices, shadows, 1)
  BY <1>1, DeviceRows
<1>3. PICK ids : /\ ids \in Seq(DOMAIN devices) /\ DOMAIN ids = DOMAIN list
                 /\ \A id \in DOMAIN devices : \E i \in DOMAIN ids : ids[i] = id
                 /\ \A i, j \in DOMAIN ids : i < j => ids[i] < ids[j]
                 /\ \A i \in DOMAIN ids : list[i] = One(ids[i])
  BY <1>2, Zenon DEF ListedBy
<1>4. \A id \in DOMAIN devices : One(id) # NotFound /\ One(id).device_id = id
  BY DeviceFound
<1>5. \A id : id \notin DOMAIN devices => One(id) = NotFound
  BY DEF findOne
<1> HIDE DEF One
<1>6. ItemsOf(list) = {One(id) : id \in DOMAIN devices}
  <2>1. ItemsOf(list) = {list[i] : i \in DOMAIN ids}
    BY <1>3, Zenon DEF ItemsOf
  <2> QED BY <1>3, <2>1
<1>7. {One(id) : id \in DOMAIN devices \union DOMAIN shadows} \ {NotFound} =
      {One(id) : id \in DOMAIN devices}
  BY <1>4, <1>5
<1>8. ASSUME NEW i \in DOMAIN list, NEW j \in DOMAIN list, i < j
      PROVE  list[i].device_id < list[j].device_id
  <2>1. ids[i] \in DOMAIN devices /\ ids[j] \in DOMAIN devices
    BY <1>3
  <2>2. list[i].device_id = ids[i] /\ list[j].device_id = ids[j]
    BY <1>3, <1>4, <2>1, Zenon
  <2>3. ids[i] < ids[j]
    BY <1>3, <1>8, Zenon
  <2> QED BY <2>2, <2>3
<1> USE DEF One
<1> QED BY <1>1, <1>2, <1>6, <1>7, <1>8, Zenon DEF AllListed

\* ListsLeaveNothingOut, for any alerts and limit and for any devices and shadows:
\* findAll of AlertsService lists the newest that match and leaves out none newer,
\* that of DevicesService every device with its own shadow, by id.
THEOREM ListsAreComplete ==
    /\ \A alerts, query :
          (IsFiniteSet(alerts) /\ (\A a \in alerts : a.time \in Int) /\ query.limit \in Nat)
              => NewestListed(alerts, query)
    /\ \A V, devices, shadows :
          (/\ FailuresDiffer(V) /\ IsFiniteSet(DOMAIN devices)
           /\ \A id \in DOMAIN devices : id \in Int /\ devices[id] \in Int
           /\ \A id \in DOMAIN shadows : shadows[id] \in V)
              => AllListed(devices, shadows)
    /\ Spec => []ListsLeaveNothingOut
<1>1. \A alerts, query :
          (IsFiniteSet(alerts) /\ (\A a \in alerts : a.time \in Int) /\ query.limit \in Nat)
              => NewestListed(alerts, query)
  BY NewestAreListed
<1>2. \A V, devices, shadows :
          (/\ FailuresDiffer(V) /\ IsFiniteSet(DOMAIN devices)
           /\ \A id \in DOMAIN devices : id \in Int /\ devices[id] \in Int
           /\ \A id \in DOMAIN shadows : shadows[id] \in V)
              => AllListed(devices, shadows)
  BY DevicesAreListed
<1>3. ASSUME Init, call.fn = "alerts" PROVE NewestListed(call.alerts, call.query)
  <2>1. call \in AlertCalls
    BY <1>3, CallOfName
  <2>2. /\ call.alerts \subseteq [device : {dev1, dev2}, time : {0, 2, 3}]
        /\ call.query.limit \in 1 .. 2
    BY <2>1 DEF AlertCalls
  <2>3. IsFiniteSet([device : {dev1, dev2}, time : {0, 2, 3}])
    <3>1. IsFiniteSet({dev1} \union {dev2})
      BY FS_Singleton, FS_Union
    <3>2. {dev1} \union {dev2} = {dev1, dev2}
      OBVIOUS
    <3>3. IsFiniteSet({0, 2, 3})
      <4>1. {0, 2, 3} \subseteq 0 .. 3
        OBVIOUS
      <4> QED BY <4>1, InRangeFinite
    <3> QED BY <3>1, <3>2, <3>3, FiniteAlerts
  <2>4. IsFiniteSet(call.alerts)
    BY <2>2, <2>3, FS_Subset
  <2>5. \A a \in call.alerts : a.time \in Int
    BY <2>2
  <2>6. call.query.limit \in Nat
    BY <2>2
  <2> QED BY <1>1, <2>4, <2>5, <2>6
<1>4. ASSUME Init, call.fn = "devices" PROVE AllListed(call.devices, call.shadows)
  <2>1. call \in DeviceCalls
    BY <1>4, CallOfName
  <2>2. /\ call.devices \in UNION {[ids -> {0, 1}] : ids \in SUBSET (1 .. 3)}
        /\ call.shadows \in UNION {[ids -> {"s", "t"}] : ids \in SUBSET (1 .. 3)}
    BY <2>1 DEF DeviceCalls
  <2>3. PICK ids : ids \subseteq 1 .. 3 /\ call.devices \in [ids -> {0, 1}]
    BY <2>2, Zenon
  <2>4. PICK others \in SUBSET (1 .. 3) : call.shadows \in [others -> {"s", "t"}]
    BY <2>2, Zenon
  <2>5. IsFiniteSet(DOMAIN call.devices)
    <3>1. DOMAIN call.devices \subseteq 1 .. 3
      BY <2>3, Zenon
    <3> QED BY <3>1, InRangeFinite
  <2>6. \A id \in DOMAIN call.devices : id \in Int /\ call.devices[id] \in Int
    <3>1. 1 .. 3 \subseteq Int /\ {0, 1} \subseteq Int
      OBVIOUS
    <3> QED BY <2>3, <3>1, Zenon
  <2>7. \A id \in DOMAIN call.shadows : call.shadows[id] \in {"s", "t", Empty}
    BY <2>4
  <2>8. FailuresDiffer({"s", "t", Empty})
    BY EvaluationAssumption, Zenon
  <2> QED BY <1>2, <2>5, <2>6, <2>7, <2>8
<1>5. Init => ListsLeaveNothingOut
  BY <1>3, <1>4, Zenon DEF ListsLeaveNothingOut
<1>6. Spec => []ListsLeaveNothingOut
  BY <1>5, CallsStay, PTL
<1> QED BY <1>1, <1>2, <1>6

-----------------------------------------------------------------------------
(* REST and gRPC.                                                          *)

\* Every question, of devices whose shadows are in V.
AnyQuestion(V) ==
    {q \in [fn : {"question"}, route : {"devices", "device", "series"}, id : Int,
            params : [metric : TELEMETRY_METRICS \union {NoText},
                      resolution : Resolutions \union {Empty, NoText},
                      from : Int \union {Empty, NoTime}, to : Int \union {Empty, NoTime}],
            devices : UNION {[ids -> Int] : ids \in SUBSET Int},
            shadows : UNION {[ids -> V] : ids \in SUBSET Int},
            telemetry : SUBSET [time : Int, value : Int, arrived : Int],
            refreshes : SUBSET Int,
            dbUp : BOOLEAN, redisUp : BOOLEAN, production : BOOLEAN] :
        IsFiniteSet(DOMAIN q.devices) /\ IsFiniteSet(q.telemetry)}

LEMMA ParamsOfBoth ==
    ASSUME NEW V, NEW q \in AnyQuestion(V), NEW params, params = GrpcParams(q.params)
    PROVE  /\ DOMAIN params = {"metric", "resolution", "from", "to"}
           /\ DOMAIN q.params = {"metric", "resolution", "from", "to"}
           /\ \A f \in DOMAIN params :
                 params[f] = IF q.params[f] = Empty THEN Absent ELSE q.params[f]
           /\ params = [f \in DOMAIN q.params |->
                            IF q.params[f] = Empty THEN Absent ELSE q.params[f]]
<1>1. DOMAIN q.params = {"metric", "resolution", "from", "to"} /\ q.params.metric # Empty
  BY QueryAssumption DEF AnyQuestion
<1>2. params = [f \in DOMAIN q.params |->
                    IF q.params[f] = Empty THEN Absent ELSE q.params[f]]
  BY <1>1, Zenon DEF GrpcParams
<1> QED BY <1>1, <1>2, Zenon

LEMMA IssuesAreMalformed ==
    ASSUME NEW V, NEW q \in AnyQuestion(V), q.route = "series",
           NEW params, params = GrpcParams(q.params)
    PROVE  /\ Issues(params) = {} <=> ~Malformed(q)
           /\ \A f \in Issues(params) : q.params[f] \in {NoText, NoTime}
<1>1. /\ DOMAIN params = {"metric", "resolution", "from", "to"}
      /\ \A f \in {"metric", "resolution", "from", "to"} :
            params[f] = IF q.params[f] = Empty THEN Absent ELSE q.params[f]
  BY ParamsOfBoth
<1>2. /\ q.params.metric \in TELEMETRY_METRICS \union {NoText}
      /\ q.params.resolution \in Resolutions \union {Empty, NoText}
      /\ q.params.from \in Int \union {Empty, NoTime}
      /\ q.params.to \in Int \union {Empty, NoTime}
  BY DEF AnyQuestion
<1>3. "metric" \in Issues(params) <=> q.params.metric = NoText
  BY <1>1, <1>2, QueryAssumption DEF Issues
<1>4. "resolution" \in Issues(params) <=> q.params.resolution = NoText
  BY <1>1, <1>2, QueryAssumption DEF Issues
<1>5. "from" \in Issues(params) <=> q.params.from = NoTime
  BY <1>1, <1>2, QueryAssumption DEF Issues
<1>6. "to" \in Issues(params) <=> q.params.to = NoTime
  BY <1>1, <1>2, QueryAssumption DEF Issues
<1>7. Issues(params) \subseteq {"metric", "resolution", "from", "to"}
  BY <1>1 DEF Issues
<1> QED BY <1>3, <1>4, <1>5, <1>6, <1>7 DEF Malformed

\* What a client is answered with an outcome.
Answer(outcome, production) ==
    IF Succeeds(outcome) THEN [status |-> 200, body |-> outcome.value]
    ELSE catch(outcome.exception, production)

LEMMA OutcomesOfRest ==
    ASSUME NEW V, NEW q \in AnyQuestion(V), NEW params, params = GrpcParams(q.params)
    PROVE  /\ Rest(InRest(q)).counted = 200
           /\ \E outcome :
                 /\ Rest(InRest(q)).answer = Answer(outcome, q.production)
                 /\ q.route = "devices" => outcome = DeviceList(q)
                 /\ q.route = "device" => outcome = OneDevice(q)
                 /\ q.route = "series" =>
                        outcome = IF Issues(params) = {} THEN Series(q, Parse(params))
                                  ELSE Throws(HttpException(400, Absent, Issues(params)))
<1>1. PICK r : r = InRest(q)
  OBVIOUS
<1>2. /\ r.route = q.route /\ r.id = q.id /\ r.devices = q.devices /\ r.shadows = q.shadows
      /\ r.telemetry = q.telemetry /\ r.refreshes = q.refreshes /\ r.dbUp = q.dbUp
      /\ r.redisUp = q.redisUp /\ r.production = q.production
  BY <1>1, Zenon DEF InRest, AnyQuestion
<1>3. r.params = params
  <2>1. r.params = [f \in DOMAIN q.params |->
                       IF q.params[f] = Empty THEN Absent ELSE q.params[f]]
    BY <1>1, Zenon DEF InRest, AnyQuestion
  <2> QED BY <2>1, ParamsOfBoth, Zenon
<1>4. PICK outcome : outcome = DevicesController(r)
  OBVIOUS
<1>5. Rest(r).answer = Answer(outcome, q.production) /\ Rest(r).counted = 200
  BY <1>2, <1>4 DEF Rest, Answer, intercept
<1>6. q.route = "devices" => outcome = DeviceList(q)
  BY <1>2, <1>4 DEF DevicesController, DeviceList
<1>7. q.route = "device" => outcome = OneDevice(q)
  BY <1>2, <1>4 DEF DevicesController, OneDevice
<1>8. ASSUME q.route = "series"
      PROVE  outcome = IF Issues(params) = {} THEN Series(q, Parse(params))
                       ELSE Throws(HttpException(400, Absent, Issues(params)))
  <2>1. PICK piped : piped = transform(params)
    OBVIOUS
  <2>2. outcome = IF Succeeds(piped) THEN Series(r, piped.value) ELSE piped
    BY <1>2, <1>3, <1>4, <1>8, <2>1 DEF DevicesController
  <2>3. CASE Issues(params) = {}
    <3>1. piped = [value |-> Parse(params)]
      BY <2>1, <2>3 DEF transform, Returns
    <3>2. Succeeds(piped) /\ piped.value = Parse(params)
      BY <3>1 DEF Succeeds
    <3>3. Series(r, Parse(params)) = Series(q, Parse(params))
      BY <1>2 DEF Series
    <3> QED BY <2>2, <2>3, <3>2, <3>3
  <2>4. CASE Issues(params) # {}
    <3>1. piped = Throws(HttpException(400, Absent, Issues(params)))
      BY <2>1, <2>4 DEF transform
    <3>2. ~Succeeds(piped)
      BY <3>1 DEF Succeeds, Throws
    <3> QED BY <2>2, <2>4, <3>1, <3>2
  <2> QED BY <2>3, <2>4
<1> QED BY <1>1, <1>5, <1>6, <1>7, <1>8, Zenon

LEMMA OutcomesOfGrpc ==
    ASSUME NEW V, NEW q \in AnyQuestion(V), NEW params, params = GrpcParams(q.params)
    PROVE  \E outcome :
              /\ Grpc(q) = IF Succeeds(outcome) THEN Convert(q, outcome.value) ELSE Rejected
              /\ q.route = "devices" => outcome = DeviceList(q)
              /\ q.route = "device" => outcome = OneDevice(q)
              /\ q.route = "series" =>
                     outcome = IF Issues(params) = {} THEN Series(q, Parse(params))
                               ELSE Throws(PlainError)
<1>1. PICK outcome : outcome = DevicesGrpcController(q)
  OBVIOUS
<1>2. Grpc(q) = IF Succeeds(outcome) THEN Convert(q, outcome.value) ELSE Rejected
  BY <1>1, Zenon DEF Grpc
<1>3. q.route = "devices" => outcome = DeviceList(q)
  BY <1>1 DEF DevicesGrpcController
<1>4. q.route = "device" => outcome = OneDevice(q)
  BY <1>1 DEF DevicesGrpcController
<1>5. q.route = "series" =>
          outcome = IF Issues(params) = {} THEN Series(q, Parse(params)) ELSE Throws(PlainError)
  BY <1>1 DEF DevicesGrpcController
<1> QED BY <1>2, <1>3, <1>4, <1>5, Zenon

LEMMA Returned ==
    ASSUME NEW v, NEW outcome, outcome = Returns(v), NEW production
    PROVE  /\ Succeeds(outcome) /\ outcome.value = v
           /\ Answer(outcome, production).status = 200
           /\ Answer(outcome, production).body = v
<1>1. Succeeds(outcome) /\ outcome.value = v
  BY DEF Succeeds, Returns
<1> QED BY <1>1 DEF Answer

LEMMA StoreFailed ==
    ASSUME NEW outcome, outcome = Throws(PlainError), NEW production,
           NEW answer, answer = Answer(outcome, production)
    PROVE  /\ ~Succeeds(outcome) /\ answer.status = 500
           /\ production => answer.message = Fallback
<1>1. ~Succeeds(outcome) /\ outcome.exception = PlainError
  BY DEF Succeeds, Throws
<1>2. ~PlainError.http
  BY DEF PlainError
<1>3. PICK shown : shown = IF production THEN Fallback ELSE PlainError.message
  OBVIOUS
<1>4. answer = [status |-> 500, errors |-> {}, message |-> shown]
  <2>1. catch(PlainError, production) = [status |-> 500, errors |-> {}, message |-> shown]
    BY <1>2, <1>3, Zenon DEF catch
  <2>2. answer = catch(outcome.exception, production)
    BY <1>1, Zenon DEF Answer
  <2> QED BY <1>1, <2>1, <2>2, Zenon
<1>5. answer.status = 500 /\ answer.message = shown
  BY <1>4
<1> QED BY <1>1, <1>3, <1>5, Zenon

LEMMA QuestionFailed ==
    ASSUME NEW status, NEW message, NEW errors,
           NEW outcome, outcome = Throws(HttpException(status, message, errors)),
           NEW production, NEW answer, answer = Answer(outcome, production)
    PROVE  ~Succeeds(outcome) /\ answer.status = status /\ answer.errors = errors
<1>1. PICK e : e = HttpException(status, message, errors)
  OBVIOUS
<1>2. e.http /\ e.status = status /\ e.errors = errors
  BY <1>1 DEF HttpException
<1>3. ~Succeeds(outcome) /\ outcome.exception = e
  BY <1>1 DEF Succeeds, Throws
<1>4. PICK shown : shown = IF e.errors # {} THEN "Validation failed" ELSE e.message
  OBVIOUS
<1>5. answer = [status |-> e.status, errors |-> e.errors, message |-> shown]
  <2>1. catch(e, production) = [status |-> e.status, errors |-> e.errors, message |-> shown]
    BY <1>2, <1>4, Zenon DEF catch
  <2>2. answer = catch(outcome.exception, production)
    BY <1>3, Zenon DEF Answer
  <2> QED BY <1>3, <2>1, <2>2, Zenon
<1> QED BY <1>2, <1>3, <1>5

\* A question that fails, and one that is answered.
LEMMA AlikeWhenFailing ==
    ASSUME NEW q, NEW grpc, grpc = Rejected, NEW rest, rest.status # 200,
           rest.status = 400 <=> Malformed(q),
           rest.status = 404 <=> Unknown(q),
           rest.status = 500 =>
               ~(q.dbUp /\ q.redisUp) /\ (q.production => rest.message = Fallback),
           rest.status = 400 => \A f \in rest.errors : q.params[f] \in {NoText, NoTime}
    PROVE  Alike(q, rest, grpc)
BY Zenon DEF Alike

LEMMA AlikeWhenAnswered ==
    ASSUME NEW q, NEW rest, rest.status = 200, ~Malformed(q), ~Unknown(q),
           NEW grpc, grpc # Rejected, SameContent(q, rest.body, grpc)
    PROVE  Alike(q, rest, grpc)
<1>1. rest.status # 400 /\ rest.status # 404 /\ rest.status # 500
  OBVIOUS
<1> QED BY <1>1, Zenon DEF Alike

LEMMA GrpcDevice ==
    ASSUME NEW W, Empty \in W, NEW row \in SummaryRows(W), NEW device,
           device = toGrpcDevice(row)
    PROVE  /\ device \in SummaryRows(W)
           /\ device.device_id = row.device_id /\ device.status = row.status
<1>1. PICK last : last = IF row.last = Absent THEN Empty ELSE row.last
  OBVIOUS
<1>2. device = [row EXCEPT !.last = last]
  BY <1>1, Zenon DEF toGrpcDevice
<1>3. last \in Optional(W)
  BY <1>1 DEF SummaryRows, Optional
<1> QED BY <1>2, <1>3 DEF SummaryRows

LEMMA OfIds ==
    ASSUME NEW X, NEW f \in UNION {[ids -> X] : ids \in SUBSET Int}
    PROVE  \A id \in DOMAIN f : id \in Int /\ f[id] \in X
<1>1. PICK ids \in SUBSET Int : f \in [ids -> X]
  BY Zenon
<1> QED BY <1>1

LEMMA StoresOf ==
    ASSUME NEW V, NEW q \in AnyQuestion(V)
    PROVE  /\ IsFiniteSet(DOMAIN q.devices) /\ IsFiniteSet(q.telemetry)
           /\ \A id \in DOMAIN q.devices : id \in Int /\ q.devices[id] \in Int
           /\ \A id \in DOMAIN q.shadows : q.shadows[id] \in V
           /\ AreReadings(q.telemetry) /\ q.refreshes \in SUBSET Int
<1>1. /\ q.devices \in UNION {[ids -> Int] : ids \in SUBSET Int}
      /\ q.shadows \in UNION {[ids -> V] : ids \in SUBSET Int}
  BY Zenon DEF AnyQuestion
<1>2. IsFiniteSet(DOMAIN q.devices) /\ IsFiniteSet(q.telemetry)
  BY Zenon DEF AnyQuestion
<1>3. AreReadings(q.telemetry) /\ q.refreshes \in SUBSET Int
  BY <1>2 DEF AnyQuestion, AreReadings
<1> QED BY <1>1, <1>2, <1>3, OfIds

LEMMA ListsAlike ==
    ASSUME NEW V, Empty \in V, FailuresDiffer(V),
           NEW q \in AnyQuestion(V), q.route = "devices",
           NEW outcome, outcome = DeviceList(q),
           NEW rest, rest = Answer(outcome, q.production),
           NEW grpc, grpc = IF Succeeds(outcome) THEN Convert(q, outcome.value) ELSE Rejected
    PROVE  Alike(q, rest, grpc)
<1>1. ~Malformed(q) /\ ~Unknown(q)
  BY DEF Malformed, Unknown
<1>2. CASE ~q.dbUp \/ (~q.redisUp /\ DOMAIN q.devices # {})
  <2>1. outcome = Throws(PlainError)
    BY <1>2, Zenon DEF DeviceList
  <2>2. /\ grpc = Rejected /\ rest.status = 500
        /\ q.production => rest.message = Fallback
    BY <2>1, StoreFailed
  <2>3. rest.status # 200 /\ rest.status # 400 /\ rest.status # 404
    BY <2>2
  <2>4. ~(q.dbUp /\ q.redisUp)
    BY <1>2, Zenon
  <2> QED BY <1>1, <2>2, <2>3, <2>4, AlikeWhenFailing
<1>3. CASE ~(~q.dbUp \/ (~q.redisUp /\ DOMAIN q.devices # {}))
  <2>1. PICK list : list = listDevices(q.devices, q.shadows, Now)
    OBVIOUS
  <2>2. outcome = Returns(list)
    BY <1>3, <2>1, Zenon DEF DeviceList
  <2>3. rest.status = 200 /\ rest.body = list /\ grpc = Convert(q, list)
    BY <2>2, Returned
  <2>4. list \in Seq(SummaryRows(V))
    BY <2>1, StoresOf, DeviceRows
  <2>5. grpc = [i \in DOMAIN list |-> toGrpcDevice(list[i])]
    BY <2>3, Zenon DEF Convert
  <2>6. \A i \in DOMAIN list : list[i] \in SummaryRows(V)
    BY <2>4
  <2>7. ASSUME NEW i \in DOMAIN list
        PROVE  grpc[i] \in SummaryRows(V) /\ grpc[i].device_id = list[i].device_id
    <3>1. grpc[i] = toGrpcDevice(list[i]) /\ list[i] \in SummaryRows(V)
      BY <2>5, <2>6, Zenon
    <3> QED BY <3>1, GrpcDevice
  <2>8. grpc \in Seq(SummaryRows(V)) /\ DOMAIN grpc = DOMAIN list
    <3> HIDE DEF Answer
    <3>1. DOMAIN list = 1 .. Len(list) /\ Len(list) \in Nat
      BY <2>4
    <3>2. grpc \in [1 .. Len(list) -> SummaryRows(V)]
      BY <2>5, <2>7, <3>1
    <3> QED BY <3>1, <3>2
  <2>9. grpc # Rejected
    BY <2>8, Zenon DEF FailuresDiffer
  <2>10. SameContent(q, rest.body, grpc)
    BY <2>3, <2>7, <2>8, Zenon DEF SameContent
  <2> QED BY <1>1, <2>3, <2>9, <2>10, AlikeWhenAnswered, Zenon
<1> QED BY <1>2, <1>3, Zenon

LEMMA DevicesAlike ==
    ASSUME NEW V, Empty \in V, FailuresDiffer(V),
           NEW q \in AnyQuestion(V), q.route = "device",
           NEW outcome, outcome = OneDevice(q),
           NEW rest, rest = Answer(outcome, q.production),
           NEW grpc, grpc = IF Succeeds(outcome) THEN Convert(q, outcome.value) ELSE Rejected
    PROVE  Alike(q, rest, grpc)
<1>0. ~Malformed(q)
  BY DEF Malformed
<1>1. PICK device : device = findOne(q.id, q.devices, q.shadows, Now)
  OBVIOUS
<1>2. q.id \in DOMAIN q.devices => device \in SummaryRows(V) /\ device # NotFound
  <2> SUFFICES ASSUME q.id \in DOMAIN q.devices
               PROVE  device \in SummaryRows(V) /\ device # NotFound
    OBVIOUS
  <2>1. /\ q.id \in Int /\ q.devices[q.id] \in Int
        /\ \A id \in DOMAIN q.shadows : q.shadows[id] \in V
    BY StoresOf, Zenon
  <2> QED BY <1>1, <2>1, DeviceFound
<1>3. q.id \notin DOMAIN q.devices => device = NotFound
  BY <1>1, Zenon DEF findOne
<1>4. CASE ~q.dbUp \/ (device # NotFound /\ ~q.redisUp)
  <2>1. outcome = Throws(PlainError)
    BY <1>1, <1>4, Zenon DEF OneDevice
  <2>2. /\ grpc = Rejected /\ rest.status = 500
        /\ q.production => rest.message = Fallback
    BY <2>1, StoreFailed
  <2>3. rest.status # 200 /\ rest.status # 400 /\ rest.status # 404
    BY <2>2
  <2>4. ~(q.dbUp /\ q.redisUp) /\ ~Unknown(q)
    BY <1>3, <1>4, Zenon DEF Unknown
  <2> QED BY <1>0, <2>2, <2>3, <2>4, AlikeWhenFailing
<1>5. CASE q.dbUp /\ device = NotFound
  <2>1. outcome = Throws(HttpException(404, NotFound, {}))
    BY <1>1, <1>5, Zenon DEF OneDevice
  <2>2. grpc = Rejected /\ rest.status = 404
    BY <2>1, QuestionFailed
  <2>3. rest.status # 200 /\ rest.status # 400 /\ rest.status # 500
    BY <2>2
  <2>4. Unknown(q)
    BY <1>2, <1>5, Zenon DEF Unknown
  <2> QED BY <1>0, <2>2, <2>3, <2>4, AlikeWhenFailing
<1>6. CASE q.dbUp /\ q.redisUp /\ device # NotFound
  <2>1. outcome = Returns(device)
    BY <1>1, <1>6, Zenon DEF OneDevice
  <2>2. rest.status = 200 /\ rest.body = device /\ grpc = Convert(q, device)
    BY <2>1, Returned
  <2>3. grpc = toGrpcDevice(device)
    BY <2>2 DEF Convert
  <2>4. device \in SummaryRows(V) /\ ~Unknown(q)
    BY <1>2, <1>3, <1>6, Zenon DEF Unknown
  <2>5. grpc \in SummaryRows(V) /\ grpc.status = device.status
    BY <2>3, <2>4, GrpcDevice, Zenon
  <2>6. grpc # Rejected
    BY <2>5, Zenon DEF FailuresDiffer
  <2>7. SameContent(q, rest.body, grpc)
    BY <2>2, <2>5 DEF SameContent
  <2> QED BY <1>0, <2>2, <2>4, <2>6, <2>7, AlikeWhenAnswered, Zenon
<1> QED BY <1>4, <1>5, <1>6, Zenon

LEMMA GrpcPoint ==
    ASSUME NEW point, point \in [time : Int, value : Int, arrived : Int] \/
                      (point \in [time : Int, min : Int, max : Int] /\ point.min <= point.max),
           NEW sent, sent = toGrpcPoint(point)
    PROVE  sent \in [time : Int, min : Int, max : Int] /\ SamePoint(point, sent)
<1>1. CASE point \in [time : Int, value : Int, arrived : Int]
  <2>1. "value" \in DOMAIN point
    BY <1>1
  <2>2. sent = [time |-> point.time, min |-> point.value, max |-> point.value]
    BY <2>1 DEF toGrpcPoint
  <2> QED BY <1>1, <2>1, <2>2 DEF SamePoint
<1>2. CASE point \in [time : Int, min : Int, max : Int] /\ point.min <= point.max
  <2>1. "value" \notin DOMAIN point
    BY <1>2
  <2>2. sent = [time |-> point.time, min |-> point.min, max |-> point.max]
    BY <2>1 DEF toGrpcPoint
  <2> QED BY <1>2, <2>1, <2>2 DEF SamePoint
<1> QED BY <1>1, <1>2

LEMMA ParsedParams ==
    ASSUME NEW params, DOMAIN params = {"metric", "resolution", "from", "to"},
           Issues(params) = {}, NEW now \in Int, NEW parsed, parsed = Parse(params)
    PROVE  /\ parsed.resolution \in Resolutions
           /\ From(parsed, now) \in Int /\ To(parsed, now) \in Int
<1>1. /\ params.resolution \in Resolutions \union {Absent}
      /\ params.from \in Int \union {Absent} /\ params.to \in Int \union {Absent}
  BY DEF Issues
<1>2. /\ parsed.resolution \in Resolutions
      /\ parsed.from = params.from /\ parsed.to = params.to
  <2>1. CASE params.resolution = Absent
    <3>1. parsed = [params EXCEPT !.resolution = "1m"]
      BY <2>1, Zenon DEF Parse
    <3> QED BY <3>1 DEF Resolutions
  <2>2. CASE params.resolution # Absent
    BY <1>1, <2>2 DEF Parse
  <2> QED BY <2>1, <2>2
<1> QED BY <1>1, <1>2, QueryAssumption DEF From, To

LEMMA PointsOfSeries ==
    ASSUME NEW telemetry, AreReadings(telemetry),
           NEW refreshes \in SUBSET Int, NEW params, params.resolution \in Resolutions,
           NEW now \in Int, From(params, now) \in Int, To(params, now) \in Int,
           NEW points, points = querySeries(telemetry, refreshes, params, now).points
    PROVE  \E rows :
              /\ points \in Seq(rows)
              /\ \A p \in rows : \/ p \in [time : Int, value : Int, arrived : Int]
                                 \/ /\ p \in [time : Int, min : Int, max : Int]
                                    /\ p.min <= p.max
<1>0. PICK from \in Int, to \in Int : From(params, now) = from /\ To(params, now) = to
  OBVIOUS
<1>1. IsFiniteSet(telemetry) /\ \A r \in telemetry : r.time \in Int
  BY DEF AreReadings
<1>2. CASE params.resolution = "raw"
  <2>1. points = rawPoints(telemetry, params, now)
    BY <1>2 DEF querySeries
  <2>2. points \in Seq(telemetry)
    BY <1>0, <1>1, <2>1, QueryAssumption, RawHasNoHoles
  <2> QED BY <2>2 DEF AreReadings
<1>3. CASE params.resolution # "raw"
  <2>0. PICK view : view = ViewPolicy[params.resolution]
    OBVIOUS
  <2>1. points = aggregatePoints(telemetry, view, refreshes, params, now)
    BY <1>3, <2>0 DEF querySeries
  <2>4. IsView(view)
    BY <1>3, <2>0, QueryAssumption DEF Resolutions, IsView
  <2>2. points \in Seq(View(telemetry, view, refreshes))
    BY <1>0, <2>1, <2>4, QueryAssumption, AggregateHasNoHoles
  <2>3. \A p \in View(telemetry, view, refreshes) :
            p \in [time : Int, min : Int, max : Int] /\ p.min <= p.max
    BY <2>4, ViewHasRanges
  <2> QED BY <2>2, <2>3
<1> QED BY <1>2, <1>3

LEMMA SeriesAlike ==
    ASSUME NEW V, FailuresDiffer(V), NEW q \in AnyQuestion(V), q.route = "series",
           NEW params, params = GrpcParams(q.params),
           NEW outcome, outcome = IF Issues(params) = {} THEN Series(q, Parse(params))
                                  ELSE Throws(HttpException(400, Absent, Issues(params))),
           NEW rest, rest = Answer(outcome, q.production),
           NEW result, result = IF Issues(params) = {} THEN Series(q, Parse(params))
                                ELSE Throws(PlainError),
           NEW grpc, grpc = IF Succeeds(result) THEN Convert(q, result.value) ELSE Rejected
    PROVE  Alike(q, rest, grpc)
<1>0. ~Unknown(q)
  BY DEF Unknown
<1>1. /\ Issues(params) = {} <=> ~Malformed(q)
      /\ \A f \in Issues(params) : q.params[f] \in {NoText, NoTime}
  BY IssuesAreMalformed
<1>2. CASE Issues(params) # {}
  <2>1. /\ outcome = Throws(HttpException(400, Absent, Issues(params)))
        /\ result = Throws(PlainError)
    BY <1>2, Zenon
  <2>2. rest.status = 400 /\ rest.errors = Issues(params)
    BY <2>1, QuestionFailed
  <2>3. grpc = Rejected
    BY <2>1, StoreFailed
  <2>4. rest.status # 200 /\ rest.status # 404 /\ rest.status # 500
    BY <2>2
  <2> QED BY <1>0, <1>1, <1>2, <2>2, <2>3, <2>4, AlikeWhenFailing
<1>3. CASE Issues(params) = {} /\ ~q.dbUp
  <2>1. outcome = Throws(PlainError) /\ result = Throws(PlainError)
    BY <1>3, Zenon DEF Series
  <2>2. /\ grpc = Rejected /\ rest.status = 500
        /\ q.production => rest.message = Fallback
    BY <2>1, StoreFailed
  <2>3. rest.status # 200 /\ rest.status # 400 /\ rest.status # 404
    BY <2>2
  <2>4. ~(q.dbUp /\ q.redisUp) /\ ~Malformed(q)
    BY <1>1, <1>3, Zenon
  <2> QED BY <1>0, <2>2, <2>3, <2>4, AlikeWhenFailing
<1>4. CASE Issues(params) = {} /\ q.dbUp
  <2>1. PICK parsed : parsed = Parse(params)
    OBVIOUS
  <2>2. /\ parsed.resolution \in Resolutions
        /\ From(parsed, Now) \in Int /\ To(parsed, Now) \in Int
    BY <1>4, <2>1, ParamsOfBoth, ParsedParams, QueryAssumption
  <2>5. PICK v : v = querySeries(q.telemetry, q.refreshes, parsed, Now)
    OBVIOUS
  <2>6. outcome = Returns(v) /\ result = Returns(v)
    BY <1>4, <2>1, <2>5, Zenon DEF Series
  <2>7. rest.status = 200 /\ rest.body = v /\ grpc = Convert(q, v)
    BY <2>6, Returned
  <2> DEFINE points == [i \in DOMAIN v.points |-> toGrpcPoint(v.points[i])]
  <2>8. Convert(q, v) = [v EXCEPT !.points = points]
    BY Zenon DEF Convert
  <2>9. PICK rows : /\ v.points \in Seq(rows)
                    /\ \A p \in rows : \/ p \in [time : Int, value : Int, arrived : Int]
                                       \/ /\ p \in [time : Int, min : Int, max : Int]
                                          /\ p.min <= p.max
    BY <2>2, <2>5, StoresOf, PointsOfSeries, QueryAssumption
  <2>10. ASSUME NEW i \in DOMAIN v.points
         PROVE  /\ points[i] \in [time : Int, min : Int, max : Int]
                /\ SamePoint(v.points[i], points[i])
    <3>1. v.points[i] \in rows
      BY <2>9
    <3>2. points[i] = toGrpcPoint(v.points[i])
      OBVIOUS
    <3> QED BY <2>9, <3>1, <3>2, GrpcPoint
  <2>11. points \in Seq([time : Int, min : Int, max : Int]) /\ DOMAIN points = DOMAIN v.points
    <3>1. PICK n \in Nat : DOMAIN v.points = 1 .. n
      BY <2>9
    <3>2. PICK Points : Points = [time : Int, min : Int, max : Int]
      OBVIOUS
    <3>3. points \in [1 .. n -> Points]
      BY <2>10, <3>1, <3>2
    <3>4. points \in Seq(Points) /\ DOMAIN points = 1 .. n
      BY <3>3
    <3> QED BY <3>1, <3>2, <3>4
  <2> HIDE DEF points
  <2>12. /\ v.resolution = parsed.resolution /\ v.from = From(parsed, Now)
         /\ v.to = To(parsed, Now)
         /\ v = [resolution |-> v.resolution, from |-> v.from, to |-> v.to,
                 points |-> v.points]
    BY <2>5 DEF querySeries
  <2>13. grpc = [resolution |-> v.resolution, from |-> v.from, to |-> v.to, points |-> points]
    BY <2>7, <2>8, <2>12
  <2>14. grpc \in SeriesRows
    <3>1. v.resolution \in Resolutions /\ v.from \in Int /\ v.to \in Int
      BY <2>2, <2>12, Zenon
    <3> QED BY <2>11, <2>13, <3>1 DEF SeriesRows
  <2>15. grpc # Rejected /\ ~Malformed(q)
    BY <1>1, <1>4, <2>14, Zenon DEF FailuresDiffer
  <2>16. SameContent(q, rest.body, grpc)
    <3>1. grpc.from = v.from /\ grpc.to = v.to /\ grpc.points = points
      BY <2>13
    <3>2. /\ DOMAIN grpc.points = DOMAIN v.points
          /\ \A i \in DOMAIN grpc.points : SamePoint(v.points[i], grpc.points[i])
      BY <2>10, <2>11, <3>1, Zenon
    <3>3. q.route # "devices" /\ q.route # "device"
      OBVIOUS
    <3>4. DOMAIN grpc.points = DOMAIN v.points /\ grpc.from = v.from /\ grpc.to = v.to
      BY <3>1, <3>2, Zenon
    <3>5. SameContent(q, v, grpc)
      BY <3>2, <3>3, <3>4, Zenon DEF SameContent
    <3> QED BY <2>7, <3>5, Zenon
  <2> QED BY <1>0, <2>7, <2>15, <2>16, AlikeWhenAnswered
<1> QED BY <1>2, <1>3, <1>4

LEMMA QuestionsAlike ==
    ASSUME NEW V, Empty \in V, FailuresDiffer(V), NEW q \in AnyQuestion(V)
    PROVE  AnsweredAlike(q)
<1>1. PICK params : params = GrpcParams(q.params)
  OBVIOUS
<1>2. PICK rest, grpc : rest = Rest(InRest(q)).answer /\ grpc = Grpc(q)
  OBVIOUS
<1>3. PICK outcome :
          /\ rest = Answer(outcome, q.production)
          /\ q.route = "devices" => outcome = DeviceList(q)
          /\ q.route = "device" => outcome = OneDevice(q)
          /\ q.route = "series" =>
                 outcome = IF Issues(params) = {} THEN Series(q, Parse(params))
                           ELSE Throws(HttpException(400, Absent, Issues(params)))
  BY <1>1, <1>2, OutcomesOfRest
<1>4. PICK result :
          /\ grpc = IF Succeeds(result) THEN Convert(q, result.value) ELSE Rejected
          /\ q.route = "devices" => result = DeviceList(q)
          /\ q.route = "device" => result = OneDevice(q)
          /\ q.route = "series" =>
                 result = IF Issues(params) = {} THEN Series(q, Parse(params))
                          ELSE Throws(PlainError)
  BY <1>1, <1>2, OutcomesOfGrpc
<1>5. q.route = "devices" => Alike(q, rest, grpc)
  BY <1>3, <1>4, ListsAlike
<1>6. q.route = "device" => Alike(q, rest, grpc)
  BY <1>3, <1>4, DevicesAlike
<1>7. q.route = "series" => Alike(q, rest, grpc)
  BY <1>1, <1>3, <1>4, SeriesAlike
<1>8. q.route \in {"devices", "device", "series"}
  BY DEF AnyQuestion
<1>9. Alike(q, rest, grpc) /\ Rest(InRest(q)).counted = 200
  BY <1>5, <1>6, <1>7, <1>8, OutcomesOfRest
<1> QED BY <1>2, <1>9, Zenon DEF AnsweredAlike

\* AnswersAgree, for any question and whatever the stores hold, up or down: the REST
\* and the gRPC controllers answer it with the same content or both fail, and the
\* status says why.
THEOREM QuestionsAreAnsweredAlike ==
    /\ \A V : Empty \in V /\ FailuresDiffer(V) => \A q \in AnyQuestion(V) : AnsweredAlike(q)
    /\ Spec => []AnswersAgree
<1>1. ASSUME NEW V, Empty \in V, FailuresDiffer(V), NEW q \in AnyQuestion(V)
      PROVE  AnsweredAlike(q)
  BY <1>1, QuestionsAlike
<1>2. Init => AnswersAgree
  <2> SUFFICES ASSUME Init, call.fn = "question" PROVE AnsweredAlike(call)
    BY DEF AnswersAgree
  <2> DEFINE V == {"s", "t", Empty}
  <2>1. call \in QuestionCalls
    BY CallOfName
  <2>a. /\ call.devices \in UNION {[ids -> {0, 1}] : ids \in SUBSET (1 .. 2)}
        /\ call.shadows \in UNION {[ids -> {"s"}] : ids \in SUBSET {1}}
    BY <2>1, Zenon DEF QuestionCalls
  <2>2. PICK ids : ids \subseteq 1 .. 2 /\ call.devices \in [ids -> {0, 1}]
    BY <2>a, Zenon
  <2>3. PICK others : others \subseteq {1} /\ call.shadows \in [others -> {"s"}]
    BY <2>a, Zenon
  <2>4. call.devices \in UNION {[known -> Int] : known \in SUBSET Int}
    <3>1. call.devices \in [ids -> Int] /\ ids \in SUBSET Int
      BY <2>2
    <3> QED BY <3>1, Zenon
  <2>5. call.shadows \in UNION {[known -> V] : known \in SUBSET Int}
    <3>1. call.shadows \in [others -> V] /\ others \in SUBSET Int
      BY <2>3
    <3> QED BY <3>1, Zenon
  <2>6. IsFiniteSet(DOMAIN call.devices)
    <3>1. DOMAIN call.devices \subseteq 1 .. 2
      BY <2>2, Zenon
    <3> QED BY <3>1, InRangeFinite
  <2>7. call.telemetry \subseteq [time : Int, value : Int, arrived : Int] /\ IsFiniteSet(call.telemetry)
    <3>1. PICK a, b : /\ a = [time |-> 1, value |-> 1, arrived |-> 1]
                     /\ b = [time |-> 2, value |-> 2, arrived |-> 3]
      OBVIOUS
    <3>2. call.telemetry \in {{}, {a, b}}
      BY <2>1, <3>1, Zenon DEF QuestionCalls
    <3>3. IsFiniteSet({}) /\ IsFiniteSet({a} \union {b}) /\ {a} \union {b} = {a, b}
      BY FS_EmptySet, FS_Singleton, FS_Union
    <3> QED BY <3>1, <3>2, <3>3
  <2>8. /\ call.fn \in {"question"} /\ call.route \in {"devices", "device", "series"}
        /\ call.id \in Int /\ call.refreshes \in SUBSET Int
        /\ call.params \in [metric : TELEMETRY_METRICS \union {NoText},
                            resolution : Resolutions \union {Empty, NoText},
                            from : Int \union {Empty, NoTime}, to : Int \union {Empty, NoTime}]
    <3>1. /\ call.fn \in {"question"} /\ call.route \in {"devices", "device", "series"}
          /\ call.id \in {1} /\ call.refreshes \in {3 .. Now}
          /\ call.params \in [metric : TELEMETRY_METRICS \union {NoText},
                              resolution : {"raw", "1m", Empty, NoText},
                              from : {1, Empty, NoTime}, to : {2, Empty, NoTime}]
      BY <2>1, Zenon DEF QuestionCalls
    <3> QED BY <3>1, QueryAssumption DEF Resolutions
  <2>9. call.dbUp \in BOOLEAN /\ call.redisUp \in BOOLEAN /\ call.production \in BOOLEAN
    BY <2>1, Zenon DEF QuestionCalls
  <2>10. call = [fn |-> call.fn, route |-> call.route, id |-> call.id, params |-> call.params,
                 devices |-> call.devices, shadows |-> call.shadows,
                 telemetry |-> call.telemetry, refreshes |-> call.refreshes,
                 dbUp |-> call.dbUp, redisUp |-> call.redisUp,
                 production |-> call.production]
    BY <2>1 DEF QuestionCalls
  <2> HIDE DEF V
  <2>11. call \in AnyQuestion(V)
    BY <2>4, <2>5, <2>6, <2>7, <2>8, <2>9, <2>10, Zenon DEF AnyQuestion
  <2>12. Empty \in V /\ FailuresDiffer(V)
    BY EvaluationAssumption, Zenon DEF V
  <2> QED BY <1>1, <2>11, <2>12
<1>3. Spec => []AnswersAgree
  BY <1>2, CallsStay, PTL
<1> QED BY <1>1, <1>3

-----------------------------------------------------------------------------
(* The simulator.                                                          *)

Names == {<<"d">>, <<"e">>}
Roles == {"normal", "offline", "spike"}
AnyDevice ==
    [device_id : Names, role : Roles,
     temp : Int, humidity : Int, battery : Int, lat : Int, lon : Int]

\* Math.random() - 0.5, in units of 0.0001.
AnyDraw == {d \in Int : -5000 <= d /\ d <= 4999}
AnyDraws == [temp : AnyDraw, humidity : AnyDraw, lat : AnyDraw, lon : AnyDraw]

InLimits(x, low, high) == x \in Int /\ low <= x /\ x <= high

\* Within the limits of the schema, field by field.
LEMMA WithinByField ==
    ASSUME NEW reading,
           reading.temp \in Int, reading.humidity \in Int, reading.battery \in Int,
           reading.lat \in Int, reading.lon \in Int
    PROVE  (\A f \in Metrics : Within(reading[f], Limits[f])) <=>
              /\ InLimits(reading.temp, -600000, 1500000)
              /\ InLimits(reading.humidity, 0, 1000000)
              /\ InLimits(reading.battery, 0, 1000000)
              /\ InLimits(reading.lat, -900000, 900000)
              /\ InLimits(reading.lon, -1800000, 1800000)
<1>1. PICK t, h, b, x, y :
         /\ t = reading.temp /\ h = reading.humidity /\ b = reading.battery
         /\ x = reading.lat /\ y = reading.lon
  OBVIOUS
<1>2. (\A f \in Metrics : Within(reading[f], Limits[f])) <=>
         /\ Within(t, <<-60, 150>>) /\ Within(h, <<0, 100>>) /\ Within(b, <<0, 100>>)
         /\ Within(x, <<-90, 90>>) /\ Within(y, <<-180, 180>>)
  BY <1>1 DEF Metrics, Limits
<1>3. \A z, low, high : Within(z, <<low, high>>) <=> z >= low * Unit /\ z <= high * Unit
  BY DEF Within
<1> QED BY <1>1, <1>2, <1>3 DEF InLimits, Unit

LEMMA FieldsOfDevice ==
    ASSUME NEW device \in AnyDevice
    PROVE  /\ device.temp \in Int /\ device.humidity \in Int /\ device.battery \in Int
           /\ device.lat \in Int /\ device.lon \in Int
           /\ device.device_id \in Names /\ device.role \in Roles
BY DEF AnyDevice

LEMMA FieldsOfDraws ==
    ASSUME NEW draws \in AnyDraws
    PROVE  /\ draws.temp \in AnyDraw /\ draws.humidity \in AnyDraw
           /\ draws.lat \in AnyDraw /\ draws.lon \in AnyDraw
BY DEF AnyDraws

LEMMA SimulatedByField ==
    ASSUME NEW device \in AnyDevice
    PROVE  Simulated(device) <=>
              /\ InLimits(device.temp, 170000, 1000000)
              /\ InLimits(device.humidity, 300000, 700000)
              /\ InLimits(device.battery, 0, 1000000)
              /\ InLimits(device.lat, -900000, 900000)
              /\ InLimits(device.lon, -1800000, 1800000)
<1>1. PICK t \in Int, h \in Int, b \in Int, x \in Int, y \in Int :
         /\ t = device.temp /\ h = device.humidity /\ b = device.battery
         /\ x = device.lat /\ y = device.lon
  BY FieldsOfDevice
<1>2. (\A f \in Metrics : Within(device[f], Limits[f])) <=>
         /\ InLimits(t, -600000, 1500000) /\ InLimits(h, 0, 1000000) /\ InLimits(b, 0, 1000000)
         /\ InLimits(x, -900000, 900000) /\ InLimits(y, -1800000, 1800000)
  BY <1>1, WithinByField
<1>3. Simulated(device) <=>
         /\ t >= 170000 /\ t <= 1000000 /\ h >= 300000 /\ h <= 700000
         /\ \A f \in Metrics : Within(device[f], Limits[f])
  <2>1. \A z, low, high : Within(z, <<low, high>>) <=> z >= low * Unit /\ z <= high * Unit
    BY DEF Within
  <2> QED BY <1>1, <2>1 DEF Simulated, Unit
<1>4. Simulated(device) <=>
         /\ InLimits(t, 170000, 1000000) /\ InLimits(h, 300000, 700000) /\ InLimits(b, 0, 1000000)
         /\ InLimits(x, -900000, 900000) /\ InLimits(y, -1800000, 1800000)
  BY <1>2, <1>3 DEF InLimits
<1> QED BY <1>1, <1>4

\* A part is between the parts of the bounds.
LEMMA PartOfDraw ==
    ASSUME NEW d \in Int, -5000 <= d, d <= 4999
    PROVE  /\ d \div 5 \in Int /\ -1000 <= d \div 5 /\ d \div 5 <= 999
           /\ d \div 1000 \in Int /\ -5 <= d \div 1000 /\ d \div 1000 <= 4
OBVIOUS

LEMMA DeviceOfFields ==
    ASSUME NEW id \in Names, NEW role \in Roles,
           NEW t \in Int, NEW h \in Int, NEW b \in Int, NEW x \in Int, NEW y \in Int
    PROVE  [device_id |-> id, role |-> role, temp |-> t, humidity |-> h, battery |-> b,
            lat |-> x, lon |-> y] \in AnyDevice
BY DEF AnyDevice

\* A new device is drawn well inside its limits.
LEMMA NewDevices ==
    ASSUME NEW id \in Names, NEW role \in Roles,
           NEW draws \in AnyDraws
    PROVE  NewDevice(id, role, draws) \in AnyDevice /\ Simulated(NewDevice(id, role, draws))
<1>1. PICK temp \in AnyDraw, humidity \in AnyDraw, lat \in AnyDraw, lon \in AnyDraw :
         /\ temp = draws.temp /\ humidity = draws.humidity
         /\ lat = draws.lat /\ lon = draws.lon
  BY FieldsOfDraws
<1>2. PICK x, y : x = lat \div 5 /\ y = lon \div 5
  OBVIOUS
<1>3. InLimits(x, -1000, 999) /\ InLimits(y, -1000, 999)
  BY <1>2, PartOfDraw DEF AnyDraw, InLimits
<1>4. PICK t, h, u, v :
         /\ t = 20 * Unit + 5 * (temp + Unit \div 2)
         /\ h = 45 * Unit + 10 * (humidity + Unit \div 2)
         /\ u = 410082 + x /\ v = 289784 + y
  OBVIOUS
<1>5. /\ InLimits(t, 170000, 1000000) /\ InLimits(h, 300000, 700000)
      /\ InLimits(u, -900000, 900000) /\ InLimits(v, -1800000, 1800000)
  <2>1. Unit \div 2 = 5000 /\ 20 * Unit = 200000 /\ 45 * Unit = 450000
    BY DEF Unit
  <2>2. t = 200000 + 5 * (temp + 5000) /\ h = 450000 + 10 * (humidity + 5000)
    BY <1>4, <2>1
  <2>3. InLimits(temp + 5000, 0, 9999) /\ InLimits(humidity + 5000, 0, 9999)
    BY DEF AnyDraw, InLimits
  <2>4. InLimits(t, 170000, 1000000)
    BY <2>2, <2>3 DEF InLimits
  <2>5. InLimits(h, 300000, 700000)
    BY <2>2, <2>3 DEF InLimits
  <2> QED BY <1>3, <1>4, <2>4, <2>5 DEF InLimits
<1>6. PICK d : d = NewDevice(id, role, draws)
  OBVIOUS
<1>7. d = [device_id |-> id, role |-> role, temp |-> t, humidity |-> h,
           battery |-> 100 * Unit, lat |-> u, lon |-> v]
  BY <1>1, <1>2, <1>4, <1>6, SMT DEF NewDevice
<1>8. InLimits(100 * Unit, 0, 1000000)
  BY DEF Unit, InLimits
<1>9. d \in AnyDevice
  <2>1. t \in Int /\ h \in Int /\ 100 * Unit \in Int /\ u \in Int /\ v \in Int
    BY <1>5, <1>8 DEF InLimits
  <2> QED BY <1>7, <2>1, DeviceOfFields
<1>10. d.temp = t /\ d.humidity = h /\ d.battery = 100 * Unit /\ d.lat = u /\ d.lon = v
  BY <1>7
<1>11. Simulated(d)
  BY <1>5, <1>8, <1>9, <1>10, SimulatedByField
<1> QED BY <1>6, <1>9, <1>11

\* A temperature is drawn a tenth of the way to 22 or 95, give or take half a
\* degree: it stays between 17 and 100 without being clamped.
LEMMA TempDrawn ==
    ASSUME NEW t, InLimits(t, 170000, 1000000),
           NEW target \in {220000, 950000}, NEW d \in AnyDraw
    PROVE  InLimits(t + (target - t) \div 10 + d, 170000, 1000000)
<1>1. PICK gap \in Int : gap = target - t
  BY DEF InLimits
<1>2. PICK q \in Int : q = gap \div 10 /\ 10 * q <= gap /\ gap < 10 * q + 10
  OBVIOUS
<1>3. InLimits(t + q + d, 170000, 1000000)
  BY <1>1, <1>2 DEF AnyDraw, InLimits
<1>4. (target - t) \div 10 = q
  BY <1>1, <1>2
<1> QED BY <1>3, <1>4

LEMMA ClampedBetween ==
    ASSUME NEW value \in Int, NEW low \in Int, NEW high \in Int, low <= high
    PROVE  /\ InLimits(clamp(value, low, high), low, high)
           /\ InLimits(value, low, high) => clamp(value, low, high) = value
BY DEF clamp, InLimits

LEMMA Drifted ==
    ASSUME NEW device \in AnyDevice, Simulated(device), NEW elapsedMs, NEW draws \in AnyDraws
    PROVE  /\ drift(device, elapsedMs, draws) \in AnyDevice
           /\ drift(device, elapsedMs, draws).device_id = device.device_id
           /\ Simulated(drift(device, elapsedMs, draws))
<1>1. /\ draws.temp \in AnyDraw /\ draws.humidity \in AnyDraw
      /\ draws.lat \in AnyDraw /\ draws.lon \in AnyDraw
  BY FieldsOfDraws
<1>2. /\ InLimits(device.temp, 170000, 1000000)
      /\ device.temp \in Int /\ device.humidity \in Int /\ device.battery \in Int
      /\ device.lat \in Int /\ device.lon \in Int
  BY FieldsOfDevice, SimulatedByField
<1>3. PICK target :
         /\ target \in {220000, 950000}
         /\ target = (IF device.role = "spike" /\ elapsedMs >= SPIKE_AFTER_MS
                      THEN 95 ELSE 22) * Unit
  BY DEF Unit
<1>4. PICK temp, humidity, battery, lat, lon :
         /\ temp = clamp(device.temp + (target - device.temp) \div 10 + draws.temp,
                         -600000, 1500000)
         /\ humidity = clamp(device.humidity + 2 * draws.humidity, 300000, 700000)
         /\ battery = clamp(device.battery - 500, 0, 1000000)
         /\ lat = clamp(device.lat + draws.lat \div 1000, -900000, 900000)
         /\ lon = clamp(device.lon + draws.lon \div 1000, -1800000, 1800000)
  OBVIOUS
<1>5. InLimits(temp, 170000, 1000000)
  <2>1. InLimits(device.temp + (target - device.temp) \div 10 + draws.temp, 170000, 1000000)
    <3>1. PICK t \in Int, d \in AnyDraw : t = device.temp /\ d = draws.temp
      BY <1>1, <1>2
    <3>2. InLimits(t, 170000, 1000000)
      BY <1>2, <3>1
    <3>3. InLimits(t + (target - t) \div 10 + d, 170000, 1000000)
      BY <1>3, <3>2, TempDrawn
    <3> QED BY <3>1, <3>3
  <2> QED BY <1>4, <2>1 DEF clamp, InLimits
<1>6. InLimits(humidity, 300000, 700000)
  <2>1. device.humidity + 2 * draws.humidity \in Int
    BY <1>1, <1>2 DEF AnyDraw
  <2> QED BY <1>4, <2>1, ClampedBetween
<1>7. InLimits(battery, 0, 1000000)
  <2>1. device.battery - 500 \in Int
    BY <1>2
  <2> QED BY <1>4, <2>1, ClampedBetween
<1>8. InLimits(lat, -900000, 900000) /\ InLimits(lon, -1800000, 1800000)
  <2>1. draws.lat \div 1000 \in Int /\ draws.lon \div 1000 \in Int
    BY <1>1, PartOfDraw DEF AnyDraw
  <2>2. device.lat + draws.lat \div 1000 \in Int /\ device.lon + draws.lon \div 1000 \in Int
    BY <1>2, <2>1
  <2> QED BY <1>4, <2>2, ClampedBetween
<1>9. PICK next : next = drift(device, elapsedMs, draws)
  OBVIOUS
<1>10. next = [device EXCEPT !.temp = temp, !.humidity = humidity, !.battery = battery,
                             !.lat = lat, !.lon = lon]
  BY <1>3, <1>4, <1>9, SMT DEF drift, Clamped, Limits, Unit
<1>11. /\ next \in AnyDevice /\ next.device_id = device.device_id
       /\ next.temp = temp /\ next.humidity = humidity /\ next.battery = battery
       /\ next.lat = lat /\ next.lon = lon
  <2>1. temp \in Int /\ humidity \in Int /\ battery \in Int /\ lat \in Int /\ lon \in Int
    BY <1>5, <1>6, <1>7, <1>8 DEF InLimits
  <2> QED BY <1>10, <2>1, Zenon DEF AnyDevice
<1>12. Simulated(next)
  BY <1>5, <1>6, <1>7, <1>8, <1>11, SimulatedByField
<1> QED BY <1>9, <1>11, <1>12

-----------------------------------------------------------------------------
(* The subscriber.                                                         *)

\* The limits have no third decimal: rounding to two does not cross them.
LEMMA Rounded ==
    ASSUME NEW x \in Int, NEW k \in Int
    PROVE  /\ x >= 100 * k => round(x) >= 100 * k
           /\ x <= 100 * k => round(x) <= 100 * k
           /\ round(x) \in Int
BY DEF round

LEMMA RoundedWithin ==
    ASSUME NEW device \in AnyDevice, \A f \in Metrics : Within(device[f], Limits[f])
    PROVE  \A f \in Metrics : Within(Payload(device)[f], Limits[f])
<1>1. PICK p : p = Payload(device)
  OBVIOUS
<1>2. /\ p.temp = round(device.temp) /\ p.humidity = round(device.humidity)
      /\ p.battery = round(device.battery)
      /\ p.lat = round(device.lat) /\ p.lon = round(device.lon)
  BY <1>1 DEF Payload, Metrics
<1>3. /\ device.temp \in Int /\ device.humidity \in Int /\ device.battery \in Int
      /\ device.lat \in Int /\ device.lon \in Int
  BY DEF AnyDevice
<1>4. /\ InLimits(device.temp, -600000, 1500000) /\ InLimits(device.humidity, 0, 1000000)
      /\ InLimits(device.battery, 0, 1000000)
      /\ InLimits(device.lat, -900000, 900000) /\ InLimits(device.lon, -1800000, 1800000)
  BY <1>3, WithinByField
<1>5. /\ InLimits(p.temp, -600000, 1500000) /\ InLimits(p.humidity, 0, 1000000)
      /\ InLimits(p.battery, 0, 1000000)
      /\ InLimits(p.lat, -900000, 900000) /\ InLimits(p.lon, -1800000, 1800000)
  <2>1. \A x \in Int : InLimits(x, -600000, 1500000) => InLimits(round(x), -600000, 1500000)
    BY DEF InLimits, round
  <2>2. \A x \in Int : InLimits(x, 0, 1000000) => InLimits(round(x), 0, 1000000)
    BY DEF InLimits, round
  <2>3. \A x \in Int : InLimits(x, -900000, 900000) => InLimits(round(x), -900000, 900000)
    BY DEF InLimits, round
  <2>4. \A x \in Int : InLimits(x, -1800000, 1800000) => InLimits(round(x), -1800000, 1800000)
    BY DEF InLimits, round
  <2> QED BY <1>2, <1>3, <1>4, <2>1, <2>2, <2>3, <2>4
<1>6. /\ p.temp \in Int /\ p.humidity \in Int /\ p.battery \in Int
      /\ p.lat \in Int /\ p.lon \in Int
  BY <1>5 DEF InLimits
<1>7. \A f \in Metrics : Within(p[f], Limits[f])
  BY <1>5, <1>6, WithinByField
<1> QED BY <1>1, <1>7

LEMMA PayloadParses ==
    ASSUME NEW device \in AnyDevice
    PROVE  Payload(device) # NotJson /\ Payload(device).device_id = device.device_id
<1>1. \A f \in Metrics : round(device[f]) \in Int
  BY Rounded DEF Metrics, AnyDevice
<1>2. device["device_id"] \in Seq({"d", "e", NoText})
  <2>1. <<"d">> \in Seq({"d", "e", NoText}) /\ <<"e">> \in Seq({"d", "e", NoText})
    OBVIOUS
  <2> QED BY <2>1, FieldsOfDevice DEF Names
<1>3. Payload(device) \in [Metrics \union {"device_id"} -> Int \union Seq({"d", "e", NoText})]
  BY <1>1, <1>2 DEF Payload, Metrics
<1>4. Payload(device).device_id = device.device_id
  BY DEF Payload, Metrics
<1> QED BY <1>3, <1>4, EvaluationAssumption

LEMMA TopicOfDevice ==
    ASSUME NEW l
    PROVE  telemetryTopic(<<l>>) = <<"devices", l, "telemetry">>
<1>1. PICK S : S = {"devices", "telemetry", l}
  OBVIOUS
<1>2. <<"devices">> \in Seq(S) /\ <<l>> \in Seq(S) /\ <<"telemetry">> \in Seq(S)
  BY <1>1
<1>3. PICK p : p = <<"devices">> \o <<l>>
  OBVIOUS
<1>4. p \in Seq(S) /\ Len(p) = 2 /\ p[1] = "devices" /\ p[2] = l
  BY <1>2, <1>3, ConcatProperties
<1>5. PICK q : q = p \o <<"telemetry">>
  OBVIOUS
<1>6. q \in Seq(S) /\ Len(q) = 3 /\ q[1] = "devices" /\ q[2] = l /\ q[3] = "telemetry"
  BY <1>2, <1>4, <1>5, ConcatProperties
<1>7. q = <<"devices", l, "telemetry">>
  BY <1>6
<1> QED BY <1>3, <1>5, <1>7 DEF telemetryTopic

\* What the subscriber makes of a message, read off the topic.
LEMMA EnqueuedOnTopic ==
    ASSUME NEW l, l # NoText, NEW payload, payload # NotJson, payload.device_id = <<l>>
    PROVE  Verdict(<<"devices", l, "telemetry">>, payload) = "enqueued"
              <=> \A f \in Metrics : Within(payload[f], Limits[f])
<1>1. parseDeviceIdFromTopic(<<"devices", l, "telemetry">>) = <<l>>
  BY DEF parseDeviceIdFromTopic
<1>2. <<l>> # <<NoText>> /\ <<l>> # << >>
  OBVIOUS
<1> QED BY <1>1, <1>2 DEF Verdict, Valid

\* Whatever a simulated device draws, the reading of its tick is enqueued, and it
\* stays a simulated device.
LEMMA TicksAreHeard ==
    ASSUME NEW device \in AnyDevice, Simulated(device), NEW elapsedMs, NEW draws \in AnyDraws,
           Ticks(device, elapsedMs)
    PROVE  Heard(device, elapsedMs, draws)
<1>1. PICK next : next = drift(device, elapsedMs, draws)
  OBVIOUS
<1>2. next \in AnyDevice /\ next.device_id = device.device_id /\ Simulated(next)
  BY <1>1, Drifted
<1>3. PICK l \in {"d", "e"} : device.device_id = <<l>>
  BY FieldsOfDevice DEF Names
<1>4. PICK payload : payload = Payload(next)
  OBVIOUS
<1>5. /\ payload # NotJson /\ payload.device_id = <<l>>
      /\ \A f \in Metrics : Within(payload[f], Limits[f])
  BY <1>2, <1>3, <1>4, PayloadParses, RoundedWithin DEF Simulated
<1>6. l # NoText
  BY EvaluationAssumption
<1>7. Valid(payload)
  BY <1>5, <1>6 DEF Valid
<1>8. Verdict(telemetryTopic(device.device_id), payload) = "enqueued"
  BY <1>3, <1>5, <1>6, TopicOfDevice, EnqueuedOnTopic
<1>9. /\ tick(device, elapsedMs, draws).device = next
      /\ payload \in tick(device, elapsedMs, draws).published
  BY <1>1, <1>4, <1>7 DEF tick
<1> QED BY <1>2, <1>8, <1>9 DEF Heard

\* The limits of a field, which are whole units.
LEMMA LimitsOfField ==
    ASSUME NEW f \in Metrics, NEW x \in Int
    PROVE  x \in Limits[f][1] * Unit .. Limits[f][2] * Unit <=> Within(x, Limits[f])
<1>1. Limits[f][1] * Unit \in Int /\ Limits[f][2] * Unit \in Int
  BY DEF Metrics, Limits, Unit
<1> QED BY <1>1 DEF Within

\* A topic of more levels than three, or less, names no device.
LEMMA TopicRead ==
    ASSUME NEW topic, parseDeviceIdFromTopic(topic) # << >>
    PROVE  /\ Len(topic) = 3 /\ topic[1] = "devices" /\ topic[3] = "telemetry"
           /\ topic[2] # NoText /\ parseDeviceIdFromTopic(topic) = <<topic[2]>>
BY DEF parseDeviceIdFromTopic

LEMMA TopicOfSlash == Len(telemetryTopic(<<"d", "e">>)) = 4
<1>1. PICK S : S = {"devices", "telemetry", "d", "e"}
  OBVIOUS
<1>2. /\ <<"devices">> \in Seq(S) /\ Len(<<"devices">>) = 1
      /\ <<"d", "e">> \in Seq(S) /\ Len(<<"d", "e">>) = 2
      /\ <<"telemetry">> \in Seq(S) /\ Len(<<"telemetry">>) = 1
  BY <1>1
<1>3. PICK p : p = <<"devices">> \o <<"d", "e">>
  OBVIOUS
<1>4. p \in Seq(S) /\ Len(p) = 3
  BY <1>2, <1>3, ConcatProperties
<1>5. PICK t \in Seq(S) : t = <<"telemetry">> /\ Len(t) = 1
  BY <1>2
<1>6. Len(p \o t) = Len(p) + Len(t)
  BY <1>4, <1>5, ConcatProperties
<1> QED BY <1>3, <1>4, <1>5, <1>6 DEF telemetryTopic

LEMMA TopicIs ==
    ASSUME NEW topic \in Topics, parseDeviceIdFromTopic(topic) # << >>
    PROVE  topic = telemetryTopic(<<topic[2]>>)
<1>1. /\ Len(topic) = 3 /\ topic[1] = "devices" /\ topic[3] = "telemetry"
  BY TopicRead
<1>2. CASE topic \in [1 .. 3 -> Levels]
  <2>1. topic = <<topic[1], topic[2], topic[3]>>
    BY <1>2
  <2> QED BY <1>1, <2>1, TopicOfDevice
<1>3. CASE topic \in {telemetryTopic(id) : id \in Ids}
  <2>1. PICK id \in Ids : topic = telemetryTopic(id)
    BY <1>3
  <2>2. CASE id = <<"d", "e">>
    BY <1>1, <2>1, <2>2, TopicOfSlash
  <2>3. CASE \E l : id = <<l>>
    <3>1. PICK l : id = <<l>>
      BY <2>3
    <3>2. topic = <<"devices", l, "telemetry">>
      BY <2>1, <3>1, TopicOfDevice
    <3>3. topic[2] = l
      BY <3>2
    <3> QED BY <2>1, <3>1, <3>3
  <2> QED BY <2>2, <2>3 DEF Ids
<1> QED BY <1>2, <1>3 DEF Topics

\* A message, if it is JSON, carries an id and a number for every field.
LEMMA PayloadOfMessage ==
    ASSUME NEW payload \in Payloads, payload # NotJson
    PROVE  /\ payload.device_id \in Ids
           /\ \A f \in Metrics : payload[f] \in Int
<1>1. PICK edge \in Metrics, x \in UNION {Edges(g) : g \in Metrics}, id \in Ids :
         payload = [f \in Metrics \union {"device_id"} |->
                       IF f = "device_id" THEN id ELSE IF f = edge THEN x ELSE 50 * Unit]
  BY DEF Payloads
<1>2. x \in Int
  <2>1. PICK g \in Metrics : x \in Edges(g)
    BY <1>1
  <2>2. Limits[g][1] * Unit \in Int /\ Limits[g][2] * Unit \in Int
    BY DEF Metrics, Limits, Unit
  <2> QED BY <2>1, <2>2 DEF Edges
<1>3. 50 * Unit \in Int /\ "device_id" \notin Metrics
  BY DEF Unit, Metrics
<1>4. payload["device_id"] = id
  BY <1>1
<1>5. \A f \in Metrics : payload[f] = IF f = edge THEN x ELSE 50 * Unit
  BY <1>1, <1>3
<1> QED BY <1>2, <1>3, <1>4, <1>5

\* A message is enqueued just if it carries a valid reading of a device with a
\* name of one level, and came on that device's topic.
LEMMA MessagesAreSorted ==
    ASSUME NEW topic \in Topics, NEW payload \in Payloads
    PROVE  JustlyEnqueued(topic, payload)
<1> DEFINE Own(id) ==
        /\ payload # NotJson
        /\ payload.device_id = id /\ id # <<NoText>>
        /\ \A f \in Metrics : payload[f] \in Limits[f][1] * Unit .. Limits[f][2] * Unit
        /\ topic = telemetryTopic(id)
<1>1. ASSUME Verdict(topic, payload) = "enqueued"
      PROVE  \E id \in {i \in Ids : Len(i) = 1} : Own(id)
  <2>1. /\ parseDeviceIdFromTopic(topic) # << >> /\ payload # NotJson /\ Valid(payload)
        /\ payload.device_id = parseDeviceIdFromTopic(topic)
    BY <1>1 DEF Verdict
  <2>2. PICK id : id = <<topic[2]>>
    OBVIOUS
  <2>3. topic = telemetryTopic(id) /\ payload.device_id = id
    BY <2>1, <2>2, TopicIs, TopicRead
  <2>4. id \in Ids /\ Len(id) = 1
    BY <2>1, <2>2, <2>3, PayloadOfMessage
  <2>5. \A f \in Metrics : payload[f] \in Limits[f][1] * Unit .. Limits[f][2] * Unit
    BY <2>1, PayloadOfMessage, LimitsOfField DEF Valid
  <2>6. id # <<NoText>>
    BY <2>1, <2>3 DEF Valid
  <2> QED BY <2>1, <2>3, <2>4, <2>5, <2>6
<1>2. ASSUME NEW id \in {i \in Ids : Len(i) = 1}, Own(id)
      PROVE  Verdict(topic, payload) = "enqueued"
  <2>1. PICK l : id = <<l>> /\ l # NoText
    BY <1>2 DEF Ids
  <2>2. topic = <<"devices", l, "telemetry">>
    BY <1>2, <2>1, TopicOfDevice
  <2>3. \A f \in Metrics : Within(payload[f], Limits[f])
    BY <1>2, PayloadOfMessage, LimitsOfField
  <2> QED BY <1>2, <2>1, <2>2, <2>3, EnqueuedOnTopic
<1> QED BY <1>1, <1>2 DEF JustlyEnqueued

-----------------------------------------------------------------------------
(* The contract.                                                           *)

\* OwnReadingsArrive, whatever is drawn and wherever the devices have come to: a
\* new device is one whose readings are within the schema; a device of which that
\* is true and that ticks has its reading enqueued by the subscriber, and it is
\* true of it again; and of all messages the subscriber enqueues just those that
\* carry a valid reading on the topic of the device they name.
THEOREM ReadingsAreHeard ==
    /\ \A id \in Names, role \in Roles, draws \in AnyDraws :
          Simulated(NewDevice(id, role, draws))
    /\ \A device \in AnyDevice, elapsedMs \in Nat, draws \in AnyDraws :
          Simulated(device) /\ Ticks(device, elapsedMs) => Heard(device, elapsedMs, draws)
    /\ Spec => []OwnReadingsArrive
<1>1. AllDraws \subseteq AnyDraws
  <2>1. Draws \subseteq AnyDraw /\ {-5000, 4999} \subseteq AnyDraw
    BY DEF Draws, AnyDraw
  <2> QED BY <2>1 DEF AllDraws, AnyDraws
<1>2. ASSUME Init, call.fn = "createFleet"
      PROVE  Simulated(NewDevice(<<"d">>, Role(call.i, call.count), call.draws))
  <2>1. call.draws \in AllDraws
    BY <1>2, CallOfName DEF FleetCalls
  <2>2. Role(call.i, call.count) \in Roles /\ <<"d">> \in Names
    BY DEF Role, Roles, Names
  <2> QED BY <1>1, <2>1, <2>2, NewDevices
<1>3. ASSUME Init, call.fn = "tick", call.device.role # "offline"
      PROVE  Heard(call.device, call.elapsedMs, call.draws)
  <2>1. PICK device, elapsedMs, draws :
           device = call.device /\ elapsedMs = call.elapsedMs /\ draws = call.draws
    OBVIOUS
  <2>2. draws \in AllDraws
    BY <1>3, <2>1, CallOfName DEF TickCalls
  <2>3. /\ device.temp \in {170000, 220001, 1000000}
        /\ device.humidity \in {300000, 699999, 700000}
        /\ device.battery \in {0, 499, 500, 1000000}
        /\ device.lat \in {-900000, 410083, 900000} /\ device.lon \in {-1800000, 1800000}
    BY <1>3, <2>1, CallOfName DEF TickCalls
  <2>4. device \in AnyDevice
    BY <1>3, <2>1, CallOfName DEF TickCalls, AnyDevice, Names, Roles
  <2>5. Simulated(device)
    BY <2>3, <2>4, SimulatedByField DEF InLimits
  <2>6. Ticks(device, elapsedMs)
    BY <1>3, <2>1 DEF Ticks
  <2>7. Heard(device, elapsedMs, draws)
    BY <1>1, <2>2, <2>4, <2>5, <2>6, TicksAreHeard
  <2> QED BY <2>1, <2>7
<1>4. ASSUME Init, call.fn = "message"
      PROVE  JustlyEnqueued(call.topic, call.payload)
  <2>1. call.topic \in Topics /\ call.payload \in Payloads
    BY <1>4, CallOfName DEF MessageCalls
  <2> QED BY <2>1, MessagesAreSorted
<1>5. Init => OwnReadingsArrive
  BY <1>2, <1>3, <1>4 DEF OwnReadingsArrive
<1>6. Spec => []OwnReadingsArrive
  BY <1>5, CallsStay, PTL
<1> QED BY <1>6, NewDevices, TicksAreHeard

=============================================================================
