----------------------------- MODULE CostFilter -----------------------------
(***************************************************************************)
(* Filter rows and expressions of Cost Explorer queries                     *)
(* (src/service/costexplorer/filter.go): the builders of a row, how rows    *)
(* are rendered as one Expression, and what an Expression selects.          *)
(*                                                                         *)
(* A line of the bill has a value, or none, for each subject: a dimension,  *)
(* a tag or a cost category, by key.                                        *)
(***************************************************************************)
EXTENDS Naturals, Sequences, Functions, SequencesExt

CONSTANTS NoValue,    \* what a line has for a tag it does not carry
          MaxNesting  \* levels of an expression (bound)

Absence == "ABSENT"

Subject(kind, key) == [kind |-> kind, key |-> key]

-----------------------------------------------------------------------------
(* Rows: ByDimension, ByTag, ByCostCategory and what may be called on them. *)

By(kind, key, values) ==
  [on |-> Subject(kind, key), values |-> values, options |-> <<>>,
   exclude |-> FALSE]

Matching(row, options) == [row EXCEPT !.options = options]

Excluded(row) == [row EXCEPT !.exclude = TRUE]

\* Not a method of dimension rows.
Absent(row) == [row EXCEPT !.values = <<>>, !.options = <<Absence>>]

Present(row) == Excluded(Absent(row))

-----------------------------------------------------------------------------
(* Expressions.  And, Or and Not nodes have children, a leaf has a subject.  *)

Node(op, children) ==
  [op |-> op, on |-> Subject("", ""), values |-> <<>>, options |-> <<>>,
   children |-> children]

NoExpression == Node("nil", <<>>)

Leaf(row) ==
  [op |-> "leaf", on |-> row.on, values |-> row.values,
   options |-> row.options, children |-> <<>>]

Not(expr) == IF expr = NoExpression THEN NoExpression ELSE Node("Not", <<expr>>)

Negate(exclude, expr) == IF exclude THEN Not(expr) ELSE expr

\* A dimension row needs values; the others need values or options.
CarriesNothing(row) ==
  /\ row.values = <<>>
  /\ row.on.kind = "Dimensions" \/ row.options = <<>>

Expression(row) ==
  IF CarriesNothing(row) THEN NoExpression ELSE Negate(row.exclude, Leaf(row))

\* The entries that are not nil, in order.
NonNil(exprs) ==
  LET children[n \in 0 .. Len(exprs)] ==
        IF n = 0 THEN <<>>
        ELSE IF exprs[n] = NoExpression THEN children[n - 1]
        ELSE Append(children[n - 1], exprs[n])
  IN children[Len(exprs)]

\* combine: nil entries are skipped, a sole child is not wrapped.
Combine(op, exprs) ==
  LET children == NonNil(exprs) IN
  CASE Len(children) = 0 -> NoExpression
    [] Len(children) = 1 -> children[1]
    [] OTHER             -> Node(op, children)

And(exprs) == Combine("And", exprs)
Or(exprs) == Combine("Or", exprs)

FiltersExpression(rows) == And([i \in DOMAIN rows |-> Expression(rows[i])])

\* The dimension of each of the FilterBy functions.
FilterDimension ==
  [Service |-> "SERVICE", LinkedAccount |-> "LINKED_ACCOUNT",
   Region |-> "REGION", AvailabilityZone |-> "AZ",
   InstanceType |-> "INSTANCE_TYPE",
   InstanceTypeFamily |-> "INSTANCE_TYPE_FAMILY", UsageType |-> "USAGE_TYPE",
   UsageTypeGroup |-> "USAGE_TYPE_GROUP", ChargeType |-> "RECORD_TYPE",
   PurchaseType |-> "PURCHASE_TYPE", Operation |-> "OPERATION",
   ResourceID |-> "RESOURCE_ID", Platform |-> "PLATFORM",
   OperatingSystem |-> "OPERATING_SYSTEM", Tenancy |-> "TENANCY",
   DatabaseEngine |-> "DATABASE_ENGINE",
   DeploymentOption |-> "DEPLOYMENT_OPTION", CacheEngine |-> "CACHE_ENGINE",
   BillingEntity |-> "BILLING_ENTITY", LegalEntity |-> "LEGAL_ENTITY_NAME",
   InvoicingEntity |-> "INVOICING_ENTITY", Scope |-> "SCOPE",
   PaymentOption |-> "PAYMENT_OPTION",
   SavingsPlansType |-> "SAVINGS_PLANS_TYPE",
   SavingsPlanArn |-> "SAVINGS_PLAN_ARN",
   ReservationID |-> "RESERVATION_ID", SubscriptionID |-> "SUBSCRIPTION_ID"]

FilterBy(name, values) ==
  Expression(By("Dimensions", FilterDimension[name], values))

FilterByTag(key, values) == Expression(By("Tags", key, values))
FilterByTagAbsent(key) == Expression(Absent(By("Tags", key, <<>>)))
FilterByTagPresent(key) == Expression(Present(By("Tags", key, <<>>)))

\* One row per key of a map; the order of a Go map is random, and the order of
\* And's children does not matter.
FilterByKeys(kind, valuesOf) ==
  LET keys == SetToSeq(DOMAIN valuesOf) IN
  And([i \in DOMAIN keys |-> Expression(By(kind, keys[i], valuesOf[keys[i]]))])

FilterByTags(tags) == FilterByKeys("Tags", tags)

FilterByCostCategory(key, values) == Expression(By("CostCategories", key, values))
FilterByCostCategoryAbsent(key) ==
  Expression(Absent(By("CostCategories", key, <<>>)))
FilterByCostCategoryPresent(key) ==
  Expression(Present(By("CostCategories", key, <<>>)))
FilterByCostCategories(categories) == FilterByKeys("CostCategories", categories)

\* The match options that GetCostAndUsage accepts.
Allowed(kind) ==
  {"EQUALS", "CASE_SENSITIVE"} \cup {o \in {Absence} : kind # "Dimensions"}

ValidMatchOptions(row) == Range(row.options) \subseteq Allowed(row.on.kind)

-----------------------------------------------------------------------------
(* Groupings. *)

MaxGroupBy == 2

GroupBy(type, key) == [type |-> type, key |-> key]

\* The dimension of each of the GroupBy functions.
GroupDimension ==
  [Service |-> "SERVICE", LinkedAccount |-> "LINKED_ACCOUNT",
   Region |-> "REGION", InstanceType |-> "INSTANCE_TYPE",
   UsageType |-> "USAGE_TYPE", ChargeType |-> "RECORD_TYPE",
   PurchaseType |-> "PURCHASE_TYPE", Operation |-> "OPERATION"]

GroupByDimension(name) == GroupBy("DIMENSION", GroupDimension[name])

GroupByEach(type, keys) == [i \in DOMAIN keys |-> GroupBy(type, keys[i])]
GroupByTags(keys) == GroupByEach("TAG", keys)
GroupByCostCategories(keys) == GroupByEach("COST_CATEGORY", keys)

-----------------------------------------------------------------------------
(* What Cost Explorer makes of an expression. *)

Kinds == {"Dimensions", "Tags", "CostCategories"}

Leaves ==
  [op : {"leaf"}, on : [kind : Kinds, key : STRING], values : Seq(STRING),
   options : Seq(STRING), children : {<<>>}]

Nodes(ops, families) ==
  [op : ops, on : {Subject("", "")}, values : {<<>>}, options : {<<>>},
   children : families]

ExpressionsOver(inner) ==
  {NoExpression} \cup Leaves
    \cup Nodes({"Not"}, {s \in Seq(inner \ {NoExpression}) : Len(s) = 1})
    \cup Nodes({"And", "Or"}, {s \in Seq(inner \ {NoExpression}) : Len(s) > 1})

\* Expressions of at most n levels of And, Or and Not.
Expressions[n \in Nat] ==
  ExpressionsOver(IF n = 0 THEN {} ELSE Expressions[n - 1])

\* "The Cost Explorer API rejects And/Or nodes with a single child."
WellShaped(e) == e \in Expressions[MaxNesting]

LeafMatches(e, line) ==
  IF Absence \in Range(e.options) THEN line[e.on] = NoValue
  ELSE line[e.on] \in Range(e.values)

\* Whether x selects the line, with selects[y] for whether a child y does.
Selected(selects, x, line) ==
  CASE x.op = "nil"  -> TRUE
    [] x.op = "leaf" -> LeafMatches(x, line)
    [] x.op = "Not"  -> ~selects[x.children[1]]
    [] x.op = "And"  -> \A i \in DOMAIN x.children : selects[x.children[i]]
    [] x.op = "Or"   -> \E i \in DOMAIN x.children : selects[x.children[i]]

\* Whether the expression selects the line.
Matches(e, line) ==
  LET selects[x \in Expressions[MaxNesting]] == Selected(selects, x, line)
  IN selects[e]

=============================================================================
