---------------------------- MODULE MCCostQuery ----------------------------
(***************************************************************************)
(* Instances of CostQuery for TLC: two services, one tag and one category,  *)
(* rows with no value or two, days of two hours.                    *)
(***************************************************************************)
EXTENDS CostQuery

MCValues == {<<>>, <<"x", "y">>}
MCOptions == {"EQUALS", "CONTAINS"}
MCKeys == [Dimensions |-> {"SERVICE"}, Tags |-> {"Team"},
           CostCategories |-> {"Unit"}]

Subjects == {Subject(kind, key) : <<kind, key>> \in
               {<<"Dimensions", "SERVICE">>, <<"Tags", "Team">>,
                <<"CostCategories", "Unit">>}}

\* A line without a service is not billed.
MCLines ==
  {line \in [Subjects -> {"x", "y", "z", NoValue}] :
     line[Subject("Dimensions", "SERVICE")] # NoValue}

QueryOf(services, tags, filter, view) ==
  Base(1, 3, "DAILY", <<"UnblendedCost">>, <<>>, services, tags, filter, view)

Query(services, tags, filter) == QueryOf(services, tags, filter, "")

MCTimeText == [t \in 0 .. 3 |-> ToString(t)]

NoTags == <<>>

\* Four And nodes, one in the other.
Nested(value) ==
  LET service == FilterBy("Service", <<"x", "y">>)
  IN And(<<service, And(<<service, And(<<service, And(<<service,
       FilterByTag("Team", <<value>>)>>)>>)>>)>>)

MCBases ==
  { Query(<<>>, NoTags, NoExpression),
    Query(<<"x">>, NoTags, Not(FilterByTag("Team", <<"x">>))),
    Query(<<>>, [Team |-> <<"x", "y">>],
          Or(<<FilterBy("Service", <<"y">>), FilterByCostCategoryAbsent("Unit")>>)),
    Query(<<"x", "y">>, [Team |-> <<>>], Nested("x")),
    Query(<<>>, NoTags, Nested("x")),
    Query(<<>>, NoTags, Nested("y")),
    QueryOf(<<>>, NoTags, NoExpression, "view"),
    \* refused: no end, no metric, a third grouping, a grouping without a key
    ByPeriod(1, Unset, "MONTHLY", <<"UnblendedCost">>, <<>>),
    ByPeriod(1, 3, "HOURLY", <<>>, <<GroupByDimension("Service")>>),
    ByPeriod(1, 3, "HOURLY", <<"UnblendedCost">>,
             GroupByTags(<<"Team", "Unit", "Stage">>)),
    ByPeriod(1, 3, "HOURLY", <<"UnblendedCost">>, GroupByCostCategories(<<"">>)) }

=============================================================================
