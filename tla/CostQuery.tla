------------------------------ MODULE CostQuery ------------------------------
(***************************************************************************)
(* A caller that builds cost queries row by row and sends them through      *)
(* GetCostAndUsageByQuery of the cached repository                          *)
(* (src/service/costexplorer/repository.go, cached_repository.go).  The     *)
(* wrapper is reduced to its key here: a query whose key is stored is not   *)
(* sent again.  CachedRepository models it in full, and Listing the paging  *)
(* of the request.                                                         *)
(***************************************************************************)
EXTENDS CostFilter, CacheKey, TLC

CONSTANTS Bases,       \* the queries a caller starts from, without rows
          Values,      \* the lists of values of a row
          Options,     \* the match options a row may be given
          Keys,        \* Keys[kind]: the keys a row of a kind may be on
          Lines,       \* lines of the bill
          TimeText,    \* TimeText[t]: how MarshalText writes the time t
          DayLength,   \* hours of a day (bound)
          MaxRows,     \* rows of a query (bound)
          MaxQueries   \* queries sent (bound)

Times == DOMAIN TimeText

Unset == 0  \* the zero time

\* The texts written below.
Literals == {"", "true", "false", "SERVICE", Absence, "CostQuery", "Expression",
             "GroupDefinition"} \cup Kinds

\* No two times are written the same.  An expression of the caller's own is
\* built with the helpers of filter.go, and leaves a level for buildFilter's
\* And.
ASSUME CostAssumption ==
  /\ DayLength \in Nat \ {0}
  /\ MaxRows \in Nat /\ MaxQueries \in Nat \ {0}
  /\ MaxNesting \in Nat \ {0, 1}
  /\ MaxHeight \in Nat /\ MaxHeight >= 2 * MaxNesting + 4
  /\ Unset \in Times /\ Times \subseteq Nat
  /\ TimeText \in [Times -> STRING] /\ IsInjective(TimeText)
  /\ Literals \subseteq STRING
  /\ DOMAIN Keys \subseteq Kinds
  /\ \A kind \in DOMAIN Keys : Keys[kind] \subseteq STRING
  /\ Values \subseteq Seq(STRING) /\ Options \subseteq STRING
  /\ \A q \in Bases :
       /\ DOMAIN q.tags \subseteq STRING /\ IsFiniteSet(DOMAIN q.tags)
       /\ q \in [start : Times, end : Times, granularity : STRING,
                 metrics : Seq(STRING),
                 groupBy : Seq([type : STRING, key : STRING]),
                 services : Seq(STRING), tags : [DOMAIN q.tags -> Seq(STRING)],
                 filters : {<<>>}, filter : Expressions[MaxNesting - 1],
                 billingViewArn : STRING]

VARIABLES
  query,    \* the query being built
  row,      \* the row being built, or NoRow
  stored,   \* the queries answered so far, with the keys of their answers
  sent,     \* the last request to AWS, or NoRequest
  result,   \* how the last query ended
  queries   \* queries so far

vars == <<query, row, stored, sent, result, queries>>

NoRow == By("", "", <<>>)

\* Building a query, with the query's own services, tags, expression and billing
\* view, if any, starts from q.
Base(start, end, granularity, metrics, groupBy, services, tags, filter, view) ==
  [start |-> start, end |-> end, granularity |-> granularity,
   metrics |-> metrics, groupBy |-> groupBy, services |-> services,
   tags |-> tags, filters |-> <<>>, filter |-> filter,
   billingViewArn |-> view]

\* GetCostAndUsageByPeriod: no filtering.
ByPeriod(start, end, granularity, metrics, groupBy) ==
  Base(start, end, granularity, metrics, groupBy, <<>>, <<>>, NoExpression, "")

NoRequest == [start |-> Unset, end |-> Unset, filter |-> NoExpression,
              billingViewArn |-> ""]

Init ==
  /\ query \in Bases
  /\ row = NoRow
  /\ stored = {}
  /\ sent = NoRequest
  /\ result = "none"
  /\ queries = 0

-----------------------------------------------------------------------------
(* The caller builds a row, by one call after the other, and adds it. *)

Building(r) == row' = r /\ UNCHANGED <<query, stored, sent, result, queries>>

StartRow ==
  /\ row = NoRow /\ result = "none"
  /\ Len(query.filters) < MaxRows
  /\ \E kind \in DOMAIN Keys, values \in Values :
       \E key \in Keys[kind] : Building(By(kind, key, values))

ChangeRow ==
  /\ row # NoRow
  /\ \/ \E o \in Options : Building(Matching(row, <<o>>))
     \/ Building(Excluded(row))
     \/ row.on.kind # "Dimensions" /\ Building(Absent(row))
     \/ row.on.kind # "Dimensions" /\ Building(Present(row))

AddRow ==
  /\ row # NoRow
  /\ query' = [query EXCEPT !.filters = Append(@, row)]
  /\ row' = NoRow
  /\ UNCHANGED <<stored, sent, result, queries>>

-----------------------------------------------------------------------------
(* GetCostAndUsageByQuery. *)

\* mutant: the hand-built expression takes the place of the rows
BuildFilterReplaced(q) ==
  IF q.filter # NoExpression THEN q.filter
  ELSE And(<<FilterBy("Service", q.services), FilterByTags(q.tags)>> \o
           [i \in DOMAIN q.filters |-> Expression(q.filters[i])])

buildFilter(q) ==
  And(<<FilterBy("Service", q.services), FilterByTags(q.tags)>> \o
      [i \in DOMAIN q.filters |-> Expression(q.filters[i])] \o <<q.filter>>)

\* A date for any granularity but HOURLY, whatever the time of the day.
Rendered(q, time) ==
  IF q.granularity = "HOURLY" THEN time ELSE (time \div DayLength) * DayLength

\* Neither the hand-built expression nor the rendered period is looked at.
Validate(q) ==
  /\ q.start # Unset /\ q.end # Unset
  /\ q.end > q.start
  /\ q.metrics # <<>>
  /\ Len(q.groupBy) <= MaxGroupBy
  /\ \A i \in DOMAIN q.groupBy : q.groupBy[i].key # ""
  /\ \A i \in DOMAIN q.filters : ValidMatchOptions(q.filters[i])

Request(q) ==
  [start |-> Rendered(q, q.start), end |-> Rendered(q, q.end),
   filter |-> buildFilter(q), billingViewArn |-> q.billingViewArn]

\* The query as the Go value that the key is made of.
Strings(texts) == GoList([i \in DOMAIN texts |-> Basic(texts[i])])

GoRow(r) ==
  Struct(r.on.kind, <<Basic(r.on.key), Strings(r.values), Strings(r.options),
                      Basic(IF r.exclude THEN "true" ELSE "false")>>)

GoLeaf(e, kind) ==
  IF e.op = "leaf" /\ e.on.kind = kind
    THEN Pointer(Struct(kind, <<Basic(e.on.key), Strings(e.options),
                                Strings(e.values)>>))
    ELSE Nil

\* One Expression, with go[c] for its children.
GoNode(go, e) ==
  LET children(op) ==
        IF e.op # op THEN Nil
        ELSE GoList([i \in DOMAIN e.children |-> go[e.children[i]]])
  IN Struct("Expression",
       <<children("And"), GoLeaf(e, "CostCategories"), GoLeaf(e, "Dimensions"),
         IF e.op = "Not" THEN Pointer(go[e.children[1]]) ELSE Nil,
         children("Or"), GoLeaf(e, "Tags")>>)

GoExpression(expr) ==
  LET go[e \in Expressions[MaxNesting]] == GoNode(go, e)
  IN go[expr]

GoQuery(q) ==
  Struct("CostQuery",
    <<SelfDescribed(TimeText[q.start]), SelfDescribed(TimeText[q.end]),
      Basic(q.granularity), Strings(q.metrics), Strings(q.services),
      GoMap([k \in DOMAIN q.tags |-> Strings(q.tags[k])]),
      GoList([i \in DOMAIN q.filters |-> GoRow(q.filters[i])]),
      IF q.filter = NoExpression THEN Nil ELSE Pointer(GoExpression(q.filter)),
      GoList([i \in DOMAIN q.groupBy |->
                Struct("GroupDefinition", <<Basic(q.groupBy[i].key),
                                            Basic(q.groupBy[i].type)>>)]),
      Basic(q.billingViewArn)>>)

QueryKey(q) == Key("GetCostAndUsageByQuery", <<GoQuery(q)>>)

Hit(key) == \E s \in stored : s.key = key

\* The answer is in the cache; or the query is refused before a request; or
\* the request is answered and stored, or fails.
GetCostAndUsageByQuery ==
  LET key == QueryKey(query) IN
  /\ row = NoRow /\ result = "none"
  /\ queries' = queries + 1
  /\ \/ /\ Hit(key)
        /\ result' = "cached"
        /\ UNCHANGED <<stored, sent>>
     \/ /\ ~Hit(key) /\ ~Validate(query)
        /\ result' = "refused"
        /\ UNCHANGED <<stored, sent>>
     \/ /\ ~Hit(key) /\ Validate(query)
        /\ sent' = Request(query)
        /\ \/ /\ result' = "ok"
              /\ stored' = stored \cup {[key |-> key, query |-> query]}
           \/ result' = "failed" /\ UNCHANGED stored
  /\ UNCHANGED <<query, row>>

\* The caller starts another query.
NextQuery ==
  /\ result # "none" /\ queries < MaxQueries
  /\ query' \in Bases
  /\ sent' = NoRequest
  /\ result' = "none"
  /\ UNCHANGED <<row, stored, queries>>

Next == StartRow \/ ChangeRow \/ AddRow \/ GetCostAndUsageByQuery \/ NextQuery

Spec == Init /\ [][Next]_vars

-----------------------------------------------------------------------------
(* Properties. *)

\* Whether the console's row lets the line through: a row that carries nothing
\* lets every line through, excluded or not.
RowLets(r, line) ==
  \/ CarriesNothing(r)
  \/ r.exclude # IF Absence \in Range(r.options) THEN line[r.on] = NoValue
                 ELSE line[r.on] \in Range(r.values)

Selects(q, line) ==
  /\ q.services # <<>> =>
       line[Subject("Dimensions", "SERVICE")] \in Range(q.services)
  /\ \A k \in DOMAIN q.tags :
       q.tags[k] # <<>> => line[Subject("Tags", k)] \in Range(q.tags[k])
  /\ \A i \in DOMAIN q.filters : RowLets(q.filters[i], line)
  /\ Matches(q.filter, line)

\* "Every filter row is AND-ed with the others; the values inside a row are
\* OR-ed" (repository.go:117-118): whatever rows were built and in whatever
\* way, with services, tags and an expression of the caller's own, the request
\* selects exactly the lines that all of them let through, and no And or Or in
\* it has a single child, which the API rejects (filter.go:466-468).
FilterMeansRows ==
  sent # NoRequest =>
    /\ WellShaped(sent.filter)
    /\ \A line \in Lines : Matches(sent.filter, line) <=> Selects(query, line)

\* "Different arguments never share" a key (cache/key.go:36-37): a query is
\* answered from the cache only if the very same query was answered before, as
\* long as expressions are nested no deeper than the instance's, whose deepest
\* values lie at keyMaxDepth exactly.
KeyTellsApart == result = "cached" => \E s \in stored : s.query = query

=============================================================================
