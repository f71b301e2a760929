------------------------- MODULE MCCachedRepository -------------------------
(***************************************************************************)
(* One account and region with ECS and EKS clusters, a price and two        *)
(* queries of costs that are rendered alike, because they differ below the  *)
(* depth at which cache.Key cuts; the ECS clusters of another account.  The *)
(* file handler comes first, other than in cmd/events, so that a handler is *)
(* read after torn bytes.                                                   *)
(***************************************************************************)
EXTENDS CachedRepository, TLC

CONSTANTS c1, c2, here, there, none, product, deep, deeper, cut

MCCallers == {c1, c2}

EcsClusters == [service |-> "ecs", name |-> "ListClustersAll"]
EksClusters == [service |-> "eks", name |-> "ListClustersAll"]
Price == [service |-> "pricing", name |-> "GetInstancePricing"]

Clusters ==
  {[method |-> EcsClusters, scope |-> here, args |-> none],
   [method |-> EcsClusters, scope |-> there, args |-> none],
   [method |-> EksClusters, scope |-> here, args |-> none]}

Prices == {[method |-> Price, scope |-> here, args |-> product]}

Costs ==
  {[method |-> [service |-> "costexplorer", name |-> "GetCostAndUsage"],
    scope |-> here, args |-> query] : query \in {deep, deeper}}

MCCalls == Clusters \cup Prices \cup Costs

MCRendering == [a \in {none, product, deep, deeper} |-> IF a \in {deep, deeper} THEN cut ELSE a]

MCHandlers == <<"file", "memory">>

Symmetry == Permutations(MCCallers) \cup Permutations({deep, deeper})
=============================================================================
