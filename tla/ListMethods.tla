---------------------------- MODULE ListMethods ----------------------------
(***************************************************************************)
(* How each List method of the repositories of src/service gets from the     *)
(* pages of an AWS listing to the slice it returns.  Listing gives these    *)
(* records their meaning; methods with the same loop are the same record.   *)
(*                                                                         *)
(*   paging   "pages": until the last one, by the SDK's paginator or with   *)
(*              the marker in a copy of the input; "input": with the marker *)
(*              in the caller's input; "first": one page, its token is      *)
(*              dropped; "whole": the API has no pages; "call": the items   *)
(*              are those of another method; "none": AWS is not asked       *)
(*   of       the method that is called                                     *)
(*   batch    the items of one further request for details or tags: "item", *)
(*              "chunk", "page"; "none": no further request                 *)
(*   each     a method that lists what belongs to an item, instead          *)
(*   found    which of the items found by a further request are returned    *)
(*   failed   a further request that fails: "keep" what is known, "skip",   *)
(*              ask "again" once, return the "part" so far or "nothing"     *)
(*              with the error, or "panic" on the nil answer                *)
(*   onError  what comes with the error of a page                           *)
(*   heeds    what else is looked at: a nil "input", the "context", the     *)
(*              "limit" of the input                                        *)
(***************************************************************************)

Plain ==
  [paging |-> "pages", of |-> <<>>, batch |-> "none", each |-> <<>>,
   found |-> "all", failed |-> "keep", onError |-> "part", heeds |-> {}]

First == [Plain EXCEPT !.paging = "first"]

\* Items are returned without their tags when those cannot be read.
Tagged(m) == [m EXCEPT !.batch = "item"]

Described(m, failed) == [m EXCEPT !.batch = "item", !.failed = failed]

-----------------------------------------------------------------------------

AutoScalingGroups == Plain
ComputeEnvironments == Plain
JobQueues == Plain
Instances == Plain
InstanceTypes == Plain
Snapshots == Plain
FileSystems == Plain
Policies == Plain
DbInstances == Plain
DBEngineVersions == Plain
DbSnapshots == Plain
Secrets == Plain
ConnectionGroups == Plain
DistributionTenants == Plain

RouteTables == [Plain EXCEPT !.heeds = {"input"}]
SecurityGroups == [Plain EXCEPT !.heeds = {"input"}]
Subnets == [Plain EXCEPT !.heeds = {"input"}]
Volumes == [Plain EXCEPT !.heeds = {"input"}]
VpcEndpoints == [Plain EXCEPT !.heeds = {"input"}]
Vpcs == [Plain EXCEPT !.heeds = {"input"}]

Roles == Tagged(Plain)
Users == Tagged(Plain)
Functions == Tagged(Plain)

\* The answer of DescribeClusters is read before its error.
EcsClusters ==
  [Plain EXCEPT !.batch = "page", !.found = "some", !.failed = "panic"]

EcsServices ==
  [Plain EXCEPT !.batch = "chunk", !.found = "some", !.failed = "skip"]

EmrClusters == Described(Plain, "again")

\* `if err != nil { append(applications, *application) }`: what is found is not
\* returned, and what is not found is a nil pointer.
Applications == [Described(Plain, "panic") EXCEPT !.found = "none"]

JobRuns == Described(Plain, "skip")

LogGroups == Tagged(First)
LoadBalancers == Tagged(First)
DynamoTables == Described(First, "part")
Topics == Described(First, "part")
Queues == Described(First, "part")

\* Buckets of other regions are left out.
Buckets == [Described(First, "part") EXCEPT !.found = "some"]

EksClusters == Described(First, "skip")
AttachedPolicies == Described(First, "skip")

Databases == First
Jobs == First
GlueTables == First
Prices == First

HealthEvents ==
  [First EXCEPT !.batch = "chunk", !.found = "some", !.failed = "skip"]

Addresses == [Plain EXCEPT !.paging = "whole", !.heeds = {"input"}]
Regions == [Plain EXCEPT !.paging = "whole"]

NoAthena == [Plain EXCEPT !.paging = "none"]

FoundResources == [Plain EXCEPT !.heeds = {"limit"}]

CostAndUsage == [Plain EXCEPT !.onError = "nothing", !.heeds = {"context"}]
DimensionValues == [Plain EXCEPT !.onError = "nothing", !.heeds = {"context"}]

Domains == [Plain EXCEPT !.onError = "nothing"]
Operations == [Plain EXCEPT !.onError = "nothing"]
ResourceRecords == [Plain EXCEPT !.onError = "nothing"]

HostedZones == [Tagged(Plain) EXCEPT !.paging = "input", !.onError = "nothing"]

-----------------------------------------------------------------------------

Of(m) == [Plain EXCEPT !.paging = "call", !.of = <<m>>]

CloudControlResources == Described(Of(FoundResources), "keep")

\* GetDomainByInput may return nil for a domain it does not find.
DomainDetails == [Described(Of(Domains), "nothing") EXCEPT !.found = "some"]

PolicyVersions == Described(Of(AttachedPolicies), "skip")

\* The services listed before an error are returned, without it.
AllServices ==
  [Described(Of(EcsClusters), "part") EXCEPT !.each = <<EcsServices>>]

AllGlueTables ==
  [Described(Of(Databases), "skip") EXCEPT !.each = <<GlueTables>>]

AllJobRuns ==
  [Described(Of(Applications), "skip") EXCEPT !.each = <<JobRuns>>]

-----------------------------------------------------------------------------

Paged ==
  {AutoScalingGroups, ComputeEnvironments, JobQueues, Instances, InstanceTypes,
   Snapshots, FileSystems, Policies, DbInstances, DBEngineVersions, DbSnapshots,
   Secrets, ConnectionGroups, DistributionTenants, RouteTables, SecurityGroups,
   Subnets, Volumes, VpcEndpoints, Vpcs, Roles, Users, Functions, EcsClusters,
   EcsServices, EmrClusters, Applications, JobRuns, FoundResources, CostAndUsage,
   DimensionValues, Domains, Operations, ResourceRecords, HostedZones}

Unpaged ==
  {LogGroups, LoadBalancers, DynamoTables, Topics, Queues, Buckets, EksClusters,
   AttachedPolicies, Databases, Jobs, GlueTables, Prices, HealthEvents, Addresses,
   Regions, NoAthena}

Calling ==
  {CloudControlResources, DomainDetails, PolicyVersions, AllServices,
   AllGlueTables, AllJobRuns}
=============================================================================
