------------------------------ MODULE Gateways ------------------------------
(***************************************************************************)
(* proxy.RepoProxyPool and its gateways (src/proxy): which of a pool's      *)
(* gateways are asked for a resource type, and what FindAll of a gateway    *)
(* asks of which repository.  A gateway is the account and region of its    *)
(* client; its kind tells a RepoProxy from a GenericRepoProxy.              *)
(***************************************************************************)
EXTENDS Naturals, Sequences, FiniteSets, Functions

CONSTANTS Accounts, Regions,
          UsEast1, EuCentral1  \* the regions preferred for global types

Pairs == [account : Accounts, region : Regions]

\* The resource types that exist once per account, whatever the region.
GlobalTypes ==
  {"User", "Route53HostedZone", "Route53ResourceRecord", "Route53Domain",
   "Route53DomainSummary", "CloudFrontDistributionTenantSummary",
   "CloudFrontConnectionGroup"}

RegionalTypes ==
  {"AthenaDataCatalog", "AthenaWorkGroup", "AutoScalingGroup",
   "BatchComputeEnvironment", "BatchJobQueue", "CloudWatchLogGroup", "Trail",
   "Bucket", "DBInstance", "DBSnapshot", "ECSCluster", "ECSService",
   "EKSCluster", "EFSFileSystem", "EmrCluster", "EmrServerlessApplication",
   "EmrServerlessJobRun", "Function", "GlueDatabase", "GlueJob", "GlueTable",
   "Instance", "Volume", "Snapshot", "Vpc", "Subnet", "SecurityGroup",
   "VPCEndpoint", "RouteTable", "Eip", "LoadBalancerV2", "Queue", "Secret",
   "Table", "Topic"}

Types == GlobalTypes \cup RegionalTypes

-----------------------------------------------------------------------------
(* RepoProxyPool.List. *)

InRegion(gateways, r) == {g \in Range(gateways) : g.region = r}

\* mutant: without a preferred region every gateway is asked
FirstOfAccountAll(gateways) == Range(gateways)

\* The first gateway of each account.
FirstOfAccount(gateways) ==
  {gateways[i] : i \in {j \in DOMAIN gateways :
     \A k \in 1 .. (j - 1) : gateways[k].account # gateways[j].account}}

\* The gateways that are asked for a global type.
OfGlobal(gateways) ==
  IF InRegion(gateways, UsEast1) # {} THEN InRegion(gateways, UsEast1)
  ELSE IF InRegion(gateways, EuCentral1) # {} THEN InRegion(gateways, EuCentral1)
  ELSE FirstOfAccount(gateways)

List(gateways, type) ==
  IF type \in GlobalTypes THEN OfGlobal(gateways) ELSE Range(gateways)

-----------------------------------------------------------------------------
(* FindAll: the method of the repository that lists a type, with its cache  *)
(* in front of it if the gateway has one.                                   *)

Finder(service, name) == [service |-> service, name |-> name]

StoreFinders ==
  [AutoScalingGroup |-> Finder("autoscaling", "ListAutoScalingGroupsAll"),
   BatchComputeEnvironment |-> Finder("batch", "ListComputeEnvironmentAll"),
   BatchJobQueue |-> Finder("batch", "ListJobQueueAll"),
   CloudWatchLogGroup |-> Finder("cloudwatchlogs", "ListLogGroupsAll"),
   DBInstance |-> Finder("rds", "ListDbInstancesAll"),
   Table |-> Finder("dynamodb", "ListTablesAll"),
   DBSnapshot |-> Finder("rds", "ListDbSnapshotsAll")]

Ec2Finders ==
  [Snapshot |-> Finder("ec2", "ListSnapshotsAll"),
   Volume |-> Finder("ec2", "ListVolumesAll"),
   Vpc |-> Finder("ec2", "ListVpcsAll"),
   Subnet |-> Finder("ec2", "ListSubnetsAll"),
   SecurityGroup |-> Finder("ec2", "ListSecurityGroupsAll"),
   VPCEndpoint |-> Finder("ec2", "ListVpcEndpointsAll"),
   RouteTable |-> Finder("ec2", "ListRouteTablesAll"),
   Eip |-> Finder("ec2", "ListAddressesAll"),
   Instance |-> Finder("ec2", "ListInstancesAll")]

ClusterFinders ==
  [ECSCluster |-> Finder("ecs", "ListClustersAll"),
   EKSCluster |-> Finder("eks", "ListClustersAll"),
   ECSService |-> Finder("ecs", "ListServicesAll"),
   EFSFileSystem |-> Finder("efs", "ListFileSystemsAll"),
   EmrCluster |-> Finder("emr", "ListClustersLatest"),
   EmrServerlessApplication |-> Finder("emrserverless", "ListApplicationsActive"),
   EmrServerlessJobRun |-> Finder("emrserverless", "ListJobRunsAll"),
   GlueDatabase |-> Finder("glue", "ListDatabaseAll"),
   GlueJob |-> Finder("glue", "ListJobsAll"),
   GlueTable |-> Finder("glue", "ListTablesAll"),
   Function |-> Finder("lambda", "ListFunctionsAll")]

AccountFinders ==
  [User |-> Finder("iam", "ListUsersAll"),
   LoadBalancerV2 |-> Finder("elb", "ListLoadBalancersAll"),
   CloudFrontDistributionTenantSummary |->
     Finder("cloudfront", "ListDistributionTenantsAll"),
   CloudFrontConnectionGroup |-> Finder("cloudfront", "ListConnectionGroupsAll"),
   Route53HostedZone |-> Finder("route53", "ListHostedZonesAll"),
   Route53DomainSummary |-> Finder("route53", "ListDomainsAll"),
   Route53Domain |-> Finder("route53", "ListDomainsDetailsByInput"),
   Secret |-> Finder("secretmanager", "ListSecretsAll"),
   Queue |-> Finder("sqs", "ListQueuesAll"),
   Topic |-> Finder("sns", "ListTopicsAll"),
   Bucket |-> Finder("s3", "ListBucketsAll")]

\* The records of the zones are listed zone by zone; an error of any listing
\* leaves nothing.
ZoneFinders ==
  [Route53ResourceRecord |->
     <<Finder("route53", "ListHostedZonesAll"),
       Finder("route53", "ListResourceRecords")>>]

Found ==
  DOMAIN StoreFinders \cup DOMAIN Ec2Finders \cup DOMAIN ClusterFinders
    \cup DOMAIN AccountFinders \cup DOMAIN ZoneFinders

\* What FindAll(type) may ask of repositories in one call.
Asked(type) ==
  IF type \in DOMAIN ZoneFinders THEN Range(ZoneFinders[type])
  ELSE LET of == CHOOSE f \in {StoreFinders, Ec2Finders, ClusterFinders,
                               AccountFinders} : type \in DOMAIN f
       IN {of[type]}

\* A GenericRepoProxy asks Cloud Control, whatever the type; a RepoProxy has no
\* case for some types of the lists above and answers with an error.
FindAllAnswers(kind, type) == kind = "generic" \/ type \in Found
=============================================================================
