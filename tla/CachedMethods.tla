--------------------------- MODULE CachedMethods ---------------------------
(***************************************************************************)
(* The methods that WithCache wraps (src/service/*/cached_repository.go,    *)
(* generated by src/cmd/generate-cached/main.go), by service.  Every        *)
(* wrapper has the same body, which CachedRepository models; what tells     *)
(* them apart is the service and the method, and which have parameters.     *)
(***************************************************************************)

Athena == {"ListDataCatalogsAll", "ListWorkGroupAll"}

Autoscaling == {"ListAutoScalingGroups", "ListAutoScalingGroupsAll"}

Batch ==
  {"ListComputeEnvironmentAll", "ListComputeEnvironmentByInput",
   "ListJobQueueAll", "ListJobQueueByInput"}

CloudControl ==
  {"ListResourcesByInput", "ListResourcesByType",
   "ListResourcesByTypeDetailed"}

CloudFront ==
  {"GetConnectionGroup", "GetConnectionGroupByInput",
   "GetConnectionGroupByRoutingEndpoint", "GetDistributionTenant",
   "GetDistributionTenantByDomain", "GetDistributionTenantByInput",
   "GetManagedCertificateDetails", "ListConnectionGroupsAll",
   "ListConnectionGroupsByInput", "ListDistributionTenantsAll",
   "ListDistributionTenantsByDistribution",
   "ListDistributionTenantsByInput",
   "ListDistributionTenantsWithCertificatesAll",
   "ListDistributionTenantsWithCertificatesByInput"}

CloudTrail ==
  {"ListEventsByInput", "ListEventsByLookup", "ListEventsByLookupCached"}

CloudWatchLogs ==
  {"GetLogGroupTags", "ListLogGroupsAll", "ListLogGroupsByInput"}

CostExplorer ==
  {"GetCostAndUsage", "GetCostAndUsageByPeriod", "GetCostAndUsageByQuery",
   "GetCostForecast", "GetDimensionValues"}

DynamoDB == {"GetTableTags", "ListTablesAll", "ListTablesByInput"}

Ec2 ==
  {"GetInstanceTypes", "ListAddressesAll", "ListAddressesByInput",
   "ListInstancesAll", "ListInstancesByInput", "ListRegionByInput",
   "ListRegionsAll", "ListRegionsOptIn", "ListRouteTablesAll",
   "ListRouteTablesByInput", "ListSecurityGroupsAll",
   "ListSecurityGroupsByInput", "ListSnapshotsAll",
   "ListSnapshotsByInput", "ListSubnetsAll", "ListSubnetsByInput",
   "ListVolumesAll", "ListVolumesByInput", "ListVpcEndpointsAll",
   "ListVpcEndpointsByInput", "ListVpcsAll", "ListVpcsByInput"}

Ecs ==
  {"ListClustersAll", "ListClustersByInput", "ListServicesAll",
   "ListServicesByCluster", "ListServicesByInput"}

Efs == {"ListFileSystemsAll", "ListFileSystemsByInput"}

Eks == {"ListClustersAll", "ListClustersByInput"}

Elb ==
  {"GetLoadBalancerTags", "ListLoadBalancersAll",
   "ListLoadBalancersByInput"}

Emr == {"ListClustersAll", "ListClustersByInput", "ListClustersLatest"}

EMRServerless ==
  {"ListApplicationsActive", "ListApplicationsAll",
   "ListApplicationsByInput", "ListJobRunsAll", "ListJobRunsByInput"}

Glue ==
  {"ListDatabaseAll", "ListDatabaseByInput", "ListJobsAll",
   "ListJobsByInput", "ListTablesAll", "ListTablesByInput"}

Health == {"ListEventsDetailsByInput"}

Iam ==
  {"ListAssumedRoleArn", "ListAttachedRolePoliciesByInput",
   "ListAttachedRolePoliciesByRole",
   "ListAttachedRolePolicyVersionsByInput",
   "ListAttachedRolePolicyVersionsByRole",
   "ListAttachedRolePolicyVersionsByRoleName", "ListPoliciesAll",
   "ListPoliciesByInput", "ListPolicyTags", "ListRoleTags",
   "ListRolesAll", "ListRolesByInput", "ListUserTags", "ListUsersAll",
   "ListUsersByInput"}

Lambda == {"ListFunctionTags", "ListFunctionsAll", "ListFunctionsByInput"}

Pricing == {"GetInstancePricing", "GetInstancePricingByInput"}

Rds ==
  {"ListDBEngineVersionsByInput", "ListDbInstancesAll",
   "ListDbInstancesByInput", "ListDbSnapshotsAll",
   "ListDbSnapshotsByInput"}

Route53 ==
  {"GetDomainByInput", "GetDomainTags", "GetHostedZoneByInput",
   "GetHostedZoneTags", "GetOperationDetail", "ListDomainsAll",
   "ListDomainsByInput", "ListDomainsDetailsByInput",
   "ListHostedZonesAll", "ListHostedZonesByInput", "ListOperations",
   "ListResourceRecords", "ListResourceRecordsByInput"}

S3 == {"GetTags", "ListBucketsAll", "ListBucketsByInput"}

SecretManager == {"ListSecretsAll", "ListSecretsByInput"}

Sns == {"GetTopicTags", "ListTopicsAll", "ListTopicsByInput"}

Sqs == {"GetQueueTags", "ListQueuesAll", "ListQueuesByInput"}

\* The methods without parameters, whose key is their name.
Parameterless ==
  {"GetInstanceTypes", "ListAddressesAll", "ListApplicationsActive",
   "ListAutoScalingGroupsAll", "ListBucketsAll", "ListClustersAll",
   "ListComputeEnvironmentAll", "ListConnectionGroupsAll",
   "ListDataCatalogsAll", "ListDatabaseAll", "ListDbInstancesAll",
   "ListDbSnapshotsAll", "ListDistributionTenantsAll",
   "ListDistributionTenantsWithCertificatesAll", "ListDomainsAll",
   "ListFileSystemsAll", "ListFunctionsAll", "ListHostedZonesAll",
   "ListInstancesAll", "ListJobQueueAll", "ListJobRunsAll", "ListJobsAll",
   "ListLoadBalancersAll", "ListLogGroupsAll", "ListPoliciesAll",
   "ListQueuesAll", "ListRegionsAll", "ListRegionsOptIn", "ListRolesAll",
   "ListRouteTablesAll", "ListSecretsAll", "ListSecurityGroupsAll",
   "ListServicesAll", "ListSnapshotsAll", "ListSubnetsAll",
   "ListTablesAll", "ListTopicsAll", "ListUsersAll", "ListVolumesAll",
   "ListVpcEndpointsAll", "ListVpcsAll", "ListWorkGroupAll"}

\* The methods that are cached, by service.
MethodsOf ==
  [athena |-> Athena, autoscaling |-> Autoscaling, batch |-> Batch,
   cloudcontrol |-> CloudControl, cloudfront |-> CloudFront,
   cloudtrail |-> CloudTrail, cloudwatchlogs |-> CloudWatchLogs,
   costexplorer |-> CostExplorer, dynamodb |-> DynamoDB, ec2 |-> Ec2,
   ecs |-> Ecs, efs |-> Efs, eks |-> Eks, elb |-> Elb, emr |-> Emr,
   emrserverless |-> EMRServerless, glue |-> Glue, health |-> Health,
   iam |-> Iam, lambda |-> Lambda, pricing |-> Pricing, rds |-> Rds,
   route53 |-> Route53, s3 |-> S3, secretmanager |-> SecretManager,
   sns |-> Sns, sqs |-> Sqs]

Methods ==
  UNION {{[service |-> s, name |-> m] : m \in MethodsOf[s]} : s \in DOMAIN MethodsOf}

\* Methods without an error among their results, which are never written.
Unwritten ==
  {m \in Methods : m.name \in {"GetDomainTags", "GetHostedZoneTags",
                               "ListAssumedRoleArn"}}

\* Methods that return a nil pointer without an error where there is nothing.
Nilable ==
  {m \in Methods :
     m.name \in {"GetConnectionGroup", "GetConnectionGroupByInput",
                 "GetConnectionGroupByRoutingEndpoint",
                 "GetDistributionTenant", "GetDistributionTenantByDomain",
                 "GetDistributionTenantByInput", "GetDomainByInput",
                 "GetHostedZoneByInput", "GetInstancePricing"}}
=============================================================================
