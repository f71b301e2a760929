------------------------- MODULE DistributionTenant -------------------------
(***************************************************************************)
(* The operations of CloudFrontRepository that change a distribution tenant *)
(* (src/service/cloudfront/distribution_tenant_repository.go), made by      *)
(* concurrent callers of one tenant name.                                   *)
(*                                                                         *)
(* CloudFront is external, modelled from how the repository uses it: an     *)
(* update or a delete must present the current ETag and the tenant's id; a  *)
(* delete needs a disabled tenant that has settled.  A name that is deleted *)
(* may be created again, with another id.                                  *)
(***************************************************************************)
EXTENDS CloudFrontCalls

CONSTANTS Domains,        \* the sets of hostnames a tenant may serve
          TenantRequests  \* the operations a caller may ask for

Tenant == [id : Nat, etag : Nat, enabled : BOOLEAN, domains : Domains]

ASSUME TenantAssumption ==
  /\ Domains # {}
  /\ Gone \notin Tenant
  /\ TenantRequests \subseteq
       [op : {"SetEnabled"}, arg : BOOLEAN]
         \cup [op : {"UpdateDomains", "Create"}, arg : Domains]
         \cup [op : {"Delete"}, arg : {Gone}]
  /\ MaxLost \in Nat

VARIABLE tenant  \* the tenant of the name, as CloudFront has it

tenantVars == <<tenant, settled, version, lost, request, pc, seen, result>>

\* The errors "the caller should retry" after (errors.go:22-28, 430-433).
Retriable == {"PreconditionFailed", "NotDisabled"}

TenantInit ==
  /\ tenant \in {Gone} \cup [id : {1}, etag : {1}, enabled : BOOLEAN,
                             domains : {CHOOSE d \in Domains : TRUE}]
  /\ Begin(TenantRequests)

-----------------------------------------------------------------------------

\* mutant: the comparison of SetDistributionTenantEnabled the wrong way round
NextCallInverted(c) ==
  IF request[c].op = "SetEnabled"
    THEN IF tenant.enabled = request[c].arg THEN "update" ELSE "returned"
  ELSE IF request[c].op = "UpdateDomains" THEN "update"
  ELSE IF ~tenant.enabled THEN "delete"
  ELSE IF pc[c] = "get" THEN "disableGet" ELSE "update"

\* mutant: a delete leaves the disable out
NextCallNeverDisables(c) ==
  IF request[c].op = "SetEnabled"
    THEN IF tenant.enabled = request[c].arg THEN "returned" ELSE "update"
  ELSE IF request[c].op = "UpdateDomains" THEN "update"
  ELSE "delete"

\* What follows a read.  A delete of an enabled tenant goes through
\* SetDistributionTenantEnabled, which reads the tenant once more.
NextCall(c) ==
  IF request[c].op = "SetEnabled"
    THEN IF tenant.enabled = request[c].arg THEN "returned" ELSE "update"
  ELSE IF request[c].op = "UpdateDomains" THEN "update"
  ELSE IF ~tenant.enabled THEN "delete"
  ELSE IF pc[c] = "get" THEN "disableGet" ELSE "update"

GetDistributionTenant(c) ==
  /\ pc[c] \in {"get", "disableGet"}
  /\ \/ /\ ~Found(c, tenant)
        /\ Return(c, IF request[c].op = "Delete" /\ pc[c] = "get" THEN "ok"
                     ELSE "NotFound")
        /\ UNCHANGED seen
     \/ /\ Found(c, tenant)
        /\ seen' = [seen EXCEPT ![c] = tenant]
        /\ IF NextCall(c) = "returned" THEN Return(c, "ok")
           ELSE Goto(c, NextCall(c))
  /\ UNCHANGED <<tenant, settled, version, lost, request>>

\* mutant: an update clears the fields it does not carry
UpdatedClears(c) ==
  LET new == [tenant EXCEPT !.etag = version + 1] IN
  IF request[c].op = "SetEnabled"
    THEN [new EXCEPT !.enabled = request[c].arg, !.domains = Gone]
  ELSE IF request[c].op = "UpdateDomains"
    THEN [new EXCEPT !.domains = request[c].arg]
  ELSE [new EXCEPT !.enabled = FALSE]

\* The tenant after c's update: only the field the request carries changes.
Updated(c) ==
  LET new == [tenant EXCEPT !.etag = version + 1] IN
  IF request[c].op = "SetEnabled"
    THEN [new EXCEPT !.enabled = request[c].arg]
  ELSE IF request[c].op = "UpdateDomains"
    THEN [new EXCEPT !.domains = request[c].arg]
  ELSE [new EXCEPT !.enabled = FALSE]

\* mutant: the ETag is read apart from the tenant, just before the call
IfMatchLatest(c) == tenant.etag

IfMatch(c) == seen[c].etag

UpdateDistributionTenant(c) ==
  /\ pc[c] = "update"
  /\ \/ /\ ~Found(c, tenant)
        /\ Return(c, "NotFound")
        /\ UNCHANGED <<tenant, settled, version, lost, seen>>
     \/ /\ Found(c, tenant) /\ tenant.etag # IfMatch(c)
        /\ Return(c, "PreconditionFailed")
        /\ UNCHANGED <<tenant, settled, version, lost, seen>>
     \/ /\ Found(c, tenant) /\ tenant.etag = IfMatch(c)
        /\ tenant' = Updated(c)
        /\ version' = version + 1
        /\ settled' = FALSE
        /\ \/ LoseResponse
           \/ /\ seen' = [seen EXCEPT ![c] = Updated(c)]
              /\ IF request[c].op = "Delete" THEN Goto(c, "delete")
                 ELSE Return(c, "ok")
              /\ UNCHANGED lost
  /\ UNCHANGED request

\* mutant: any error of the delete but a stale ETag counts as done
DeleteFailedDone == {"NotFound", "NotDisabled"}
DeleteFailed == {"NotFound"}

DeleteDistributionTenant(c) ==
  LET answer(r) == Return(c, IF r \in DeleteFailed THEN "ok" ELSE r) IN
  /\ pc[c] = "delete"
  /\ \/ /\ ~Found(c, tenant)
        /\ answer("NotFound")
        /\ UNCHANGED <<tenant, lost, seen>>
     \/ /\ Found(c, tenant) /\ tenant.etag # IfMatch(c)
        /\ answer("PreconditionFailed")
        /\ UNCHANGED <<tenant, lost, seen>>
     \/ /\ Found(c, tenant) /\ tenant.etag = IfMatch(c) /\ (tenant.enabled \/ ~settled)
        /\ answer("NotDisabled")
        /\ UNCHANGED <<tenant, lost, seen>>
     \/ /\ Found(c, tenant) /\ tenant.etag = IfMatch(c) /\ ~tenant.enabled /\ settled
        /\ tenant' = Gone
        /\ \/ LoseResponse
           \/ Return(c, "ok") /\ UNCHANGED <<seen, lost>>
  /\ UNCHANGED <<settled, version, request>>

CreateDistributionTenant(c) ==
  /\ pc[c] = "create"
  /\ \/ /\ tenant # Gone
        /\ Return(c, "AlreadyExists")
        /\ UNCHANGED <<tenant, settled, version, lost, seen>>
     \/ /\ tenant = Gone
        /\ tenant' = [id |-> version + 1, etag |-> version + 1, enabled |-> TRUE,
                      domains |-> request[c].arg]
        /\ version' = version + 1
        /\ settled' = FALSE
        /\ \/ LoseResponse
           \/ /\ seen' = [seen EXCEPT ![c] = tenant']
              /\ Return(c, "ok")
              /\ UNCHANGED lost
  /\ UNCHANGED request

\* The caller of a delete reads again and retries.
Retry(c) ==
  /\ pc[c] = "returned" /\ result[c] \in Retriable
  /\ request[c].op = "Delete"
  /\ pc' = [pc EXCEPT ![c] = "get"]
  /\ seen' = [seen EXCEPT ![c] = Gone]
  /\ result' = [result EXCEPT ![c] = "none"]
  /\ UNCHANGED <<tenant, settled, version, lost, request>>

TenantSettles == Settle /\ UNCHANGED tenant

TenantFails(c) == Fail(c) /\ UNCHANGED tenant

TenantCaller(c) ==
  \/ GetDistributionTenant(c)
  \/ UpdateDistributionTenant(c)
  \/ DeleteDistributionTenant(c)
  \/ CreateDistributionTenant(c)
  \/ Retry(c)

TenantNext ==
  TenantSettles \/ \E c \in Callers : TenantCaller(c) \/ TenantFails(c)

TenantSpec == TenantInit /\ [][TenantNext]_tenantVars

\* Calls are answered, a caller told to retry does, and CloudFront settles.
TenantFairSpec ==
  /\ TenantSpec
  /\ WF_tenantVars(TenantSettles)
  /\ \A c \in Callers : WF_tenantVars(TenantCaller(c))

-----------------------------------------------------------------------------
(* Properties. *)

TenantTypeOK ==
  /\ tenant \in {Gone} \cup Tenant
  /\ settled \in BOOLEAN
  /\ version \in Nat
  /\ lost \in 0 .. MaxLost
  /\ request \in [Callers -> TenantRequests]
  /\ pc \in [Callers -> {"get", "disableGet", "update", "delete", "create",
                         "returned"}]
  /\ seen \in [Callers -> {Gone} \cup Tenant]
  /\ result \in [Callers -> Results]
  /\ \A c \in Callers : pc[c] = "returned" <=> result[c] # "none"

\* "A stale one yields ErrPreconditionFailed" (297-299): whoever changes or
\* deletes the tenant replaces the very version it had in hand, so no
\* operation overwrites or deletes what another did since.
ReplacesWhatItRead ==
  [][ tenant # Gone /\ tenant' # tenant =>
        \E c \in Callers : pc[c] \in {"update", "delete"} /\ seen[c] = tenant ]_tenantVars

\* A nil error of DeleteDistributionTenant means that the tenant it read is
\* gone, through lost responses, other deletes and a new tenant of its name.
NilMeansGone ==
  \A c \in Callers :
    request[c].op = "Delete" /\ result[c] = "ok" /\ seen[c] # Gone =>
      tenant = Gone \/ tenant.id # seen[c].id

\* What a successful SetDistributionTenantEnabled or
\* UpdateDistributionTenantDomains returns is in the state asked for, changed
\* by this call or by another (339-341, 363-364).
ReturnsWhatWasAsked ==
  \A c \in Callers :
    result[c] = "ok" =>
      /\ request[c].op = "SetEnabled" => seen[c].enabled = request[c].arg
      /\ request[c].op = "UpdateDomains" => seen[c].domains = request[c].arg

\* "The caller should retry" (430-433): a delete that is retried on a stale
\* ETag or an unsettled disable comes to an end.
RetriedDeleteEnds ==
  \A c \in Callers :
    request[c].op = "Delete" =>
      <>[](pc[c] = "returned" /\ result[c] \notin Retriable)
=============================================================================
