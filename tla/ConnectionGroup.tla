-------------------------- MODULE ConnectionGroup --------------------------
(***************************************************************************)
(* The operations of CloudFrontRepository that change a connection group    *)
(* (src/service/cloudfront/connection_group_repository.go), made by         *)
(* concurrent callers of one group name, while tenants are attached to the  *)
(* group and detached from it.                                              *)
(*                                                                         *)
(* Unlike a delete of a tenant, DeleteConnectionGroup does not read again:  *)
(* it deletes with the ETag that came with the answer to its own disable.   *)
(*                                                                         *)
(* CloudFront is external, modelled from how the repository uses it: an     *)
(* update or a delete must present the current ETag and the group's id; a   *)
(* delete needs a disabled group that has settled and that no tenant uses;  *)
(* an update of a group in use may be refused too (errors.go:84-88).  When  *)
(* several of these fail, any of them is the error.  Every answer carries    *)
(* the group, so the early returns for an answer without one are left out,  *)
(* and so are the checks of empty arguments.                                *)
(***************************************************************************)
EXTENDS CloudFrontCalls

CONSTANT GroupRequests  \* the operations a caller may ask for

Group == [id : Nat, etag : Nat, enabled : BOOLEAN, default : BOOLEAN]

ASSUME GroupAssumption ==
  /\ Gone \notin Group
  /\ GroupRequests \subseteq
       [op : {"Update"}, enabled : BOOLEAN]
         \cup [op : {"Create"}, enabled : {TRUE}]
         \cup [op : {"Delete"}, enabled : {FALSE}]
  /\ MaxLost \in Nat

VARIABLES
  group,     \* the group of the name, as CloudFront has it
  attached,  \* whether tenants are attached to it
  overlooked \* overlooked[c]: the group changed since c got its version

cloudVars == <<group, attached, settled, version, lost>>
groupVars == <<cloudVars, request, pc, seen, overlooked, result>>

GroupResults == Results \cup {"InUse", "default"}

GroupInit ==
  /\ group \in {Gone} \cup [id : {1}, etag : {1}, enabled : BOOLEAN,
                            default : BOOLEAN]
  /\ attached = FALSE
  /\ overlooked = [c \in Callers |-> FALSE]
  /\ Begin(GroupRequests)

-----------------------------------------------------------------------------

\* What c has in hand is now g, up to date.
Has(c, g) ==
  /\ seen' = [seen EXCEPT ![c] = g]
  /\ overlooked' = [overlooked EXCEPT ![c] = FALSE]

\* The group changes, by an answer c gets: everyone else has an old version.
Answered(c, g) ==
  /\ seen' = [seen EXCEPT ![c] = g]
  /\ overlooked' = [d \in Callers |-> d # c]
  /\ UNCHANGED lost

\* The group changes, by an answer that is lost; the SDK repeats the call.
Lost ==
  /\ LoseResponse
  /\ overlooked' = [d \in Callers |-> TRUE]

\* The group changes, by an answer that ends the operation.
Returned(c) ==
  /\ Return(c, "ok")
  /\ overlooked' = [d \in Callers |-> TRUE]
  /\ UNCHANGED <<seen, lost>>

\* GetConnectionGroup, and what DeleteConnectionGroup makes of its answer.
GetConnectionGroup(c) ==
  /\ pc[c] = "get"
  /\ \/ /\ ~Found(c, group)
        /\ Return(c, IF request[c].op = "Delete" THEN "ok" ELSE "NotFound")
        /\ UNCHANGED <<seen, overlooked>>
     \/ /\ Found(c, group) /\ request[c].op = "Delete" /\ group.default
        /\ Return(c, "default")
        /\ Has(c, group)
     \/ /\ Found(c, group) /\ ~(request[c].op = "Delete" /\ group.default)
        /\ Goto(c, IF request[c].op = "Update" \/ group.enabled THEN "update"
                   ELSE "delete")
        /\ Has(c, group)
  /\ UNCHANGED <<cloudVars, request>>

\* Why CloudFront may refuse c's update.
UpdateErrors(c) ==
  IF ~Found(c, group) THEN {"NotFound"}
  ELSE {e \in {"PreconditionFailed"} : group.etag # seen[c].etag}

\* mutant: the delete goes on with the ETag of the first read
UpdateConnectionGroupOldETag(c) ==
  LET new == [id |-> group.id, etag |-> version + 1,
              enabled |-> request[c].enabled, default |-> group.default]
  IN
  /\ pc[c] = "update"
  /\ UpdateErrors(c) = {}
  /\ group' = new
  /\ version' = version + 1
  /\ settled' = FALSE
  /\ \/ Lost
     \/ /\ Answered(c, [seen[c] EXCEPT !.enabled = FALSE])
        /\ IF request[c].op = "Delete" THEN Goto(c, "delete") ELSE Return(c, "ok")
  /\ UNCHANGED <<attached, request>>

\* UpdateConnectionGroup takes effect: a caller's own, or a delete's disable.
UpdateConnectionGroup(c) ==
  LET new == [id |-> group.id, etag |-> version + 1,
              enabled |-> request[c].enabled, default |-> group.default]
  IN
  /\ pc[c] = "update"
  /\ UpdateErrors(c) = {}
  /\ group' = new
  /\ version' = version + 1
  /\ settled' = FALSE
  /\ \/ Lost
     \/ /\ Answered(c, new)
        /\ IF request[c].op = "Delete" THEN Goto(c, "delete") ELSE Return(c, "ok")
  /\ UNCHANGED <<attached, request>>

\* mutant: a delete goes on after its disable was refused
UpdateRefusedGoesOn(c) ==
  /\ pc[c] = "update"
  /\ \E e \in UpdateErrors(c) \cup {f \in {"InUse"} : Found(c, group) /\ attached} :
       result' = [result EXCEPT ![c] = e]
  /\ pc' = [pc EXCEPT ![c] = IF request[c].op = "Delete" THEN "delete"
                             ELSE "returned"]
  /\ UNCHANGED <<cloudVars, request, seen, overlooked>>

\* Its error, whichever operation it serves, is returned as it is.
UpdateRefused(c) ==
  /\ pc[c] = "update"
  /\ \E e \in UpdateErrors(c) \cup {f \in {"InUse"} : Found(c, group) /\ attached} :
       Return(c, e)
  /\ UNCHANGED <<cloudVars, request, seen, overlooked>>

DeleteErrors(c) ==
  IF ~Found(c, group) THEN {"NotFound"}
  ELSE {e \in {"PreconditionFailed"} : group.etag # seen[c].etag}
         \cup {e \in {"NotDisabled"} : group.enabled \/ ~settled}
         \cup {e \in {"InUse"} : attached}

\* DeleteConnectionGroupByInput takes effect.
DeleteConnectionGroup(c) ==
  /\ pc[c] = "delete"
  /\ DeleteErrors(c) = {}
  /\ group' = Gone
  /\ Lost \/ Returned(c)
  /\ UNCHANGED <<attached, settled, version, request>>

\* mutant: a group in use counts as deleted, as a missing one does
DeleteRefusedInUse(c) ==
  /\ pc[c] = "delete"
  /\ \E e \in DeleteErrors(c) :
       Return(c, IF e \in {"NotFound", "InUse"} THEN "ok" ELSE e)
  /\ UNCHANGED <<cloudVars, request, seen, overlooked>>

\* A group that is missing by now is as good as deleted.
DeleteRefused(c) ==
  /\ pc[c] = "delete"
  /\ \E e \in DeleteErrors(c) :
       Return(c, IF e = "NotFound" THEN "ok" ELSE e)
  /\ UNCHANGED <<cloudVars, request, seen, overlooked>>

CreateConnectionGroup(c) ==
  LET new == [id |-> version + 1, etag |-> version + 1,
              enabled |-> request[c].enabled, default |-> FALSE]
  IN
  /\ pc[c] = "create"
  /\ \/ /\ group # Gone
        /\ Return(c, "AlreadyExists")
        /\ UNCHANGED <<group, settled, version, lost, seen, overlooked>>
     \/ /\ group = Gone
        /\ group' = new
        /\ version' = version + 1
        /\ settled' = FALSE
        /\ \/ Lost
           \/ Answered(c, new) /\ Return(c, "ok")
  /\ UNCHANGED <<attached, request>>

GroupFails(c) == Fail(c) /\ UNCHANGED <<group, attached, overlooked>>

GroupSettles == Settle /\ UNCHANGED <<group, attached, overlooked>>

\* Tenants come and go; the group's ETag stays.
Attach ==
  /\ group # Gone
  /\ attached' = ~attached
  /\ UNCHANGED <<group, settled, version, lost, request, pc, seen, overlooked,
                 result>>

GroupCaller(c) ==
  \/ GetConnectionGroup(c)
  \/ UpdateConnectionGroup(c)
  \/ UpdateRefused(c)
  \/ DeleteConnectionGroup(c)
  \/ DeleteRefused(c)
  \/ CreateConnectionGroup(c)

GroupNext ==
  \/ GroupSettles
  \/ Attach
  \/ \E c \in Callers : GroupCaller(c) \/ GroupFails(c)

GroupSpec == GroupInit /\ [][GroupNext]_groupVars

-----------------------------------------------------------------------------
(* Properties. *)

GroupTypeOK ==
  /\ group \in {Gone} \cup Group
  /\ attached \in BOOLEAN
  /\ settled \in BOOLEAN
  /\ version \in Nat
  /\ lost \in 0 .. MaxLost
  /\ request \in [Callers -> GroupRequests]
  /\ pc \in [Callers -> {"get", "update", "delete", "create", "returned"}]
  /\ seen \in [Callers -> {Gone} \cup Group]
  /\ overlooked \in [Callers -> BOOLEAN]
  /\ result \in [Callers -> GroupResults]
  /\ \A c \in Callers : pc[c] = "returned" <=> result[c] # "none"

\* A nil error of DeleteConnectionGroup means that the group it read is gone
\* and was not the account's default, whatever updates, deletes, lost
\* responses and newly attached tenants came in between (254-303).
NilMeansGroupGone ==
  \A c \in Callers :
    request[c].op = "Delete" /\ result[c] = "ok" /\ seen[c] # Gone =>
      /\ ~seen[c].default
      /\ group = Gone \/ group.id # seen[c].id

\* "The supplied ETag was stale -- the resource changed underneath the caller"
\* (errors.go:24-26): an update or a delete is refused for its ETag only when
\* someone else, or a response the caller never got, changed the group since
\* the version in hand.  A delete's own disable never makes it stale.
StaleMeansChanged ==
  \A c \in Callers : result[c] = "PreconditionFailed" => overlooked[c]

=============================================================================
