-------------------------- MODULE CloudFrontProofs --------------------------
(***************************************************************************)
(* Proofs about ConnectionGroup and DistributionTenant, for every set of     *)
(* callers and requests and any number of lost responses.                   *)
(*                                                                         *)
(* The two modules share what is in CloudFrontCalls and nothing else: each   *)
(* theorem is about one of the two specifications.                          *)
(***************************************************************************)
EXTENDS ConnectionGroup, DistributionTenant, TLAPS

-----------------------------------------------------------------------------
(* Connection groups: the inductive invariant. *)

\* Ids and ETags are given out in order.
Versions ==
  /\ group # Gone => group.id <= version /\ group.etag <= version
  /\ \A c \in Callers : seen[c] # Gone => seen[c].id <= version

\* Where a caller is tells what it has in hand.
InHand ==
  \A c \in Callers :
    /\ pc[c] \in {"get", "create"} => seen[c] = Gone
    /\ pc[c] = "get" => request[c].op # "Create"
    /\ pc[c] = "create" => request[c].op = "Create"
    /\ pc[c] = "delete" => request[c].op = "Delete"
    /\ pc[c] \in {"update", "delete"} =>
         seen[c] # Gone /\ (request[c].op = "Delete" => ~seen[c].default)

\* A group stays the default one, or not, as long as it lives.
DefaultStays ==
  \A c \in Callers :
    seen[c] # Gone /\ group # Gone /\ group.id = seen[c].id =>
      group.default = seen[c].default

\* A version in hand is the current one unless it was overlooked.
UpToDate ==
  \A c \in Callers : seen[c] # Gone /\ ~overlooked[c] => group = seen[c]

GroupInv ==
  /\ GroupTypeOK
  /\ Versions
  /\ InHand
  /\ DefaultStays
  /\ UpToDate
  /\ NilMeansGroupGone
  /\ StaleMeansChanged

-----------------------------------------------------------------------------

\* What a caller may ask for.
LEMMA RequestFields ==
  ASSUME NEW q \in GroupRequests
  PROVE  /\ q.op \in {"Update", "Create", "Delete"}
         /\ q.enabled \in BOOLEAN
         /\ q.op = "Delete" => ~q.enabled
BY GroupAssumption

\* What a group is made of.
LEMMA GroupFields ==
  ASSUME NEW g \in Group
  PROVE  g # Gone /\ g.id \in Nat /\ g.etag \in Nat /\ g.enabled \in BOOLEAN
           /\ g.default \in BOOLEAN
BY GroupAssumption DEF Group

\* The initial states satisfy the inductive invariant.
THEOREM GroupsInitially == GroupInit => GroupInv
<1> SUFFICES ASSUME GroupInit PROVE GroupInv
  OBVIOUS
<1>1. group \in {Gone} \cup Group
  BY DEF GroupInit, Begin, Group
<1>2. GroupTypeOK
  <2>1. pc \in [Callers -> {"get", "update", "delete", "create", "returned"}]
    BY DEF GroupInit, Begin, FirstCall
  <2>2. 0 \in 0 .. MaxLost
    BY GroupAssumption
  <2>3. seen \in [Callers -> {Gone} \cup Group]
    BY DEF GroupInit, Begin
  <2>4. \A c \in Callers : pc[c] = "returned" <=> result[c] # "none"
    BY DEF GroupInit, Begin, FirstCall
  <2> QED BY <1>1, <2>1, <2>2, <2>3, <2>4
      DEF GroupInit, Begin, GroupTypeOK, GroupResults, Results
<1>3. Versions
  BY <1>1 DEF GroupInit, Begin, Versions
<1>4. InHand
  BY RequestFields DEF GroupInit, Begin, InHand, FirstCall
<1>5. DefaultStays /\ UpToDate /\ NilMeansGroupGone /\ StaleMeansChanged
  BY DEF GroupInit, Begin, DefaultStays, UpToDate, NilMeansGroupGone, StaleMeansChanged
<1> QED BY <1>2, <1>3, <1>4, <1>5 DEF GroupInv

\* An operation that ends without a change of the group.
LEMMA ReturnStep ==
  ASSUME GroupInv, NEW c \in Callers, NEW r \in GroupResults \ {"none"}, Return(c, r),
         pc[c] # "returned",
         UNCHANGED <<cloudVars, request, seen, overlooked>>,
         r = "PreconditionFailed" => overlooked[c],
         r = "ok" /\ request[c].op = "Delete" /\ seen[c] # Gone =>
           ~seen[c].default /\ (group = Gone \/ group.id # seen[c].id)
  PROVE  GroupInv'
<1> USE DEF GroupInv, cloudVars, Return
<1>1. GroupTypeOK'
  BY DEF GroupTypeOK
<1>2. Versions'
  BY DEF Versions
<1>3. InHand'
  BY DEF InHand, GroupTypeOK
<1>4. DefaultStays' /\ UpToDate'
  BY DEF DefaultStays, UpToDate
<1>5. NilMeansGroupGone'
  BY DEF NilMeansGroupGone, GroupTypeOK
<1>6. StaleMeansChanged'
  BY DEF StaleMeansChanged, GroupTypeOK
<1> QED BY <1>1, <1>2, <1>3, <1>4, <1>5, <1>6

\* GetConnectionGroup keeps the invariant: an operation that goes on has the group
\* as it is in hand.
LEMMA GetStep ==
  ASSUME GroupInv, NEW c \in Callers, GetConnectionGroup(c)
  PROVE  GroupInv'
<1> USE DEF GroupInv
<1>1. CASE /\ ~Found(c, group)
           /\ Return(c, IF request[c].op = "Delete" THEN "ok" ELSE "NotFound")
           /\ UNCHANGED <<seen, overlooked>>
  <2> DEFINE r == IF request[c].op = "Delete" THEN "ok" ELSE "NotFound"
  <2>1. pc[c] = "get" /\ seen[c] = Gone /\ UNCHANGED <<cloudVars, request>>
    BY DEF GetConnectionGroup, InHand
  <2>2. r \in GroupResults \ {"none"} /\ r # "PreconditionFailed"
    BY DEF GroupResults, Results
  <2> HIDE DEF r
  <2>3. Return(c, r) /\ UNCHANGED <<seen, overlooked>>
    BY <1>1 DEF r
  <2> QED BY <2>1, <2>2, <2>3, ReturnStep
<1>2. CASE Found(c, group) /\ Has(c, group)
           /\ \/ request[c].op = "Delete" /\ group.default /\ Return(c, "default")
              \/ /\ ~(request[c].op = "Delete" /\ group.default)
                 /\ Goto(c, IF request[c].op = "Update" \/ group.enabled
                            THEN "update" ELSE "delete")
  <2>1. /\ pc[c] = "get" /\ group \in Group /\ group # Gone
        /\ UNCHANGED <<cloudVars, request>>
        /\ request[c] \in GroupRequests /\ request[c].op \in {"Update", "Create", "Delete"}
    BY <1>2, RequestFields DEF GetConnectionGroup, GroupTypeOK, Found
  <2>2. /\ seen' = [seen EXCEPT ![c] = group]
        /\ overlooked' = [overlooked EXCEPT ![c] = FALSE]
    BY <1>2 DEF Has
  <2>3. /\ pc' \in [Callers -> {"get", "update", "delete", "create", "returned"}]
        /\ result' \in [Callers -> GroupResults]
        /\ \A d \in Callers \ {c} : pc'[d] = pc[d] /\ result'[d] = result[d]
        /\ pc'[c] \in {"update", "delete", "returned"}
        /\ result'[c] \in {"none", "default"}
        /\ pc'[c] = "returned" <=> result'[c] # "none"
    BY <1>2, <2>1 DEF GroupTypeOK, Return, Goto, GroupResults, Results
  <2>4. GroupTypeOK'
    <3>1. /\ seen' \in [Callers -> {Gone} \cup Group]
          /\ overlooked' \in [Callers -> BOOLEAN]
      BY <2>1, <2>2 DEF GroupTypeOK
    <3>2. /\ group' \in {Gone} \cup Group /\ attached' \in BOOLEAN
          /\ settled' \in BOOLEAN /\ version' \in Nat /\ lost' \in 0 .. MaxLost
          /\ request' \in [Callers -> GroupRequests]
      BY <2>1 DEF GroupTypeOK, cloudVars
    <3>3. \A d \in Callers : pc'[d] = "returned" <=> result'[d] # "none"
      BY <2>3 DEF GroupTypeOK
    <3> QED BY <3>1, <3>2, <3>3, <2>3 DEF GroupTypeOK
  <2>5. Versions'
    BY <2>1, <2>2 DEF GroupTypeOK, Versions, cloudVars
  <2>6. InHand'
    <3>2. pc'[c] = "delete" => request[c].op = "Delete"
      BY <1>2, <2>1 DEF Goto, Return, GroupTypeOK, InHand
    <3>3. pc'[c] \in {"update", "delete"} =>
            (request[c].op = "Delete" => ~group.default)
      BY <1>2, <2>1 DEF Goto, Return, GroupTypeOK
    <3> QED BY <2>1, <2>2, <2>3, <3>2, <3>3 DEF GroupTypeOK, InHand
  <2>7. DefaultStays' /\ UpToDate'
    BY <2>1, <2>2 DEF GroupTypeOK, DefaultStays, UpToDate, cloudVars
  <2>8. NilMeansGroupGone' /\ StaleMeansChanged'
    BY <2>1, <2>2, <2>3 DEF GroupTypeOK, NilMeansGroupGone, StaleMeansChanged, cloudVars
  <2> QED BY <2>4, <2>5, <2>6, <2>7, <2>8
<1> QED BY <1>1, <1>2 DEF GetConnectionGroup

\* What CloudFront checks before it applies an update or a delete.
LEMMA Matched ==
  ASSUME GroupInv, NEW c \in Callers, pc[c] \in {"update", "delete"},
         UpdateErrors(c) = {} \/ DeleteErrors(c) = {}
  PROVE  /\ group \in Group /\ group # Gone
         /\ seen[c] \in Group /\ seen[c] # Gone
         /\ group.id = seen[c].id
         /\ group.default = seen[c].default
         /\ request[c] \in GroupRequests
         /\ pc[c] = "delete" => request[c].op = "Delete"
         /\ request[c].op = "Delete" => ~group.default
<1>1. Found(c, group)
  BY DEF UpdateErrors, DeleteErrors
<1> QED BY <1>1 DEF Found, GroupInv, GroupTypeOK, InHand, DefaultStays

\* UpdateConnectionGroup that changes the group makes its own version current and
\* those in other hands overlooked.
LEMMA UpdateStep ==
  ASSUME GroupInv, NEW c \in Callers, UpdateConnectionGroup(c)
  PROVE  GroupInv'
<1> USE DEF GroupInv
<1> DEFINE new == [id |-> group.id, etag |-> version + 1,
                   enabled |-> request[c].enabled, default |-> group.default]
<1>1. /\ pc[c] = "update" /\ UpdateErrors(c) = {}
      /\ group' = new /\ version' = version + 1 /\ settled' = FALSE
      /\ UNCHANGED <<attached, request>>
      /\ \/ Lost
         \/ /\ Answered(c, new)
            /\ IF request[c].op = "Delete" THEN Goto(c, "delete")
               ELSE Return(c, "ok")
  BY DEF UpdateConnectionGroup
<1>2. /\ group \in Group /\ seen[c] \in Group /\ seen[c] # Gone
      /\ group.id = seen[c].id /\ request[c] \in GroupRequests
      /\ request[c].op = "Delete" => ~group.default
  BY <1>1, Matched
<1>3. /\ new \in Group /\ new # Gone /\ new.id = group.id
      /\ new.default = group.default /\ new.etag = version + 1
  <2>1. request[c].enabled \in BOOLEAN
    BY <1>2, RequestFields
  <2>2. group.id \in Nat /\ group.default \in BOOLEAN /\ version + 1 \in Nat
    BY <1>2, GroupFields DEF GroupTypeOK
  <2>3. new \in Group
    BY <2>1, <2>2 DEF Group
  <2>4. new # Gone
    BY <2>3, GroupFields
  <2> QED BY <2>3, <2>4
<1> HIDE DEF new
<1>4. version \in Nat /\ group.id <= version
  BY <1>2, GroupFields DEF GroupTypeOK, Versions
<1>5. group' \in Group /\ version' \in Nat /\ settled' \in BOOLEAN
  <2>1. settled' \in BOOLEAN
    BY <1>1
  <2> QED BY <1>1, <1>3, <1>4, <2>1
<1>6. CASE Lost
  <2>1. /\ UNCHANGED <<pc, result, seen>> /\ lost' = lost + 1 /\ lost < MaxLost
        /\ overlooked' = [d \in Callers |-> TRUE]
    BY <1>6 DEF Lost, LoseResponse
  <2>2. lost' \in 0 .. MaxLost
    BY <2>1, GroupAssumption DEF GroupTypeOK
  <2>3. GroupTypeOK'
    BY <1>1, <1>5, <2>1, <2>2 DEF GroupTypeOK
  <2>4. Versions'
    BY <1>1, <1>3, <1>4, <2>1, GroupFields DEF Versions, GroupTypeOK
  <2>5. InHand'
    BY <1>1, <2>1 DEF InHand
  <2>6. DefaultStays' /\ NilMeansGroupGone'
    BY <1>1, <1>2, <1>3, <2>1, GroupFields DEF DefaultStays, NilMeansGroupGone
  <2>7. UpToDate' /\ StaleMeansChanged'
    BY <1>1, <2>1 DEF UpToDate, StaleMeansChanged
  <2> QED BY <2>3, <2>4, <2>5, <2>6, <2>7
<1>7. CASE /\ Answered(c, new)
           /\ IF request[c].op = "Delete" THEN Goto(c, "delete")
              ELSE Return(c, "ok")
  <2>1. /\ seen' = [seen EXCEPT ![c] = new]
        /\ overlooked' = [d \in Callers |-> d # c]
        /\ UNCHANGED lost
    BY <1>7 DEF Answered
  <2>2. /\ pc' \in [Callers -> {"get", "update", "delete", "create", "returned"}]
        /\ result' \in [Callers -> GroupResults]
        /\ \A d \in Callers \ {c} : pc'[d] = pc[d] /\ result'[d] = result[d]
        /\ pc'[c] = IF request[c].op = "Delete" THEN "delete" ELSE "returned"
        /\ result'[c] = IF request[c].op = "Delete" THEN "none" ELSE "ok"
    BY <1>1, <1>7 DEF GroupTypeOK, Return, Goto, GroupResults, Results
  <2>3. GroupTypeOK'
    <3>1. \A d \in Callers : pc'[d] = "returned" <=> result'[d] # "none"
      BY <2>2 DEF GroupTypeOK
    <3>2. seen' \in [Callers -> {Gone} \cup Group] /\ overlooked' \in [Callers -> BOOLEAN]
      BY <1>3, <2>1 DEF GroupTypeOK
    <3> QED BY <1>1, <1>5, <2>1, <2>2, <3>1, <3>2 DEF GroupTypeOK
  <2>4. Versions'
    BY <1>1, <1>3, <1>4, <2>1, GroupFields DEF Versions, GroupTypeOK
  <2>5. InHand'
    BY <1>1, <1>2, <1>3, <2>1, <2>2 DEF InHand, GroupTypeOK
  <2>6. DefaultStays'
    BY <1>1, <1>2, <1>3, <2>1, GroupFields DEF DefaultStays, GroupTypeOK
  <2>7. NilMeansGroupGone'
    BY <1>1, <1>2, <1>3, <2>1, <2>2, GroupFields DEF NilMeansGroupGone, GroupTypeOK
  <2>8. UpToDate' /\ StaleMeansChanged'
    BY <1>1, <2>1, <2>2 DEF UpToDate, StaleMeansChanged, GroupTypeOK
  <2> QED BY <2>3, <2>4, <2>5, <2>6, <2>7, <2>8
<1> QED BY <1>1, <1>6, <1>7

\* UpdateConnectionGroup that is refused returns.
LEMMA UpdateRefusedStep ==
  ASSUME GroupInv, NEW c \in Callers, UpdateRefused(c)
  PROVE  GroupInv'
<1>1. PICK e \in UpdateErrors(c) \cup {f \in {"InUse"} : Found(c, group) /\ attached} :
        Return(c, e)
  BY DEF UpdateRefused
<1>2. pc[c] = "update" /\ UNCHANGED <<cloudVars, request, seen, overlooked>>
  BY DEF UpdateRefused
<1>3. e \in {"NotFound", "PreconditionFailed", "InUse"}
  BY DEF UpdateErrors
<1>4. e = "PreconditionFailed" => overlooked[c]
  <2>1. seen[c] # Gone
    BY <1>2 DEF GroupInv, InHand
  <2>2. e = "PreconditionFailed" => group.etag # seen[c].etag
    BY DEF UpdateErrors
  <2> QED BY <2>1, <2>2 DEF GroupInv, UpToDate, GroupTypeOK
<1>5. e \in GroupResults \ {"none"} /\ e # "ok"
  BY <1>3 DEF GroupResults, Results
<1> QED BY <1>1, <1>2, <1>4, <1>5, ReturnStep

\* DeleteConnectionGroup removes only the version in hand.
LEMMA DeleteStep ==
  ASSUME GroupInv, NEW c \in Callers, DeleteConnectionGroup(c)
  PROVE  GroupInv'
<1> USE DEF GroupInv
<1>1. /\ pc[c] = "delete" /\ DeleteErrors(c) = {} /\ group' = Gone
      /\ UNCHANGED <<attached, settled, version, request>>
      /\ Lost \/ Returned(c)
  BY DEF DeleteConnectionGroup
<1>2. /\ overlooked' = [d \in Callers |-> TRUE] /\ UNCHANGED seen
      /\ lost' \in 0 .. MaxLost
      /\ \/ UNCHANGED <<pc, result>>
         \/ Return(c, "ok")
  BY <1>1, GroupAssumption DEF Lost, LoseResponse, Returned, GroupTypeOK
<1>3. ~seen[c].default
  BY <1>1, Matched
<1>4. /\ pc' \in [Callers -> {"get", "update", "delete", "create", "returned"}]
      /\ result' \in [Callers -> GroupResults]
      /\ \A d \in Callers : pc'[d] = "returned" <=> result'[d] # "none"
      /\ \A d \in Callers : pc'[d] \in {pc[d], "returned"}
      /\ \A d \in Callers : result'[d] = result[d] \/ (d = c /\ result'[d] = "ok")
  BY <1>2 DEF GroupTypeOK, Return, GroupResults, Results
<1>5. GroupTypeOK'
  BY <1>1, <1>2, <1>4 DEF GroupTypeOK
<1>6. Versions' /\ DefaultStays'
  BY <1>1, <1>2 DEF Versions, DefaultStays
<1>7. InHand'
  BY <1>1, <1>2, <1>4 DEF InHand
<1>8. NilMeansGroupGone'
  BY <1>1, <1>2, <1>3, <1>4 DEF NilMeansGroupGone
<1>9. UpToDate' /\ StaleMeansChanged'
  BY <1>2 DEF UpToDate, StaleMeansChanged
<1> QED BY <1>5, <1>6, <1>7, <1>8, <1>9

\* DeleteConnectionGroup that is refused returns.
LEMMA DeleteRefusedStep ==
  ASSUME GroupInv, NEW c \in Callers, DeleteRefused(c)
  PROVE  GroupInv'
<1>1. PICK e \in DeleteErrors(c) :
        Return(c, IF e = "NotFound" THEN "ok" ELSE e)
  BY DEF DeleteRefused
<1>2. pc[c] = "delete" /\ UNCHANGED <<cloudVars, request, seen, overlooked>>
  BY DEF DeleteRefused
<1>3. seen[c] # Gone /\ (request[c].op = "Delete" => ~seen[c].default)
  BY <1>2 DEF GroupInv, InHand
<1>4. e \in {"NotFound", "PreconditionFailed", "NotDisabled", "InUse"}
  BY DEF DeleteErrors
<1>5. e = "PreconditionFailed" => overlooked[c]
  <2>1. e = "PreconditionFailed" => group.etag # seen[c].etag
    BY DEF DeleteErrors
  <2> QED BY <1>3, <2>1 DEF GroupInv, UpToDate, GroupTypeOK
<1>6. e = "NotFound" => group = Gone \/ group.id # seen[c].id
  BY <1>2 DEF DeleteErrors, Found
<1> DEFINE r == IF e = "NotFound" THEN "ok" ELSE e
<1>7. /\ r \in GroupResults \ {"none"}
      /\ r = "PreconditionFailed" => overlooked[c]
      /\ r = "ok" => group = Gone \/ group.id # seen[c].id
  BY <1>4, <1>5, <1>6 DEF GroupResults, Results
<1>8. Return(c, r)
  BY <1>1
<1> HIDE DEF r
<1> QED BY <1>2, <1>3, <1>7, <1>8, ReturnStep

\* CreateConnectionGroup gives an id and an ETag nobody has in hand.
LEMMA CreateStep ==
  ASSUME GroupInv, NEW c \in Callers, CreateConnectionGroup(c)
  PROVE  GroupInv'
<1> USE DEF GroupInv
<1> DEFINE new == [id |-> version + 1, etag |-> version + 1,
                   enabled |-> request[c].enabled, default |-> FALSE]
<1>1. pc[c] = "create" /\ UNCHANGED <<attached, request>>
  BY DEF CreateConnectionGroup
<1>2. /\ request[c].op = "Create" /\ request[c] \in GroupRequests /\ seen[c] = Gone
      /\ version \in Nat /\ request[c].enabled \in BOOLEAN
  BY <1>1, RequestFields DEF InHand, GroupTypeOK
<1>3. new \in Group /\ new # Gone /\ new.id = version + 1 /\ new.etag = version + 1
  <2>1. new \in Group
    BY <1>2 DEF Group
  <2> QED BY <2>1, GroupFields
<1>4. CASE /\ Return(c, "AlreadyExists")
           /\ UNCHANGED <<group, settled, version, lost, seen, overlooked>>
  <2>1. "AlreadyExists" \in GroupResults \ {"none"}
    BY DEF GroupResults, Results
  <2> QED BY <1>1, <1>4, <2>1, ReturnStep DEF cloudVars
<1>5. CASE /\ group = Gone /\ group' = new /\ version' = version + 1
           /\ settled' = FALSE
           /\ \/ Lost
              \/ Answered(c, new) /\ Return(c, "ok")
  <2> HIDE DEF new
  <2>1. /\ seen' \in [Callers -> {Gone} \cup Group]
        /\ overlooked' \in [Callers -> BOOLEAN]
        /\ \A d \in Callers \ {c} : overlooked'[d] /\ seen'[d] = seen[d]
        /\ \/ overlooked'[c] /\ seen'[c] = Gone
           \/ ~overlooked'[c] /\ seen'[c] = new
        /\ lost' \in 0 .. MaxLost
    <3>1. CASE Lost
      BY <1>2, <3>1, GroupAssumption DEF Lost, LoseResponse, GroupTypeOK
    <3>2. CASE Answered(c, new)
      BY <1>2, <1>3, <3>2 DEF Answered, GroupTypeOK
    <3> QED BY <1>5, <3>1, <3>2
  <2>2. /\ pc' \in [Callers -> {"get", "update", "delete", "create", "returned"}]
        /\ result' \in [Callers -> GroupResults]
        /\ \A d \in Callers : pc'[d] = "returned" <=> result'[d] # "none"
        /\ \A d \in Callers \ {c} : pc'[d] = pc[d] /\ result'[d] = result[d]
        /\ \/ pc'[c] = "create" /\ seen'[c] = Gone
           \/ pc'[c] = "returned"
        /\ result'[c] \in {"none", "ok"}
    BY <1>1, <1>2, <1>5 DEF GroupTypeOK, Return, Lost, LoseResponse, GroupResults, Results
  <2>3. GroupTypeOK'
    <3>1. group' \in {Gone} \cup Group
      BY <1>3, <1>5
    <3>2. version' \in Nat /\ settled' \in BOOLEAN
      <4>1. version' \in Nat
        BY <1>2, <1>5
      <4>2. settled' \in BOOLEAN
        BY <1>5
      <4> QED BY <4>1, <4>2
    <3>3. attached' \in BOOLEAN /\ request' \in [Callers -> GroupRequests]
      BY <1>1 DEF GroupTypeOK
    <3> QED BY <2>1, <2>2, <3>1, <3>2, <3>3 DEF GroupTypeOK
  <2>4. Versions'
    <3>1. \A d \in Callers : seen'[d] # Gone => seen'[d].id <= version + 1
      BY <1>2, <1>3, <2>1, GroupFields DEF Versions, GroupTypeOK
    <3> QED BY <1>2, <1>3, <1>5, <3>1 DEF Versions
  <2>5. InHand'
    BY <1>1, <1>2, <2>1, <2>2 DEF InHand
  <2>6. \A d \in Callers \ {c} : seen'[d] # Gone => group'.id # seen'[d].id
    BY <1>2, <1>3, <1>5, <2>1, GroupFields DEF Versions, GroupTypeOK
  <2>7. DefaultStays' /\ UpToDate'
    BY <1>5, <2>1, <2>6 DEF DefaultStays, UpToDate
  <2>8. NilMeansGroupGone'
    BY <1>1, <1>2, <2>1, <2>2, <2>6 DEF NilMeansGroupGone
  <2>9. StaleMeansChanged'
    BY <2>1, <2>2 DEF StaleMeansChanged
  <2> QED BY <2>3, <2>4, <2>5, <2>7, <2>8, <2>9
<1> QED BY <1>4, <1>5 DEF CreateConnectionGroup

\* A call that fails ends its operation.
LEMMA FailStep ==
  ASSUME GroupInv, NEW c \in Callers, GroupFails(c)
  PROVE  GroupInv'
<1>1. "failed" \in GroupResults \ {"none"}
  BY DEF GroupResults, Results
<1> QED BY <1>1, ReturnStep DEF GroupFails, Fail, cloudVars

\* Neither GroupSettles nor Attach touches what the callers have to do with.
LEMMA OutsideStep ==
  ASSUME GroupInv, GroupSettles \/ Attach \/ UNCHANGED groupVars
  PROVE  GroupInv'
<1>1. /\ UNCHANGED <<group, version, lost, request, pc, seen, overlooked, result>>
      /\ settled' \in BOOLEAN /\ attached' \in BOOLEAN
  BY DEF GroupSettles, Settle, Attach, groupVars, cloudVars, GroupInv, GroupTypeOK
<1> QED BY <1>1 DEF GroupInv, GroupTypeOK, Versions, InHand, DefaultStays, UpToDate,
                    NilMeansGroupGone, StaleMeansChanged

-----------------------------------------------------------------------------
(* Connection groups: theorems of the specification. *)

\* The inductive invariant: ids and ETags in order, what each caller has in hand
\* and whether it is current, beside the properties themselves.
THEOREM GroupsInvariance == GroupSpec => []GroupInv
<1>1. ASSUME GroupInv, [GroupNext]_groupVars PROVE GroupInv'
  <2>1. CASE GroupSettles \/ Attach \/ UNCHANGED groupVars
    BY <1>1, <2>1, OutsideStep
  <2>2. ASSUME NEW c \in Callers, GroupCaller(c) \/ GroupFails(c) PROVE GroupInv'
    BY <1>1, <2>2, GetStep, UpdateStep, UpdateRefusedStep, DeleteStep,
       DeleteRefusedStep, CreateStep, FailStep DEF GroupCaller
  <2> QED BY <1>1, <2>1, <2>2 DEF GroupNext
<1> QED BY GroupsInitially, <1>1, PTL DEF GroupSpec

\* Every variable keeps its type (GroupTypeOK).
THEOREM GroupsTypeCorrect == GroupSpec => []GroupTypeOK
<1>1. GroupInv => GroupTypeOK
  BY DEF GroupInv
<1> QED BY GroupsInvariance, <1>1, PTL

\* A delete that returns no error has the group it read gone, and it was not the
\* default one (connection_group_repository.go:254-303).
THEOREM NilMeansGroupGoneHolds == GroupSpec => []NilMeansGroupGone
<1>1. GroupInv => NilMeansGroupGone
  BY DEF GroupInv
<1> QED BY GroupsInvariance, <1>1, PTL

\* An operation is refused for its ETag only when the group changed behind the
\* caller's back (errors.go:24-26).
THEOREM StaleMeansChangedHolds == GroupSpec => []StaleMeansChanged
<1>1. GroupInv => StaleMeansChanged
  BY DEF GroupInv
<1> QED BY GroupsInvariance, <1>1, PTL

-----------------------------------------------------------------------------
(* Distribution tenants: the inductive invariant. *)

\* Where a caller is tells what it asked for and what it has in hand.
TenantControl ==
  \A c \in Callers :
    /\ pc[c] = "create" => request[c].op = "Create"
    /\ pc[c] \in {"disableGet", "delete"} => request[c].op = "Delete"
    /\ pc[c] \in {"get", "update"} => request[c].op # "Create"
    /\ pc[c] = "get" => seen[c] = Gone
    /\ pc[c] \in {"disableGet", "update", "delete"} => seen[c] # Gone

\* Ids and ETags are never given out twice: a tenant in hand with the current
\* ETag is the current tenant.
TenantCurrent ==
  /\ tenant # Gone => tenant.id <= version /\ tenant.etag <= version
  /\ \A c \in Callers :
       seen[c] # Gone =>
         /\ seen[c].id <= version
         /\ seen[c].etag <= version
         /\ tenant # Gone /\ tenant.etag = seen[c].etag => tenant = seen[c]

TenantInv ==
  TenantTypeOK /\ TenantControl /\ TenantCurrent /\ NilMeansGone /\ ReturnsWhatWasAsked

\* A tenant changed by a caller is a tenant, with the same id and a new ETag,
\* in the state the caller asked for.
LEMMA UpdatedTenant ==
  ASSUME TenantInv, NEW c \in Callers, pc[c] = "update", tenant # Gone
  PROVE  /\ Updated(c) \in Tenant
         /\ Updated(c).id = tenant.id
         /\ Updated(c).etag = version + 1
         /\ request[c].op = "SetEnabled" => Updated(c).enabled = request[c].arg
         /\ request[c].op = "UpdateDomains" => Updated(c).domains = request[c].arg
<1>1. /\ tenant \in Tenant
      /\ version \in Nat
      /\ request[c] \in [op : {"SetEnabled"}, arg : BOOLEAN]
           \cup [op : {"UpdateDomains", "Create"}, arg : Domains]
           \cup [op : {"Delete"}, arg : {Gone}]
      /\ request[c].op # "Create"
  BY TenantAssumption DEF TenantInv, TenantTypeOK, TenantControl
<1> DEFINE new == [tenant EXCEPT !.etag = version + 1]
<1>2. new \in Tenant /\ new.id = tenant.id /\ new.etag = version + 1
  BY <1>1 DEF Tenant
<1>3. Updated(c) = IF request[c].op = "SetEnabled"
                     THEN [new EXCEPT !.enabled = request[c].arg]
                   ELSE IF request[c].op = "UpdateDomains"
                     THEN [new EXCEPT !.domains = request[c].arg]
                   ELSE [new EXCEPT !.enabled = FALSE]
  BY DEF Updated
<1> HIDE DEF new
<1>4. ASSUME NEW b \in BOOLEAN
      PROVE  LET u == [new EXCEPT !.enabled = b]
             IN  u \in Tenant /\ u.id = new.id /\ u.etag = new.etag /\ u.enabled = b
  BY <1>2 DEF Tenant
<1>5. ASSUME NEW d \in Domains
      PROVE  LET u == [new EXCEPT !.domains = d]
             IN  u \in Tenant /\ u.id = new.id /\ u.etag = new.etag /\ u.domains = d
  BY <1>2 DEF Tenant
<1>6. CASE request[c].op = "SetEnabled"
  <2>1. request[c].arg \in BOOLEAN
    BY <1>1, <1>6
  <2> QED BY <1>2, <1>3, <1>4, <1>6, <2>1
<1>7. CASE request[c].op = "UpdateDomains"
  <2>1. request[c].arg \in Domains
    BY <1>1, <1>7
  <2> QED BY <1>2, <1>3, <1>5, <1>7, <2>1
<1>8. CASE request[c].op = "Delete"
  BY <1>2, <1>3, <1>4, <1>8
<1> QED BY <1>1, <1>6, <1>7, <1>8

\* The initial states satisfy the invariant.
LEMMA TenantsInitially == TenantInit => TenantInv
<1> SUFFICES ASSUME TenantInit PROVE TenantInv
  OBVIOUS
<1> USE DEF TenantInit, Begin
<1>1. (CHOOSE d \in Domains : TRUE) \in Domains
  BY TenantAssumption
<1>2. /\ tenant \in {Gone} \cup Tenant
      /\ tenant # Gone => tenant.id = 1 /\ tenant.etag = 1
  BY <1>1 DEF Tenant
<1>3. TenantTypeOK
  BY <1>2, TenantAssumption DEF TenantTypeOK, FirstCall, Results
<1>4. TenantControl
  BY DEF TenantControl, FirstCall
<1>5. TenantCurrent
  BY <1>2 DEF TenantCurrent
<1>6. NilMeansGone /\ ReturnsWhatWasAsked
  BY DEF NilMeansGone, ReturnsWhatWasAsked
<1> QED BY <1>3, <1>4, <1>5, <1>6 DEF TenantInv

-----------------------------------------------------------------------------
(* Every step keeps the invariant. *)

\* GetDistributionTenant hands out the tenant as it is.
LEMMA GetKeepsTenants ==
  ASSUME TenantInv, NEW c \in Callers, GetDistributionTenant(c)
  PROVE  TenantInv'
<1> USE DEF TenantInv, GetDistributionTenant, Goto, Return
<1>1. /\ tenant \in {Gone} \cup Tenant
      /\ Gone \notin Tenant
      /\ tenant # Gone => tenant.enabled \in BOOLEAN
      /\ request[c] \in TenantRequests
      /\ request[c].op \in {"SetEnabled", "UpdateDomains", "Create", "Delete"}
      /\ request[c].op = "SetEnabled" => request[c].arg \in BOOLEAN
  BY TenantAssumption DEF TenantTypeOK, Tenant
<1>2. TenantTypeOK'
  <2>1. /\ tenant' \in {Gone} \cup Tenant
        /\ settled' \in BOOLEAN
        /\ version' \in Nat
        /\ lost' \in 0 .. MaxLost
        /\ request' \in [Callers -> TenantRequests]
    BY <1>1 DEF TenantTypeOK, Results, NextCall, Found
  <2>2. pc' \in [Callers -> {"get", "disableGet", "update", "delete", "create",
                              "returned"}]
    BY <1>1 DEF TenantTypeOK, Results, NextCall, Found
  <2>3. seen' \in [Callers -> {Gone} \cup Tenant]
    BY <1>1 DEF TenantTypeOK, Results, NextCall, Found
  <2>4. result' \in [Callers -> Results]
    BY <1>1 DEF TenantTypeOK, Results, NextCall, Found
  <2>5. \A d \in Callers : pc'[d] = "returned" <=> result'[d] # "none"
    BY <1>1 DEF TenantTypeOK, Results, NextCall, Found
  <2> QED BY <2>1, <2>2, <2>3, <2>4, <2>5 DEF TenantTypeOK
<1>3. TenantControl'
  <2>1. \A d \in Callers \ {c} : pc'[d] = pc[d] /\ seen'[d] = seen[d]
    BY DEF TenantTypeOK
  <2>2. CASE ~Found(c, tenant)
    <3>1. pc'[c] = "returned"
      BY <2>2 DEF TenantTypeOK
    <3> QED BY <2>1, <3>1 DEF TenantControl
  <2>3. CASE Found(c, tenant)
    <3>1. /\ seen'[c] # Gone
          /\ pc'[c] = NextCall(c)
      BY <1>1, <2>3 DEF TenantTypeOK, Found
    <3>2. /\ request[c].op # "Create"
          /\ request[c].op \in {"SetEnabled", "UpdateDomains", "Delete"}
      BY <1>1 DEF TenantControl
    <3>3. /\ NextCall(c) \in {"returned", "update", "delete", "disableGet"}
          /\ NextCall(c) \in {"disableGet", "delete"} => request[c].op = "Delete"
      BY <3>2 DEF NextCall
    <3> QED BY <2>1, <3>1, <3>2, <3>3 DEF TenantControl
  <2> QED BY <2>2, <2>3
<1>4. TenantCurrent'
  BY <1>1 DEF TenantTypeOK, TenantCurrent, Found
<1>5. NilMeansGone'
  BY <1>1 DEF TenantTypeOK, TenantControl, NilMeansGone, NextCall, Found
<1>6. ReturnsWhatWasAsked'
  BY <1>1 DEF TenantTypeOK, TenantControl, ReturnsWhatWasAsked, NextCall, Found
<1> QED BY <1>2, <1>3, <1>4, <1>5, <1>6

\* UpdateDistributionTenant changes the tenant only from the version in hand.
LEMMA UpdateKeepsTenants ==
  ASSUME TenantInv, NEW c \in Callers, UpdateDistributionTenant(c)
  PROVE  TenantInv'
<1> USE DEF TenantInv, UpdateDistributionTenant, Goto, Return, LoseResponse
<1>1. /\ Gone \notin Tenant
      /\ MaxLost \in Nat
      /\ pc[c] = "update"
  BY TenantAssumption
<1>2. CASE UNCHANGED <<tenant, settled, version, lost, seen>> /\ result'[c] # "ok"
  <2>1. TenantTypeOK'
    BY <1>2 DEF TenantTypeOK, Results
  <2>2. TenantControl' /\ TenantCurrent'
    BY <1>2 DEF TenantTypeOK, TenantControl, TenantCurrent
  <2>3. NilMeansGone' /\ ReturnsWhatWasAsked'
    BY <1>2 DEF TenantTypeOK, NilMeansGone, ReturnsWhatWasAsked
  <2> QED BY <2>1, <2>2, <2>3
<1>3. CASE Found(c, tenant) /\ tenant' = Updated(c) /\ version' = version + 1
  <2> DEFINE new == Updated(c)
  <2>1. /\ tenant # Gone
        /\ new \in Tenant
        /\ new.id = tenant.id
        /\ new.etag = version + 1
        /\ request[c].op = "SetEnabled" => new.enabled = request[c].arg
        /\ request[c].op = "UpdateDomains" => new.domains = request[c].arg
    BY <1>1, <1>3, UpdatedTenant DEF Found
  <2> HIDE DEF new
  <2>2. /\ tenant' = new
        /\ version' = version + 1
        /\ new # Gone
        /\ settled' = FALSE
        /\ UNCHANGED request
        /\ \/ lost < MaxLost /\ lost' = lost + 1 /\ UNCHANGED <<pc, result, seen>>
           \/ /\ seen' = [seen EXCEPT ![c] = new]
              /\ UNCHANGED lost
              /\ \/ request[c].op = "Delete" /\ Goto(c, "delete")
                 \/ request[c].op # "Delete" /\ Return(c, "ok")
    BY <1>1, <1>3, <2>1 DEF new, TenantTypeOK, Results
  <2> HIDE DEF UpdateDistributionTenant, LoseResponse
  <2>3. TenantTypeOK'
    <3>1. /\ tenant' \in {Gone} \cup Tenant
          /\ version' \in Nat
          /\ request' \in [Callers -> TenantRequests]
      BY <1>1, <2>1, <2>2 DEF TenantTypeOK
    <3>6. settled' \in BOOLEAN
      BY <1>1, <2>1, <2>2 DEF TenantTypeOK
    <3>7. lost' \in 0 .. MaxLost
      BY <1>1, <2>1, <2>2 DEF TenantTypeOK
    <3>2. pc' \in [Callers -> {"get", "disableGet", "update", "delete", "create",
                                "returned"}]
      BY <1>1, <2>1, <2>2 DEF TenantTypeOK, Results
    <3>3. seen' \in [Callers -> {Gone} \cup Tenant]
      BY <1>1, <2>1, <2>2 DEF TenantTypeOK, Results
    <3>4. result' \in [Callers -> Results]
      BY <1>1, <2>1, <2>2 DEF TenantTypeOK, Results
    <3>5. \A d \in Callers : pc'[d] = "returned" <=> result'[d] # "none"
      BY <1>1, <2>1, <2>2 DEF TenantTypeOK, Results
    <3> QED BY <3>1, <3>2, <3>3, <3>4, <3>5, <3>6, <3>7 DEF TenantTypeOK
  <2>4. TenantControl'
    BY <1>1, <2>2 DEF TenantTypeOK, TenantControl
  <2>5. /\ new.id <= version + 1
        /\ new.etag <= version + 1
        /\ \A d \in Callers :
             seen[d] # Gone => /\ seen[d].id <= version + 1
                               /\ seen[d].etag <= version + 1
                               /\ new.etag # seen[d].etag
    BY <2>1 DEF TenantTypeOK, Tenant, TenantCurrent
  <2>6. TenantCurrent'
    BY <2>2, <2>5 DEF TenantTypeOK, TenantCurrent
  <2>7. NilMeansGone'
    BY <1>1, <2>1, <2>2 DEF TenantTypeOK, NilMeansGone
  <2>8. ReturnsWhatWasAsked'
    BY <1>1, <2>1, <2>2 DEF TenantTypeOK, ReturnsWhatWasAsked
  <2> QED BY <2>3, <2>4, <2>6, <2>7, <2>8
<1> QED BY <1>2, <1>3 DEF TenantTypeOK

\* DeleteDistributionTenant removes only the version in hand.
LEMMA DeleteKeepsTenants ==
  ASSUME TenantInv, NEW c \in Callers, DeleteDistributionTenant(c)
  PROVE  TenantInv'
<1> USE DEF TenantInv, DeleteDistributionTenant, Return, LoseResponse
<1>1. /\ MaxLost \in Nat
      /\ pc[c] = "delete" /\ request[c].op = "Delete" /\ seen[c] # Gone
  BY TenantAssumption DEF TenantControl
<1>2. TenantTypeOK'
  BY <1>1 DEF TenantTypeOK, Results, DeleteFailed
<1>3. TenantControl'
  BY <1>1 DEF TenantTypeOK, TenantControl
<1>4. TenantCurrent'
  BY <1>1 DEF TenantTypeOK, TenantCurrent
<1>5. NilMeansGone'
  BY <1>1 DEF TenantTypeOK, NilMeansGone, DeleteFailed, Found
<1>6. ReturnsWhatWasAsked'
  BY <1>1 DEF TenantTypeOK, ReturnsWhatWasAsked
<1> QED BY <1>2, <1>3, <1>4, <1>5, <1>6

\* CreateDistributionTenant gives an id and an ETag nobody has in hand.
LEMMA CreateKeepsTenants ==
  ASSUME TenantInv, NEW c \in Callers, CreateDistributionTenant(c)
  PROVE  TenantInv'
<1> USE DEF TenantInv, CreateDistributionTenant, Return, LoseResponse
<1>1. /\ Gone \notin Tenant
      /\ MaxLost \in Nat
      /\ version \in Nat
      /\ request[c].op = "Create"
      /\ request[c].arg \in Domains
  BY TenantAssumption DEF TenantTypeOK, TenantControl
<1> DEFINE new == [id |-> version + 1, etag |-> version + 1, enabled |-> TRUE,
                   domains |-> request[c].arg]
<1>2. new \in Tenant /\ new.id = version + 1 /\ new.etag = version + 1
  BY <1>1 DEF Tenant
<1>3. /\ \/ tenant' = new /\ version' = version + 1
         \/ tenant' = tenant /\ version' = version
      /\ seen' \in {seen, [seen EXCEPT ![c] = new]}
      /\ seen' # seen => tenant' = new /\ version' = version + 1
      /\ \A d \in Callers \ {c} : seen'[d] = seen[d]
      /\ UNCHANGED request
  BY DEF TenantTypeOK
<1>4. TenantTypeOK'
  <2> HIDE DEF new
  <2>1. /\ tenant' \in {Gone} \cup Tenant
        /\ version' \in Nat
        /\ request' \in [Callers -> TenantRequests]
    BY <1>1, <1>2, <1>3 DEF TenantTypeOK
  <2>6. settled' \in BOOLEAN
    BY <1>1, <1>2, <1>3 DEF TenantTypeOK
  <2>7. lost' \in 0 .. MaxLost
    BY <1>1, <1>2, <1>3 DEF TenantTypeOK
  <2>2. pc' \in [Callers -> {"get", "disableGet", "update", "delete", "create",
                              "returned"}]
    BY <1>1, <1>2, <1>3 DEF TenantTypeOK, Results
  <2>3. seen' \in [Callers -> {Gone} \cup Tenant]
    BY <1>1, <1>2, <1>3 DEF TenantTypeOK, Results
  <2>4. result' \in [Callers -> Results]
    BY <1>1, <1>2, <1>3 DEF TenantTypeOK, Results
  <2>5. \A d \in Callers : pc'[d] = "returned" <=> result'[d] # "none"
    BY <1>1, <1>2, <1>3 DEF TenantTypeOK, Results
  <2> QED BY <2>1, <2>2, <2>3, <2>4, <2>5, <2>6, <2>7 DEF TenantTypeOK
<1>5. TenantControl'
  BY <1>1 DEF TenantTypeOK, TenantControl
<1> HIDE DEF new, CreateDistributionTenant, Return, LoseResponse
<1>6. TenantCurrent'
  <2>1. /\ tenant # Gone => tenant.id \in Nat /\ tenant.etag \in Nat
        /\ \A d \in Callers : seen[d] # Gone => seen[d].id \in Nat /\ seen[d].etag \in Nat
    BY DEF TenantTypeOK, Tenant
  <2> QED BY <1>1, <1>2, <1>3, <2>1 DEF TenantTypeOK, TenantCurrent
<1>7. NilMeansGone'
  <2>1. \A d \in Callers : seen[d] # Gone => seen[d].id \in Nat /\ seen[d].id <= version
    BY DEF TenantTypeOK, Tenant, TenantCurrent
  <2>2. \A d \in Callers \ {c} : result'[d] = result[d]
    BY DEF TenantTypeOK, CreateDistributionTenant, Return, LoseResponse
  <2> QED BY <1>1, <1>2, <1>3, <2>1, <2>2 DEF NilMeansGone
<1>8. ReturnsWhatWasAsked'
  <2>1. \A d \in Callers \ {c} : result'[d] = result[d]
    BY DEF TenantTypeOK, CreateDistributionTenant, Return, LoseResponse
  <2> QED BY <1>1, <1>3, <2>1 DEF ReturnsWhatWasAsked
<1> QED BY <1>4, <1>5, <1>6, <1>7, <1>8

\* Steps that leave the tenant alone and end or restart an operation.
LEMMA OthersKeepTenants ==
  ASSUME TenantInv, NEW c \in Callers, TenantFails(c) \/ Retry(c)
  PROVE  TenantInv'
<1> USE DEF TenantInv, TenantFails, Fail, Retry, Return
<1>1. TenantTypeOK'
  BY DEF TenantTypeOK, Results
<1>2. TenantControl'
  BY DEF TenantTypeOK, TenantControl
<1>3. TenantCurrent'
  BY DEF TenantTypeOK, TenantCurrent
<1>4. NilMeansGone'
  BY DEF TenantTypeOK, NilMeansGone
<1>5. ReturnsWhatWasAsked'
  BY DEF TenantTypeOK, ReturnsWhatWasAsked
<1> QED BY <1>1, <1>2, <1>3, <1>4, <1>5

\* Every step keeps the invariant.
LEMMA TenantsConsecution == TenantInv /\ [TenantNext]_tenantVars => TenantInv'
<1> SUFFICES ASSUME TenantInv, [TenantNext]_tenantVars PROVE TenantInv'
  OBVIOUS
<1>1. CASE TenantSettles \/ UNCHANGED tenantVars
  <2>1. /\ UNCHANGED <<tenant, version, lost, request, pc, seen, result>>
        /\ settled' \in BOOLEAN
    BY <1>1 DEF TenantSettles, Settle, tenantVars, TenantInv, TenantTypeOK
  <2>2. TenantTypeOK'
    BY <2>1 DEF TenantInv, TenantTypeOK
  <2>3. TenantControl' /\ TenantCurrent'
    BY <2>1 DEF TenantInv, TenantControl, TenantCurrent
  <2>4. NilMeansGone' /\ ReturnsWhatWasAsked'
    BY <2>1 DEF TenantInv, NilMeansGone, ReturnsWhatWasAsked
  <2> QED BY <2>2, <2>3, <2>4 DEF TenantInv
<1>2. ASSUME NEW c \in Callers, TenantCaller(c) \/ TenantFails(c) PROVE TenantInv'
  BY <1>2, GetKeepsTenants, UpdateKeepsTenants, DeleteKeepsTenants,
     CreateKeepsTenants, OthersKeepTenants DEF TenantCaller
<1> QED BY <1>1, <1>2 DEF TenantNext

-----------------------------------------------------------------------------
(* Distribution tenants: theorems of the specification. *)

\* Where callers are, what they have in hand and what they returned fit the
\* tenant in every reachable state (all operations of
\* distribution_tenant_repository.go).
THEOREM TenantsInvariance == TenantSpec => []TenantInv
BY TenantsInitially, TenantsConsecution, PTL DEF TenantSpec

\* Every variable keeps its type.
THEOREM TenantsTypeCorrect == TenantSpec => []TenantTypeOK
<1>1. TenantInv => TenantTypeOK
  BY DEF TenantInv
<1> QED BY <1>1, TenantsInvariance, PTL

\* A delete without an error has its tenant gone (464-472).
THEOREM NilMeansGoneHolds == TenantSpec => []NilMeansGone
<1>1. TenantInv => NilMeansGone
  BY DEF TenantInv
<1> QED BY <1>1, TenantsInvariance, PTL

\* A success of the set operations is the state asked for (342-389).
THEOREM ReturnsWhatWasAskedHolds == TenantSpec => []ReturnsWhatWasAsked
<1>1. TenantInv => ReturnsWhatWasAsked
  BY DEF TenantInv
<1> QED BY <1>1, TenantsInvariance, PTL

\* Whoever changes or deletes the tenant had that very version in hand (356-360,
\* 464-467).
THEOREM ReplacesWhatItReadHolds == TenantSpec => ReplacesWhatItRead
<1> DEFINE Replaces ==
      tenant # Gone /\ tenant' # tenant =>
        \E c \in Callers : pc[c] \in {"update", "delete"} /\ seen[c] = tenant
<1>1. ASSUME TenantInv, TenantNext, tenant # Gone, tenant' # tenant
      PROVE  \E c \in Callers : pc[c] \in {"update", "delete"} /\ seen[c] = tenant
  <2>1. PICK c \in Callers : UpdateDistributionTenant(c) \/ DeleteDistributionTenant(c)
    BY <1>1 DEF TenantNext, TenantCaller, TenantSettles, Settle, TenantFails, Fail, Retry,
                GetDistributionTenant, CreateDistributionTenant
  <2>2. /\ pc[c] \in {"update", "delete"}
        /\ tenant.etag = seen[c].etag
    BY <1>1, <2>1 DEF UpdateDistributionTenant, DeleteDistributionTenant, IfMatch
  <2> QED BY <1>1, <2>2 DEF TenantInv, TenantControl, TenantCurrent
<1>2. TenantInv /\ [TenantNext]_tenantVars => [Replaces]_tenantVars
  BY <1>1 DEF tenantVars
<1> QED BY <1>2, TenantsInvariance, PTL DEF TenantSpec, ReplacesWhatItRead

=============================================================================
