-------------------------- MODULE CloudFrontCalls --------------------------
(***************************************************************************)
(* What the operations of CloudFrontRepository on a distribution tenant and  *)
(* on a connection group have in common (src/service/cloudfront): callers   *)
(* with one operation each, made of calls of CloudFront one after the       *)
(* other.                                                                  *)
(*                                                                         *)
(* Each change gives the tenant or the group a new ETag and takes time to   *)
(* settle.  The SDK sends a call again when its response is lost, so a call *)
(* may take effect and be repeated; a call may also fail for other reasons. *)
(***************************************************************************)
EXTENDS Naturals

CONSTANTS Callers,
          Gone,     \* no tenant, no group
          MaxLost   \* lost responses (bound)

VARIABLES
  settled,  \* CloudFront has finished applying the last change
  version,  \* the last id or ETag given out
  lost,     \* responses lost so far
  request,  \* request[c]: what c asked for
  pc,       \* pc[c]: the call c is to make next
  seen,     \* seen[c]: the version of the tenant or the group c has in hand
  result    \* result[c]: what c's operation returned

Results == {"none", "ok", "NotFound", "AlreadyExists", "PreconditionFailed",
            "NotDisabled", "failed"}

FirstCall(q) == IF q.op = "Create" THEN "create" ELSE "get"

\* The callers have made none of their calls.
Begin(requests) ==
  /\ settled = TRUE
  /\ version = 1
  /\ lost = 0
  /\ request \in [Callers -> requests]
  /\ pc = [c \in Callers |-> FirstCall(request[c])]
  /\ seen = [c \in Callers |-> Gone]
  /\ result = [c \in Callers |-> "none"]

-----------------------------------------------------------------------------

Goto(c, where) == pc' = [pc EXCEPT ![c] = where] /\ UNCHANGED result

Return(c, r) ==
  /\ pc' = [pc EXCEPT ![c] = "returned"]
  /\ result' = [result EXCEPT ![c] = r]

\* c finds what is there now: its first read gives a name, every later call the
\* id.
Found(c, now) ==
  /\ now # Gone
  /\ pc[c] # "get" => now.id = seen[c].id

\* The response of a call that took effect is lost, and the SDK repeats it.
LoseResponse ==
  /\ lost < MaxLost
  /\ lost' = lost + 1
  /\ UNCHANGED <<pc, result, seen>>

\* A call fails for good: throttled, cancelled, out of attempts.  It may have
\* taken effect before.
Fail(c) ==
  /\ pc[c] # "returned"
  /\ Return(c, "failed")
  /\ UNCHANGED <<settled, version, lost, request, seen>>

Settle ==
  /\ ~settled
  /\ settled' = TRUE
  /\ UNCHANGED <<version, lost, request, pc, seen, result>>

=============================================================================
