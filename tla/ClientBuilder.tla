---------------------------- MODULE ClientBuilder ----------------------------
(***************************************************************************)
(* provider/v3.ClientBuilder (src/provider/v3/client_builder.go) and         *)
(* v3.NewClient (src/provider/v3/client.go), as run by the goroutines of a   *)
(* ClientPool.  A process is a goroutine; its position in the builder is     *)
(* one of BuilderPositions.                                                 *)
(*                                                                         *)
(* NewClient resolves the caller identity, so it is a call of STS.  Each    *)
(* call may succeed, fail with a credential error (the session expired: it  *)
(* may come back before the next call), or fail for its region (disabled,   *)
(* or no route to it).  A role is named by the account it belongs to.       *)
(***************************************************************************)
EXTENDS Naturals, FiniteSets

CONSTANTS Procs,         \* goroutines
          Accounts,      \* account ids a caller may name
          Regions,       \* regions a caller may name
          LocalAccount,  \* the account of the default credentials
          NoProc         \* no goroutine

Pairs == Accounts \X Regions

ASSUME BuilderAssumption ==
  /\ LocalAccount \in Accounts
  /\ Regions # {}
  /\ NoProc \notin Procs

VARIABLES
  pc,             \* pc[q]: where goroutine q is
  job,            \* job[q]: the pair q builds a client for
  err,            \* err[q]: the error q has in hand, or "none"
  defaultClient,  \* ClientBuilder.client is set
  credentials,    \* credentials[a]: CredentialsCaches stored for a's role so far
  builderLock     \* holder of ClientBuilder.Mutex

builderVars == <<pc, job, err, defaultClient, credentials, builderLock>>

BuilderPositions ==
  {"default", "newDefault", "readCreds", "lockCreds", "writingCreds", "assume",
   "local"}

Errors == {"none", "credential", "region"}

Goto(q, where) == pc' = [pc EXCEPT ![q] = where]

BuilderInit ==
  /\ defaultClient = FALSE
  /\ credentials = [a \in Accounts |-> 0]
  /\ builderLock = NoProc

-----------------------------------------------------------------------------

\* DefaultClient: return the client made before, or make one.  c.client is
\* read and written without the mutex, so two goroutines may both make one.
DefaultClient(q, after) ==
  /\ pc[q] = "default"
  /\ Goto(q, IF defaultClient THEN after ELSE "newDefault")
  /\ UNCHANGED <<job, err, defaultClient, credentials, builderLock>>

\* NewClient in DefaultAwsRegion.
NewDefaultClient(q, after, failed) ==
  /\ pc[q] = "newDefault"
  /\ \E e \in Errors :
       /\ err' = [err EXCEPT ![q] = e]
       /\ defaultClient' = (defaultClient \/ e = "none")
       /\ Goto(q, IF e = "none" THEN after ELSE failed)
  /\ UNCHANGED <<job, credentials, builderLock>>

\* getRoleCredentials, line 62: the map is read without the mutex, and the
\* answer is acted on later.
ReadCredentials(q) ==
  /\ pc[q] = "readCreds"
  /\ Goto(q, IF credentials[job[q][1]] > 0 THEN "assume" ELSE "default")
  /\ UNCHANGED <<job, err, defaultClient, credentials, builderLock>>

LockCredentials(q) ==
  /\ pc[q] = "lockCreds"
  /\ builderLock = NoProc
  /\ builderLock' = q
  /\ Goto(q, "writingCreds")
  /\ UNCHANGED <<job, err, defaultClient, credentials>>

\* Store a new CredentialsCache, whatever the map holds by now, and unlock.
WriteCredentials(q) ==
  /\ pc[q] = "writingCreds"
  /\ credentials' = [credentials EXCEPT ![job[q][1]] = @ + 1]
  /\ builderLock' = NoProc
  /\ Goto(q, "assume")
  /\ UNCHANGED <<job, err, defaultClient>>

\* AssumeClient, after getRoleCredentials: NewClient under the role.
AssumeClient(q) ==
  /\ pc[q] = "assume"
  /\ \E e \in Errors : err' = [err EXCEPT ![q] = e]
  /\ Goto(q, "built")
  /\ UNCHANGED <<job, defaultClient, credentials, builderLock>>

\* LocalClient, then buildClient's check that the client's account is the one
\* asked for.  The mismatch is no credential error, and is remembered like a
\* regional one.
LocalClient(q) ==
  /\ pc[q] = "local"
  /\ \E e \in Errors :
       err' = [err EXCEPT ![q] =
                 IF e = "none" /\ job[q][1] # LocalAccount THEN "region" ELSE e]
  /\ Goto(q, "built")
  /\ UNCHANGED <<job, defaultClient, credentials, builderLock>>

\* The builder, on behalf of a GetClient.
Builder(q) ==
  \/ DefaultClient(q, "lockCreds")
  \/ NewDefaultClient(q, "lockCreds", "built")
  \/ ReadCredentials(q)
  \/ LockCredentials(q)
  \/ WriteCredentials(q)
  \/ AssumeClient(q)
  \/ LocalClient(q)

-----------------------------------------------------------------------------

BuilderTypeOK ==
  /\ job \in [Procs -> Pairs]
  /\ err \in [Procs -> Errors]
  /\ defaultClient \in BOOLEAN
  /\ credentials \in [Accounts -> Nat]
  /\ builderLock \in Procs \cup {NoProc}

\* "An unsynchronised read here races the writes and can abort the process
\* with concurrent map read and map write" (client_pool.go:181-184): of a map
\* the goroutines of the pool share, no read may be due while another goroutine
\* writes.  The credentials map is read at client_builder.go:62 with no lock.
NoConcurrentMapAccess ==
  \A q, w \in Procs : ~(pc[q] = "readCreds" /\ pc[w] = "writingCreds")

=============================================================================
