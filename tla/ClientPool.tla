----------------------------- MODULE ClientPool -----------------------------
(***************************************************************************)
(* provider/v3.ClientPool (src/provider/v3/client_pool.go) with its          *)
(* FailureCache (src/provider/v3/failure_cache.go), over the ClientBuilder.  *)
(*                                                                         *)
(* Each caller makes one request of the pool.  GetClients and                *)
(* GetAccountClients take the accounts one after the other and run one       *)
(* goroutine per region for each; GetClient runs as the one goroutine of     *)
(* the caller.  The worker of caller c for region r is <<c, r>>, and the     *)
(* caller itself is <<c, NoRegion>>.                                         *)
(***************************************************************************)
EXTENDS ClientBuilder, Integers

CONSTANTS Callers,    \* goroutines that use the pool
          NoRegion,   \* marks a caller's own goroutine
          Asks        \* the ways the callers may ask

Requests ==
  [op : {"GetClients", "ListAccountIDs"}, account : {LocalAccount},
   regions : SUBSET Regions]
    \cup [op : {"GetAccountClients"}, account : Accounts, regions : SUBSET Regions]
    \cup [op : {"GetClient"}, account : Accounts, regions : {{r} : r \in Regions}]

ASSUME PoolAssumption ==
  /\ Procs = Callers \X (Regions \cup {NoRegion})
  /\ NoRegion \notin Regions
  /\ Asks \subseteq [Callers -> Requests]

Self(c) == <<c, NoRegion>>
Workers(c) == {c} \X Regions
AllWorkers == Callers \X Regions

VARIABLES
  roles,     \* accounts with a configured assumable role
  request,   \* request[c]: what c asked for
  todo,      \* todo[c]: the accounts collectClients has still to go through
  poolLock,  \* holder of ClientPool.Mutex across steps (ListAccountIDs only)
  clients,   \* pairs with a cached client
  failures,  \* failures[x]: the error remembered for x and whether it is
             \* within its ttl, or NoFailure
  result,    \* result[c]: pairs of the clients c gets
  skipped,   \* skipped[c]: pairs logged and left out
  hadClient  \* hadClient[w]: w's pair had a cached client when w started

poolVars == <<roles, request, todo, poolLock, clients, failures, result,
              skipped, hadClient>>
vars == <<builderVars, poolVars>>

NoFailure == [err |-> "none", fresh |-> FALSE]

\* How collectClients and ListAccountIDs go on from DefaultClient.
AfterDefault(c) ==
  IF request[c].op = "ListAccountIDs" THEN "listed" ELSE "accounts"

\* What the builder leaves to the pool.
builderRest == <<defaultClient, credentials, builderLock>>

\* A critical section of ClientPool.Mutex that is one step.
Unlocked == poolLock = NoProc

Init ==
  /\ BuilderInit
  /\ roles \in SUBSET Accounts
  /\ pc = [q \in Procs |-> "idle"]
  /\ job = [q \in Procs |-> CHOOSE x \in Pairs : TRUE]
  /\ err = [q \in Procs |-> "none"]
  /\ request \in Asks
  /\ todo = [c \in Callers |-> {}]
  /\ poolLock = NoProc
  /\ clients = {}
  /\ failures = [x \in Pairs |-> NoFailure]
  /\ result = [c \in Callers |-> {}]
  /\ skipped = [c \in Callers |-> {}]
  /\ hadClient = [w \in AllWorkers |-> FALSE]

\* Time passes: a remembered failure outlives its ttl.
Outlive(x) ==
  /\ failures[x].fresh
  /\ failures' = [failures EXCEPT ![x].fresh = FALSE]
  /\ UNCHANGED <<builderVars, roles, request, todo, poolLock, clients, result,
                 skipped, hadClient>>

(***************************************************************************)
(* Requests.                                                                *)
(***************************************************************************)

\* The accounts PoolAccountIDs and ListAccountIDs report.
AccountIDs == IF roles # {} THEN roles ELSE {LocalAccount}

\* GetClients and GetAccountClients: PoolAccountIDs copies the roles under the
\* lock and asks for the default client only when there are none.
PoolAccountIDs(c) ==
  /\ pc[Self(c)] = "idle"
  /\ request[c].op \in {"GetClients", "GetAccountClients"}
  /\ Unlocked
  /\ Goto(Self(c), IF roles # {} THEN "accounts" ELSE "default")
  /\ UNCHANGED <<builderRest, job, err, poolVars>>

\* mutant: collect everything, filter for the account afterwards
ScopeFilterLater(c) == AccountIDs

\* The accounts whose clients collectClients is to build.
Scope(c) ==
  IF request[c].op = "GetAccountClients" THEN {request[c].account}
  ELSE AccountIDs

\* With the account ids in hand: an error, or an account outside the pool, ends
\* the request before any client is built.
CheckAccount(c) ==
  /\ pc[Self(c)] = "accounts"
  /\ IF \/ err[Self(c)] # "none"
        \/ /\ request[c].op = "GetAccountClients"
           /\ request[c].account \notin AccountIDs
     THEN Goto(Self(c), "error") /\ UNCHANGED todo
     ELSE /\ Goto(Self(c), "collect")
          /\ todo' = [todo EXCEPT ![c] = Scope(c)]
  /\ UNCHANGED <<builderRest, job, err, roles, request, poolLock, clients,
                 failures, result, skipped, hadClient>>

\* Start the goroutines for account a, one per region of the request.
Start(c, a) ==
  LET started == {c} \X request[c].regions IN
    /\ pc' = [q \in Procs |-> IF q \in started THEN "check"
                              ELSE IF q = Self(c) THEN "wait" ELSE pc[q]]
    /\ job' = [q \in Procs |-> IF q \in started THEN <<a, q[2]>> ELSE job[q]]
    /\ err' = [q \in Procs |-> IF q \in started THEN "none" ELSE err[q]]
    /\ hadClient' = [w \in AllWorkers |->
                       IF w \in started THEN <<a, w[2]>> \in clients
                       ELSE hadClient[w]]

\* collectClients, the loop over accounts: map order is random.
CollectAccount(c) ==
  /\ pc[Self(c)] = "collect"
  /\ \E a \in todo[c] :
       /\ todo' = [todo EXCEPT ![c] = @ \ {a}]
       /\ Start(c, a)
  /\ UNCHANGED <<builderRest, roles, request, poolLock, clients, failures,
                 result, skipped>>

\* GetClient, called directly.
GetClient(c) ==
  /\ pc[Self(c)] = "idle"
  /\ request[c].op = "GetClient"
  /\ Start(c, request[c].account)
  /\ UNCHANGED <<builderRest, roles, request, todo, poolLock, clients, failures,
                 result, skipped>>

\* mutant: the loop goes on without wg.Wait
CollectedNoWait(c) ==
  /\ pc[Self(c)] = "wait"
  /\ Goto(Self(c), IF todo[c] = {} THEN "returned" ELSE "collect")
  /\ UNCHANGED <<builderRest, job, err, poolVars>>

\* wg.Wait, then the next account or the end.
Collected(c) ==
  /\ pc[Self(c)] = "wait"
  /\ \A w \in Workers(c) : pc[w] \in {"idle", "finished"}
  /\ Goto(Self(c), IF todo[c] = {} THEN "returned" ELSE "collect")
  /\ UNCHANGED <<builderRest, job, err, poolVars>>

\* ListAccountIDs keeps the lock while it asks for the default client.
ListAccountIDs(c) ==
  /\ pc[Self(c)] = "idle"
  /\ request[c].op = "ListAccountIDs"
  /\ Unlocked
  /\ poolLock' = Self(c)
  /\ Goto(Self(c), IF roles # {} THEN "listed" ELSE "default")
  /\ UNCHANGED <<builderRest, job, err, roles, request, todo, clients, failures, result,
                 skipped, hadClient>>

\* mutant: the early return on an error misses the unlock
ListedKeepsLock(c) ==
  /\ pc[Self(c)] = "listed"
  /\ poolLock' = IF err[Self(c)] = "none" THEN NoProc ELSE poolLock
  /\ Goto(Self(c), IF err[Self(c)] = "none" THEN "returned" ELSE "error")
  /\ UNCHANGED <<builderRest, job, err, roles, request, todo, clients, failures,
                 result, skipped, hadClient>>

Listed(c) ==
  /\ pc[Self(c)] = "listed"
  /\ poolLock' = NoProc
  /\ Goto(Self(c), IF err[Self(c)] = "none" THEN "returned" ELSE "error")
  /\ UNCHANGED <<builderRest, job, err, roles, request, todo, clients, failures,
                 result, skipped, hadClient>>

(***************************************************************************)
(* GetClient, run by worker w.                                              *)
(***************************************************************************)

\* mutant: a remembered failure is looked up before the client
CachedClientLast(w) ==
  /\ pc[w] = "check"
  /\ Unlocked
  /\ Goto(w, IF failures[job[w]] = NoFailure /\ job[w] \in clients
             THEN "append" ELSE "failures")
  /\ UNCHANGED <<builderRest, job, err, poolVars>>

CachedClient(w) ==
  /\ pc[w] = "check"
  /\ Unlocked
  /\ Goto(w, IF job[w] \in clients THEN "append" ELSE "failures")
  /\ UNCHANGED <<builderRest, job, err, poolVars>>

\* GetClient returns an error; the goroutine of collectClients logs it, leaves
\* the pair out and ends.
LeaveOut(w) ==
  /\ skipped' = [skipped EXCEPT ![w[1]] = @ \cup {job[w]}]
  /\ err' = [err EXCEPT ![w] = "none"]
  /\ Goto(w, "finished")

\* failures.Err: replay a fresh failure, drop a stale one.
Err(w) ==
  /\ pc[w] = "failures"
  /\ \/ /\ failures[job[w]].fresh
        /\ LeaveOut(w)
        /\ UNCHANGED failures
     \/ /\ ~failures[job[w]].fresh
        /\ failures' = [failures EXCEPT ![job[w]] = NoFailure]
        /\ Goto(w, "build")
        /\ UNCHANGED <<err, skipped>>
  /\ UNCHANGED <<builderRest, job, roles, request, todo, poolLock, clients,
                 result, hadClient>>

\* buildClient up to its call of the builder.
BuildClient(w) ==
  /\ pc[w] = "build"
  /\ Unlocked
  /\ Goto(w, IF job[w][1] \in roles THEN "readCreds" ELSE "local")
  /\ UNCHANGED <<builderRest, job, err, poolVars>>

\* mutant: every failure is remembered
AddAny(w) ==
  /\ pc[w] = "built"
  /\ err[w] # "none"
  /\ LeaveOut(w)
  /\ failures' = [failures EXCEPT ![job[w]] = [err |-> err[w], fresh |-> TRUE]]
  /\ UNCHANGED <<builderRest, job, roles, request, todo, poolLock, clients,
                 result, hadClient>>

\* failures.Add: a credential failure is not remembered.
Add(w) ==
  /\ pc[w] = "built"
  /\ err[w] # "none"
  /\ LeaveOut(w)
  /\ failures' = IF err[w] = "credential" THEN failures
                 ELSE [failures EXCEPT ![job[w]] =
                         [err |-> err[w], fresh |-> TRUE]]
  /\ UNCHANGED <<builderRest, job, roles, request, todo, poolLock, clients,
                 result, hadClient>>

Forget(w) ==
  /\ pc[w] = "built"
  /\ err[w] = "none"
  /\ failures' = [failures EXCEPT ![job[w]] = NoFailure]
  /\ Goto(w, "set")
  /\ UNCHANGED <<builderRest, job, err, roles, request, todo, poolLock, clients,
                 result, skipped, hadClient>>

SetClient(w) ==
  /\ pc[w] = "set"
  /\ Unlocked
  /\ clients' = clients \cup {job[w]}
  /\ Goto(w, "append")
  /\ UNCHANGED <<builderRest, job, err, roles, request, todo, poolLock, failures,
                 result, skipped, hadClient>>

\* The goroutine of collectClients keeps the client, under the pool's lock;
\* GetClient called directly just returns it.
AppendClient(w) ==
  /\ pc[w] = "append"
  /\ Unlocked \/ request[w[1]].op = "GetClient"
  /\ result' = [result EXCEPT ![w[1]] = @ \cup {job[w]}]
  /\ Goto(w, "finished")
  /\ UNCHANGED <<builderRest, job, err, roles, request, todo, poolLock, clients,
                 failures, skipped, hadClient>>

-----------------------------------------------------------------------------

\* The builder's steps, on behalf of a worker or of a caller itself.
Build(w) == Builder(w) /\ UNCHANGED poolVars

AskDefaultClient(c) ==
  /\ \/ DefaultClient(Self(c), AfterDefault(c))
     \/ NewDefaultClient(Self(c), AfterDefault(c), AfterDefault(c))
  /\ UNCHANGED poolVars

Caller(c) ==
  \/ PoolAccountIDs(c)
  \/ CheckAccount(c)
  \/ CollectAccount(c)
  \/ GetClient(c)
  \/ Collected(c)
  \/ ListAccountIDs(c)
  \/ Listed(c)
  \/ AskDefaultClient(c)

Worker(w) ==
  \/ CachedClient(w)
  \/ Err(w)
  \/ BuildClient(w)
  \/ Build(w)
  \/ Add(w)
  \/ Forget(w)
  \/ SetClient(w)
  \/ AppendClient(w)

Next ==
  \/ \E c \in Callers : Caller(c)
  \/ \E w \in AllWorkers : Worker(w)
  \/ \E x \in Pairs : Outlive(x)

Spec == Init /\ [][Next]_vars

(***************************************************************************)
(* Goroutines are scheduled, STS answers or its retries run out (five       *)
(* attempts, client_builder.go:20), and a request takes each mutex a bounded *)
(* number of times, so no goroutine is kept from one forever.               *)
(***************************************************************************)
FairSpec ==
  /\ Spec
  /\ \A c \in Callers : WF_vars(Caller(c))
  /\ \A w \in AllWorkers : WF_vars(Worker(w))

-----------------------------------------------------------------------------
(* Properties. *)

WorkerPositions == {"idle", "check", "failures", "build", "built", "set",
                    "append", "finished"}
CallerPositions == {"idle", "accounts", "collect", "wait", "listed", "error",
                    "returned"}

\* Among the types: a credential failure "fails identically for every region at
\* once, and is fixed by re-authenticating" (failure_cache.go:27-31), so no pair
\* is held back by one, whichever goroutines failed and in whatever order.
TypeOK ==
  /\ BuilderTypeOK
  /\ roles \subseteq Accounts
  /\ \A w \in AllWorkers : pc[w] \in WorkerPositions \cup BuilderPositions
  /\ \A c \in Callers :
       pc[Self(c)] \in CallerPositions \cup {"default", "newDefault"}
  /\ request \in [Callers -> Requests]
  /\ todo \in [Callers -> SUBSET Accounts]
  /\ poolLock \in {NoProc} \cup {Self(c) : c \in Callers}
  /\ clients \subseteq Pairs
  /\ failures \in [Pairs -> [err : Errors \ {"credential"}, fresh : BOOLEAN]]
  /\ result \in [Callers -> SUBSET Pairs]
  /\ skipped \in [Callers -> SUBSET Pairs]
  /\ hadClient \in [AllWorkers -> BOOLEAN]

Ended(c) == pc[Self(c)] \in {"returned", "error"}

\* "Successful clients are cached for the pool's lifetime" (failure_cache.go:
\* 67): a GetClient that starts once its pair has a client gets a client and
\* calls no AWS, even when a slower build of the same pair failed since and
\* left its failure behind.
CachedClientServed ==
  \A w \in AllWorkers :
    hadClient[w] => pc[w] \in {"idle", "check", "append", "finished"}

\* "So one disabled region cannot fail the query" (client_pool.go:115-116):
\* when GetClients or GetAccountClients returns, each pair of the matrix it
\* asked for was either built or left out, never both nor neither, none of
\* its goroutines is left running, and what it got is cached.
MatrixComplete ==
  \A c \in Callers :
    /\ pc[Self(c)] = "returned"
    /\ request[c].op \in {"GetClients", "GetAccountClients"}
    => /\ result[c] \cup skipped[c] = Scope(c) \X request[c].regions
       /\ result[c] \cap skipped[c] = {}
       /\ result[c] \subseteq clients
       /\ \A r \in request[c].regions : pc[<<c, r>>] = "finished"

\* "Callers that scope work to one account must scope it here, before any
\* client exists" (client_pool.go:74-80, client_pool_test.go:33-46): no
\* goroutine of GetAccountClients is anywhere in buildClient for another
\* account, nor for an account the pool does not serve, and it gets no such
\* client.
AccountScoped ==
  \A c \in Callers :
    request[c].op = "GetAccountClients" =>
      LET served == {request[c].account} \cap AccountIDs IN
        /\ \A w \in Workers(c) :
             pc[w] \in {"build", "built", "set"} \cup BuilderPositions =>
               job[w][1] \in served
        /\ \A x \in result[c] : x[1] \in served

\* Every request of the pool ends, although ListAccountIDs holds the pool's
\* lock across a call of AWS (client_pool.go:246-261).
RequestsEnd == \A c \in Callers : <>Ended(c)

=============================================================================
