--------------------------- MODULE ResourceCycle ---------------------------
(***************************************************************************)
(* The resource observer with the pool middleware in front of its handler  *)
(* (src/resources/observer.go, src/resources/middleware/pool.go), over the  *)
(* gateways of a RepoProxyPool.                                             *)
(*                                                                         *)
(* Serve goes through the types it is given: it asks the gateways selected  *)
(* for the type, which a provider remembers for the observer's lifetime,    *)
(* and passes the reader to the middleware.  The middleware stores the      *)
(* listing in the pool, starts a goroutine that sets the gauges from the    *)
(* pool, and calls the handler.  Provider.Run and Read are one step here:   *)
(* FanoutContract says what they return, at most one answer of each         *)
(* gateway, and nothing of a gateway that failed.                          *)
(*                                                                         *)
(* updateMetrics reads the map of the pool without its lock.  A read that   *)
(* meets a write makes the Go runtime abort the process, or finds the old   *)
(* list, the new one or none.                                               *)
(***************************************************************************)
EXTENDS Gateways

CONSTANTS GatewayLists,  \* the gateway lists a pool may be built with
          Watched,       \* the resource types observed
          Asks,          \* the arguments Serve may be called with
          MaxFound,      \* resources of one type in one pair (bound)
          MaxServes      \* calls of Serve (bound)

ASSUME CycleAssumption ==
  /\ GatewayLists \subseteq Seq(Pairs)
  /\ \A l \in GatewayLists : IsInjective(l)
  /\ Watched \subseteq Types
  /\ Asks \subseteq Seq(Watched)
  /\ MaxFound \in Nat
  /\ MaxServes \in Nat

VARIABLES
  gateways,   \* RepoProxyPool.gateways
  kind,       \* whether they are RepoProxies or GenericRepoProxies
  providers,  \* the types that have a provider, and the gateways it asks
  pc,         \* control of Serve
  asked,      \* the types of the current or last Serve
  at,         \* the index of the type it is at
  serves,     \* calls of Serve so far
  result,     \* what the last Serve returned
  reader,     \* what the reader of the current type holds, by pair
  pool,       \* pool[t]: the listing stored for t and the Serve it is from
  updaters,   \* the goroutines of updateMetrics
  gauge,      \* gauge[t]: AwsPoolResourcePerRegionCount by pair
  disturbed,  \* types whose last updater met another updater or a write
  crashed     \* the Go runtime has aborted the process

serveVars == <<providers, pc, asked, at, serves, result, reader>>
poolVars == <<gateways, kind>>
vars == <<poolVars, serveVars, pool, updaters, gauge, disturbed, crashed>>

Count == [Pairs -> 0 .. MaxFound]
NothingFound == [x \in Pairs |-> 0]

Stored == [count : Count, serve : 0 .. MaxServes]
NotStored == [count |-> NothingFound, serve |-> 0]

\* A goroutine of updateMetrics: the place in Serve that started it, its type,
\* and, once it has read the pool, the list it found and the gauges left to set.
Updater == [of : Nat \X Nat, type : Watched, pc : {"started", "setting"},
            count : Count, todo : SUBSET Pairs]

Started(t) == [of |-> <<serves, at>>, type |-> t, pc |-> "started",
               count |-> NothingFound, todo |-> {}]

Init ==
  /\ gateways \in GatewayLists
  /\ kind \in {"typed", "generic"}
  /\ providers = <<>>
  /\ pc = "idle"
  /\ asked = <<>>
  /\ at = 1
  /\ serves = 0
  /\ result = "none"
  /\ reader = NothingFound
  /\ pool = [t \in Watched |-> NotStored]
  /\ updaters = {}
  /\ gauge = [t \in Watched |-> NothingFound]
  /\ disturbed = {}
  /\ crashed = FALSE

-----------------------------------------------------------------------------
(* ResourceObserver. *)

Serve(types) ==
  /\ pc = "idle"
  /\ serves < MaxServes
  /\ pc' = "next"
  /\ asked' = types
  /\ at' = 1
  /\ serves' = serves + 1
  /\ result' = "none"
  /\ UNCHANGED <<poolVars, providers, reader, pool, updaters, gauge, disturbed,
                 crashed>>

\* The listings that the gateways asked may come to.  One that fails, times
\* out or has no case for the type contributes nothing.
Listings(t, from) ==
  {l \in Count : \A x \in Pairs :
     l[x] # 0 => x \in from /\ FindAllAnswers(kind, t)}

\* getProvider: the gateways are selected once per type.
Provider(t) == IF t \in DOMAIN providers THEN providers[t] ELSE List(gateways, t)

RunProvider ==
  /\ pc = "next"
  /\ at <= Len(asked)
  /\ LET t == asked[at] IN
       /\ providers' = [u \in DOMAIN providers \cup {t} |->
                          IF u = t THEN Provider(t) ELSE providers[u]]
       /\ reader' \in Listings(t, Provider(t))
  /\ pc' = "handle"
  /\ UNCHANGED <<poolVars, asked, at, serves, result, pool, updaters, gauge,
                 disturbed, crashed>>

ServeReturns ==
  /\ pc = "next"
  /\ at > Len(asked)
  /\ pc' = "idle"
  /\ result' = "nil"
  /\ UNCHANGED <<poolVars, providers, asked, at, serves, reader, pool, updaters,
                 gauge, disturbed, crashed>>

-----------------------------------------------------------------------------
(* ResourcePoolMiddleware. *)

\* flush takes the lock and is writing to the map.
FlushBegins ==
  /\ pc = "handle"
  /\ pc' = "flushing"
  /\ UNCHANGED <<poolVars, providers, asked, at, serves, result, reader, pool,
                 updaters, gauge, disturbed, crashed>>

Running(t) == {u \in updaters : u.type = t}

\* mutant: the listing is added to the one stored
FlushEndsAppends ==
  /\ pc = "flushing"
  /\ LET t == asked[at]
         sum == [x \in Pairs |-> pool[t].count[x] + reader[x]]
     IN
       /\ pool' = [pool EXCEPT ![t] = [count |-> sum, serve |-> serves]]
       /\ updaters' = updaters \cup {Started(t)}
       /\ disturbed' = IF Running(t) = {} THEN disturbed \ {t}
                       ELSE disturbed \cup {t}
  /\ pc' = "next handler"
  /\ UNCHANGED <<poolVars, providers, asked, at, serves, result, reader, gauge,
                 crashed>>

\* flush is done; then go updateMetrics.
FlushEnds ==
  /\ pc = "flushing"
  /\ LET t == asked[at] IN
       /\ pool' = [pool EXCEPT ![t] = [count |-> reader, serve |-> serves]]
       /\ updaters' = updaters \cup {Started(t)}
       /\ disturbed' = IF Running(t) = {} THEN disturbed \ {t}
                       ELSE disturbed \cup {t}
  /\ pc' = "next handler"
  /\ UNCHANGED <<poolVars, providers, asked, at, serves, result, reader, gauge,
                 crashed>>

\* mutant: Serve ends, but loses the error of the handler
NextHandlerLosesError ==
  /\ pc = "next handler"
  /\ \/ pc' = "next" /\ at' = at + 1 /\ UNCHANGED result
     \/ pc' = "idle" /\ result' = "nil" /\ UNCHANGED at
  /\ UNCHANGED <<poolVars, providers, asked, serves, reader, pool, updaters,
                 gauge, disturbed, crashed>>

\* The handler returns nil, or an error that ends Serve.
NextHandler ==
  /\ pc = "next handler"
  /\ \/ pc' = "next" /\ at' = at + 1 /\ UNCHANGED result
     \/ pc' = "idle" /\ result' = "error" /\ UNCHANGED at
  /\ UNCHANGED <<poolVars, providers, asked, serves, reader, pool, updaters,
                 gauge, disturbed, crashed>>

\* mutant: the counts of an account start anew with each of its regions
ToSetOneRegion(count) ==
  {x \in Pairs : /\ count[x] # 0
                 /\ x = CHOOSE y \in Pairs : y.account = x.account /\ count[y] # 0}

\* The gauges that updateMetrics sets from a list: none for a pair without
\* resources.
ToSet(count) == {x \in Pairs : count[x] # 0}

\* Updater u goes on with those gauges; it ends when none is left.
GoesOn(u, count, todo) ==
  updaters' =
    (updaters \ {u}) \cup
      {v \in {[u EXCEPT !.pc = "setting", !.count = count, !.todo = todo]} :
         todo # {}}

\* The type has no entry: updateMetrics deletes its gauges and returns.
NoEntry(u) ==
  /\ updaters' = updaters \ {u}
  /\ gauge' = [gauge EXCEPT ![u.type] = NothingFound]

\* The read of the map when no write is under way.
ReadPool(u) ==
  /\ u.pc = "started"
  /\ pc # "flushing"
  /\ \/ /\ pool[u.type].serve # 0
        /\ GoesOn(u, pool[u.type].count, ToSet(pool[u.type].count))
        /\ UNCHANGED gauge
     \/ pool[u.type].serve = 0 /\ NoEntry(u)
  /\ UNCHANGED <<poolVars, serveVars, pool, disturbed, crashed>>

\* The read while a flush writes to the map.
ReadPoolRaced(u) ==
  /\ u.pc = "started"
  /\ pc = "flushing"
  /\ \/ /\ crashed' = TRUE
        /\ UNCHANGED <<updaters, gauge, disturbed>>
     \/ /\ \E c \in {pool[u.type].count, reader} :
             /\ c = pool[u.type].count \/ asked[at] = u.type
             /\ GoesOn(u, c, ToSet(c))
        /\ disturbed' = disturbed \cup {u.type}
        /\ UNCHANGED <<gauge, crashed>>
     \/ /\ NoEntry(u)
        /\ disturbed' = disturbed \cup {u.type}
        /\ UNCHANGED crashed
  /\ UNCHANGED <<poolVars, serveVars, pool>>

\* One Set; map order is random.
SetGauge(u) ==
  /\ u.pc = "setting"
  /\ \E x \in u.todo :
       /\ gauge' = [gauge EXCEPT ![u.type][x] = u.count[x]]
       /\ GoesOn(u, u.count, u.todo \ {x})
  /\ UNCHANGED <<poolVars, serveVars, pool, disturbed, crashed>>

-----------------------------------------------------------------------------

Observer ==
  \/ \E types \in Asks : Serve(types)
  \/ RunProvider
  \/ FlushBegins
  \/ FlushEnds
  \/ NextHandler
  \/ ServeReturns

UpdateMetrics(u) == ReadPool(u) \/ ReadPoolRaced(u) \/ SetGauge(u)

Next ==
  /\ ~crashed
  /\ Observer \/ \E u \in updaters : UpdateMetrics(u)

Spec == Init /\ [][Next]_vars

-----------------------------------------------------------------------------
(* Properties. *)

TypeOK ==
  /\ gateways \in GatewayLists
  /\ kind \in {"typed", "generic"}
  /\ DOMAIN providers \subseteq Watched
  /\ \A t \in DOMAIN providers : providers[t] \subseteq Pairs
  /\ pc \in {"idle", "next", "handle", "flushing", "next handler"}
  /\ asked \in Seq(Watched)
  /\ at \in 1 .. (Len(asked) + 1)
  /\ pc \in {"handle", "flushing", "next handler"} => at <= Len(asked)
  /\ serves \in 0 .. MaxServes
  /\ result \in {"none", "nil", "error"}
  /\ reader \in Count
  /\ pool \in [Watched -> Stored]
  /\ updaters \subseteq Updater
  /\ gauge \in [Watched -> Count]
  /\ disturbed \subseteq Watched
  /\ crashed \in BOOLEAN

\* The account of a pair is left out of a global type's listing only because
\* another account has a client in a preferred region and it has none.
LeftOut(a, from) ==
  \E r \in {UsEast1, EuCentral1} :
    /\ \E g \in from : g.region = r
    /\ [account |-> a, region |-> r] \notin Range(gateways)

\* A global type is listed once per account, whatever regions the pool has
\* clients for and in whatever order (proxy_pool.go:60-94), so the pool never
\* holds a global resource twice; on a complete matrix no account is left out.
GlobalOnce ==
  \A t \in DOMAIN providers \cap GlobalTypes :
    /\ \A g, h \in providers[t] : g.account = h.account => g = h
    /\ \A g \in Range(gateways) :
         \/ \E h \in providers[t] : h.account = g.account
         \/ LeftOut(g.account, providers[t])

\* A nil error of Serve means that the pool holds, for each type it was asked
\* for, a listing of this very call; an error means that exactly the types up
\* to the one whose handler failed have been replaced (observer.go:62-82).
ServeAccount ==
  pc = "idle" /\ serves > 0 =>
    LET upTo == IF result = "nil" THEN Len(asked) ELSE at
        served == {asked[i] : i \in 1 .. upTo}
    IN \A t \in Watched : pool[t].serve = serves <=> t \in served

\* An updater that met no other one and no write leaves the gauges of its type
\* at the pool's count wherever the pool has resources (pool.go:89-122).
GaugeShowsPool ==
  \A t \in Watched \ disturbed :
    Running(t) = {} =>
      \A x \in Pairs : pool[t].count[x] # 0 => gauge[t][x] = pool[t].count[x]

=============================================================================
