-------------------------- MODULE ClientPoolProofs --------------------------
(***************************************************************************)
(* Proofs about ClientPool, for every set of callers, accounts, regions and *)
(* requests.  The goroutine of caller c for region r is <<c, r>>.           *)
(***************************************************************************)
EXTENDS ClientPool, TLAPS

-----------------------------------------------------------------------------
(* The inductive invariant. *)

Sweep(c) == request[c].op \in {"GetClients", "GetAccountClients"}

\* Before its request has started a goroutine, or if it ends without one.
Early == {"idle", "default", "newDefault", "accounts", "listed", "error"}

\* Where the goroutine of a caller is.
InRequest(c) ==
  /\ pc[Self(c)] \in Early \cup {"collect", "wait", "returned"}
  /\ request[c].op = "GetClient" => pc[Self(c)] \in {"idle", "wait", "returned"}
  /\ request[c].op = "ListAccountIDs" =>
       pc[Self(c)] \in {"idle", "default", "newDefault", "listed", "error", "returned"}
  /\ Sweep(c) => pc[Self(c)] # "listed"
  /\ pc[Self(c)] \in Early =>
       result[c] = {} /\ skipped[c] = {} /\ \A r \in Regions : pc[<<c, r>>] = "idle"
  /\ pc[Self(c)] \in Early \/ ~Sweep(c) => todo[c] = {}

\* The pairs whose goroutines are at work.
Pending(c) ==
  {<<job[<<c, r>>][1], r>> :
     r \in {s \in Regions : pc[<<c, s>>] \notin {"idle", "finished"}}}

\* The pairs of the accounts the caller has come to.
Begun(c) == (Scope(c) \ todo[c]) \X request[c].regions

\* The goroutines of a caller work on its request, while it waits for them.
AtWork(c) ==
  /\ pc[Self(c)] # "wait" =>
       \A r \in Regions : pc[<<c, r>>] \in {"idle", "finished"}
  /\ \A r \in Regions :
       pc[<<c, r>>] # "idle" => job[<<c, r>>][2] = r /\ r \in request[c].regions

\* What a sweep has come to is built, left out or being worked on.
Accounted(c) ==
  Sweep(c) /\ pc[Self(c)] \in {"collect", "wait", "returned"} =>
    /\ request[c].op = "GetAccountClients" => request[c].account \in AccountIDs
    /\ todo[c] \subseteq Scope(c)
    /\ Pending(c) \subseteq Begun(c)
    /\ result[c] \cup skipped[c] = Begun(c) \ Pending(c)
    /\ result[c] \cap skipped[c] = {}
    /\ todo[c] # Scope(c) =>
         \A r \in request[c].regions : pc[<<c, r>>] # "idle"
    /\ pc[Self(c)] = "returned" => todo[c] = {}

CallerInv(c) == InRequest(c) /\ AtWork(c) /\ Accounted(c)

\* Clients handed out are cached, and once cached a client is found.
Cached ==
  /\ \A c \in Callers : result[c] \subseteq clients
  /\ \A w \in AllWorkers : pc[w] = "append" => job[w] \in clients
  /\ \A w \in AllWorkers : hadClient[w] /\ pc[w] # "idle" => job[w] \in clients

Positions == WorkerPositions \cup CallerPositions \cup BuilderPositions

IInv ==
  /\ TypeOK
  /\ pc \in [Procs -> Positions]
  /\ \A c \in Callers : CallerInv(c)
  /\ Cached
  /\ CachedClientServed

-----------------------------------------------------------------------------
(* Goroutines and positions. *)

LEMMA Goroutines ==
  /\ \A c \in Callers : Self(c) \in Procs
  /\ \A c \in Callers, r \in Regions : <<c, r>> \in Procs /\ <<c, r>> \in AllWorkers
  /\ \A w \in AllWorkers : \E c \in Callers, r \in Regions : w = <<c, r>>
  /\ \A c, d \in Callers, r \in Regions : Self(c) # <<d, r>>
  /\ \A c, d \in Callers : Self(c) = Self(d) => c = d
  /\ \A c, d \in Callers, r, s \in Regions : <<c, r>> = <<d, s>> => c = d /\ r = s
BY PoolAssumption DEF Self, AllWorkers

\* The types but for the positions.
DataOK ==
  /\ BuilderTypeOK
  /\ roles \subseteq Accounts
  /\ request \in [Callers -> Requests]
  /\ todo \in [Callers -> SUBSET Accounts]
  /\ poolLock \in {NoProc} \cup {Self(c) : c \in Callers}
  /\ clients \subseteq Pairs
  /\ failures \in [Pairs -> [err : Errors \ {"credential"}, fresh : BOOLEAN]]
  /\ result \in [Callers -> SUBSET Pairs]
  /\ skipped \in [Callers -> SUBSET Pairs]
  /\ hadClient \in [AllWorkers -> BOOLEAN]

PlacesOK ==
  /\ pc \in [Procs -> Positions]
  /\ \A w \in AllWorkers : pc[w] \in WorkerPositions \cup BuilderPositions
  /\ \A c \in Callers :
       pc[Self(c)] \in CallerPositions \cup {"default", "newDefault"}

LEMMA TypesSplit ==
  TypeOK /\ pc \in [Procs -> Positions] <=> DataOK /\ PlacesOK
BY DEF TypeOK, DataOK, PlacesOK

LEMMA WorkerPlace ==
  ASSUME PlacesOK, NEW w \in AllWorkers,
         NEW q \in WorkerPositions \cup BuilderPositions, Goto(w, q)
  PROVE  /\ PlacesOK'
         /\ pc'[w] = q
         /\ \A x \in Procs \ {w} : pc'[x] = pc[x]
<1>1. w \in Procs /\ \A c \in Callers : Self(c) \in Procs /\ Self(c) # w
  BY Goroutines
<1>2. AllWorkers \subseteq Procs
  BY Goroutines
<1>3. q \in Positions
  BY DEF Positions
<1>4. pc' = [pc EXCEPT ![w] = q] /\ pc \in [Procs -> Positions]
  BY DEF Goto, PlacesOK
<1>5. /\ pc' \in [Procs -> Positions]
      /\ pc'[w] = q
      /\ \A x \in Procs \ {w} : pc'[x] = pc[x]
  BY <1>1, <1>3, <1>4
<1>6. \A v \in AllWorkers : pc'[v] \in WorkerPositions \cup BuilderPositions
  BY <1>2, <1>5 DEF PlacesOK
<1>7. \A c \in Callers :
        pc'[Self(c)] \in CallerPositions \cup {"default", "newDefault"}
  BY <1>1, <1>5 DEF PlacesOK
<1> QED BY <1>5, <1>6, <1>7 DEF PlacesOK

LEMMA CallerPlace ==
  ASSUME PlacesOK, NEW c \in Callers,
         NEW q \in CallerPositions \cup {"default", "newDefault"},
         Goto(Self(c), q)
  PROVE  /\ PlacesOK'
         /\ pc'[Self(c)] = q
         /\ \A x \in Procs \ {Self(c)} : pc'[x] = pc[x]
<1>1. /\ Self(c) \in Procs
      /\ \A w \in AllWorkers : w \in Procs /\ w # Self(c)
      /\ \A d \in Callers : Self(d) \in Procs
  BY Goroutines
<1>2. q \in Positions
  BY DEF Positions, BuilderPositions
<1>3. pc' = [pc EXCEPT ![Self(c)] = q] /\ pc \in [Procs -> Positions]
  BY DEF Goto, PlacesOK
<1>4. /\ pc' \in [Procs -> Positions]
      /\ pc'[Self(c)] = q
      /\ \A x \in Procs \ {Self(c)} : pc'[x] = pc[x]
  BY <1>1, <1>2, <1>3
<1>5. \A w \in AllWorkers : pc'[w] \in WorkerPositions \cup BuilderPositions
  BY <1>1, <1>4 DEF PlacesOK
<1>6. \A d \in Callers :
        pc'[Self(d)] \in CallerPositions \cup {"default", "newDefault"}
  BY <1>1, <1>4 DEF PlacesOK
<1> QED BY <1>4, <1>5, <1>6 DEF PlacesOK

-----------------------------------------------------------------------------
(* Callers that a step does not concern. *)

LEMMA RequestParts ==
  ASSUME DataOK, NEW c \in Callers
  PROVE  /\ request[c].regions \subseteq Regions
         /\ request[c].account \in Accounts
         /\ request[c].op \in {"GetClients", "ListAccountIDs", "GetAccountClients", "GetClient"}
         /\ Scope(c) \subseteq Accounts /\ Scope(c) # {}
<1>1. request[c] \in Requests
  BY DEF DataOK
<1>2. /\ request[c].regions \subseteq Regions
      /\ request[c].account \in Accounts
      /\ request[c].op \in {"GetClients", "ListAccountIDs", "GetAccountClients", "GetClient"}
  BY <1>1, BuilderAssumption DEF Requests
<1>3. AccountIDs \subseteq Accounts /\ AccountIDs # {}
  BY BuilderAssumption DEF AccountIDs, DataOK
<1> QED BY <1>2, <1>3 DEF Scope

LEMMA CallerAlone ==
  ASSUME NEW c \in Callers, CallerInv(c), DataOK, UNCHANGED <<roles, request>>,
         pc'[Self(c)] = pc[Self(c)],
         \A r \in Regions : /\ pc'[<<c, r>>] = pc[<<c, r>>]
                            /\ job'[<<c, r>>] = job[<<c, r>>],
         todo'[c] = todo[c], result'[c] = result[c], skipped'[c] = skipped[c]
  PROVE  CallerInv(c)'
<1>1. /\ Sweep(c)' <=> Sweep(c)
      /\ Scope(c)' = Scope(c) /\ Begun(c)' = Begun(c)
      /\ AccountIDs' = AccountIDs
  BY DEF Sweep, Scope, Begun, AccountIDs
<1>2. Pending(c)' = Pending(c)
  BY DEF Pending
<1>3. InRequest(c)'
  BY <1>1 DEF CallerInv, InRequest
<1>4. AtWork(c)'
  BY DEF CallerInv, AtWork
<1>5. Accounted(c)'
  <2>1. request[c].regions \subseteq Regions
    BY RequestParts
  <2> QED BY <1>1, <1>2, <2>1 DEF CallerInv, Accounted
<1> QED BY <1>3, <1>4, <1>5 DEF CallerInv

-----------------------------------------------------------------------------
(* A step of a goroutine that is at work and stays so. *)

LEMMA WorkerGoesOn ==
  ASSUME IInv, NEW c \in Callers, NEW r \in Regions,
         NEW q \in (WorkerPositions \cup BuilderPositions) \ {"idle", "finished"},
         pc[<<c, r>>] \notin {"idle", "finished"},
         Goto(<<c, r>>, q),
         UNCHANGED <<job, roles, request, todo, result, skipped, hadClient>>,
         clients \subseteq clients',
         q = "append" => job[<<c, r>>] \in clients',
         hadClient[<<c, r>>] => q \in {"check", "append"}
  PROVE  PlacesOK' /\ (\A d \in Callers : CallerInv(d)') /\ Cached' /\ CachedClientServed'
<1> DEFINE w == <<c, r>>
<1>1. w \in AllWorkers /\ w \in Procs /\ DataOK /\ PlacesOK
  BY Goroutines, TypesSplit DEF IInv
<1>2. /\ PlacesOK'
      /\ pc'[w] = q
      /\ \A x \in Procs \ {w} : pc'[x] = pc[x]
  BY <1>1, WorkerPlace
<1>3. ASSUME NEW d \in Callers
      PROVE  pc'[Self(d)] = pc[Self(d)]
  BY <1>2, Goroutines
<1>4. ASSUME NEW d \in Callers, NEW s \in Regions, <<d, s>> # w
      PROVE  pc'[<<d, s>>] = pc[<<d, s>>]
  BY <1>2, <1>4, Goroutines
<1>5. \A d \in Callers \ {c} : CallerInv(d)'
  <2> SUFFICES ASSUME NEW d \in Callers \ {c} PROVE CallerInv(d)'
    OBVIOUS
  <2>1. \A s \in Regions : pc'[<<d, s>>] = pc[<<d, s>>]
    BY <1>4, Goroutines
  <2> QED BY <1>1, <1>3, <2>1, CallerAlone DEF IInv
<1>6. CallerInv(c) /\ request[c].regions \subseteq Regions
  BY <1>1, RequestParts DEF IInv
<1>7. \A s \in Regions : /\ pc'[<<c, s>>] = "idle" <=> pc[<<c, s>>] = "idle"
                         /\ pc'[<<c, s>>] = "finished" <=> pc[<<c, s>>] = "finished"
  BY <1>2, <1>4
<1>8. pc[Self(c)] = "wait"
  BY <1>6 DEF CallerInv, AtWork
<1>9. CallerInv(c)'
  <2>1. /\ Sweep(c)' <=> Sweep(c)
        /\ Scope(c)' = Scope(c) /\ Begun(c)' = Begun(c)
        /\ AccountIDs' = AccountIDs
    BY DEF Sweep, Scope, Begun, AccountIDs
  <2>2. Pending(c)' = Pending(c)
    BY <1>7 DEF Pending
  <2>3. InRequest(c)'
    BY <1>3, <1>6, <1>7, <2>1 DEF CallerInv, InRequest
  <2>4. AtWork(c)'
    BY <1>3, <1>6, <1>7 DEF CallerInv, AtWork
  <2>5. Accounted(c)'
    BY <1>3, <1>6, <1>7, <2>1, <2>2 DEF CallerInv, Accounted
  <2> QED BY <2>3, <2>4, <2>5 DEF CallerInv
<1>10. Cached'
  <2>1. \A d \in Callers : result'[d] \subseteq clients'
    BY DEF IInv, Cached
  <2>2. ASSUME NEW v \in AllWorkers
        PROVE  /\ pc'[v] = "append" => job'[v] \in clients'
               /\ hadClient'[v] /\ pc'[v] # "idle" => job'[v] \in clients'
    <3>1. CASE v = w
      BY <1>1, <1>2, <3>1 DEF IInv, Cached
    <3>2. CASE v # w
      <4>1. pc'[v] = pc[v]
        BY <1>2, <3>2, Goroutines
      <4> QED BY <4>1 DEF IInv, Cached
    <3> QED BY <3>1, <3>2
  <2> QED BY <2>1, <2>2 DEF Cached
<1>11. CachedClientServed'
  <2>1. ASSUME NEW v \in AllWorkers, hadClient'[v]
        PROVE  pc'[v] \in {"idle", "check", "append", "finished"}
    <3>1. CASE v = w
      BY <1>2, <2>1, <3>1
    <3>2. CASE v # w
      <4>1. pc'[v] = pc[v]
        BY <1>2, <3>2, Goroutines
      <4> QED BY <2>1, <4>1 DEF IInv, CachedClientServed
    <3> QED BY <3>1, <3>2
  <2> QED BY <2>1 DEF CachedClientServed
<1> QED BY <1>2, <1>5, <1>9, <1>10, <1>11

-----------------------------------------------------------------------------
(* A goroutine ends, with a client or without. *)

LEMMA WorkerEnds ==
  ASSUME IInv, NEW c \in Callers, NEW r \in Regions,
         pc[<<c, r>>] \notin {"idle", "finished"},
         Goto(<<c, r>>, "finished"),
         UNCHANGED <<job, roles, request, todo, hadClient, clients>>,
         \/ /\ result' = [result EXCEPT ![c] = @ \cup {job[<<c, r>>]}]
            /\ job[<<c, r>>] \in clients
            /\ skipped' = skipped
         \/ /\ skipped' = [skipped EXCEPT ![c] = @ \cup {job[<<c, r>>]}]
            /\ result' = result
  PROVE  /\ PlacesOK' /\ (\A d \in Callers : CallerInv(d)') /\ Cached' /\ CachedClientServed'
         /\ result' \in [Callers -> SUBSET Pairs]
         /\ skipped' \in [Callers -> SUBSET Pairs]
<1> DEFINE w == <<c, r>>
<1>1. w \in AllWorkers /\ w \in Procs /\ DataOK /\ PlacesOK
  BY Goroutines, TypesSplit DEF IInv
<1>2. /\ PlacesOK'
      /\ pc'[w] = "finished"
      /\ \A x \in Procs \ {w} : pc'[x] = pc[x]
  BY <1>1, WorkerPlace DEF WorkerPositions
<1>3. ASSUME NEW d \in Callers
      PROVE  pc'[Self(d)] = pc[Self(d)]
  BY <1>2, Goroutines
<1>4. ASSUME NEW d \in Callers, NEW s \in Regions, <<d, s>> # w
      PROVE  pc'[<<d, s>>] = pc[<<d, s>>]
  BY <1>2, <1>4, Goroutines
<1>5. job[w] \in Pairs /\ job[w] = <<job[w][1], r>>
  <2>1. job \in [Procs -> Pairs]
    BY <1>1 DEF DataOK, BuilderTypeOK
  <2>2. job[w][2] = r
    BY DEF IInv, CallerInv, AtWork
  <2> QED BY <1>1, <2>1, <2>2 DEF Pairs
<1>6. /\ result' \in [Callers -> SUBSET Pairs] /\ skipped' \in [Callers -> SUBSET Pairs]
      /\ \A d \in Callers \ {c} : result'[d] = result[d] /\ skipped'[d] = skipped[d]
      /\ \/ /\ result'[c] = result[c] \cup {job[w]} /\ job[w] \in clients
            /\ skipped'[c] = skipped[c]
         \/ /\ skipped'[c] = skipped[c] \cup {job[w]}
            /\ result'[c] = result[c]
  <2>1. result \in [Callers -> SUBSET Pairs] /\ skipped \in [Callers -> SUBSET Pairs]
    BY <1>1 DEF DataOK
  <2> QED BY <1>5, <2>1
<1>7. \A d \in Callers \ {c} : CallerInv(d)'
  <2> SUFFICES ASSUME NEW d \in Callers \ {c} PROVE CallerInv(d)'
    OBVIOUS
  <2>1. \A s \in Regions : pc'[<<d, s>>] = pc[<<d, s>>]
    BY <1>4, Goroutines
  <2>2. /\ todo'[d] = todo[d] /\ UNCHANGED <<roles, request>>
        /\ \A s \in Regions : job'[<<d, s>>] = job[<<d, s>>]
    OBVIOUS
  <2> QED BY <1>1, <1>3, <1>6, <2>1, <2>2, CallerAlone DEF IInv
<1>8. CallerInv(c) /\ request[c].regions \subseteq Regions
  BY <1>1, RequestParts DEF IInv
<1>9. \A s \in Regions : /\ pc'[<<c, s>>] = "idle" <=> pc[<<c, s>>] = "idle"
                         /\ s # r => pc'[<<c, s>>] = pc[<<c, s>>]
  BY <1>2, <1>4, Goroutines
<1>10. pc[Self(c)] = "wait"
  BY <1>8 DEF CallerInv, AtWork
<1>11. Pending(c)' = Pending(c) \ {job[w]} /\ job[w] \in Pending(c)
  <2>1. \A x : x \in Pending(c) <=>
          \E s \in Regions : /\ pc[<<c, s>>] \notin {"idle", "finished"}
                             /\ x = <<job[<<c, s>>][1], s>>
    BY DEF Pending
  <2>2. \A x : x \in Pending(c)' <=>
          \E s \in Regions : /\ pc'[<<c, s>>] \notin {"idle", "finished"}
                             /\ x = <<job[<<c, s>>][1], s>>
    BY DEF Pending
  <2>3. job[w] \in Pending(c)
    BY <1>5, <2>1
  <2>4. \A s \in Regions : pc'[<<c, s>>] \notin {"idle", "finished"} <=>
                             s # r /\ pc[<<c, s>>] \notin {"idle", "finished"}
    BY <1>2, <1>9
  <2>5. ASSUME NEW x
        PROVE  x \in Pending(c)' <=> x \in Pending(c) /\ x # job[w]
    <3>1. ASSUME x \in Pending(c)' PROVE x \in Pending(c) /\ x # job[w]
      <4>1. PICK s \in Regions : /\ pc'[<<c, s>>] \notin {"idle", "finished"}
                                 /\ x = <<job[<<c, s>>][1], s>>
        BY <2>2, <3>1
      <4>2. x # job[w]
        BY <1>5, <2>4, <4>1
      <4> QED BY <2>1, <2>4, <4>1, <4>2
    <3>2. ASSUME x \in Pending(c), x # job[w] PROVE x \in Pending(c)'
      <4>1. PICK s \in Regions : /\ pc[<<c, s>>] \notin {"idle", "finished"}
                                 /\ x = <<job[<<c, s>>][1], s>>
        BY <2>1, <3>2
      <4>2. s # r
        BY <1>5, <3>2, <4>1
      <4> QED BY <2>2, <2>4, <4>1, <4>2
    <3> QED BY <3>1, <3>2
  <2> QED BY <2>3, <2>5
<1>12. CallerInv(c)'
  <2>1. /\ Sweep(c)' <=> Sweep(c)
        /\ Scope(c)' = Scope(c) /\ Begun(c)' = Begun(c)
        /\ AccountIDs' = AccountIDs
    BY DEF Sweep, Scope, Begun, AccountIDs
  <2>2. InRequest(c)'
    BY <1>3, <1>8, <1>10, <2>1 DEF CallerInv, InRequest, Early
  <2>3. AtWork(c)'
    BY <1>3, <1>8, <1>9, <1>10 DEF CallerInv, AtWork
  <2>4. Accounted(c)'
    <3> SUFFICES ASSUME Sweep(c) PROVE Accounted(c)'
      BY <2>1 DEF Accounted
    <3>1. /\ request[c].op = "GetAccountClients" => request[c].account \in AccountIDs
          /\ todo[c] \subseteq Scope(c)
          /\ Pending(c) \subseteq Begun(c)
          /\ result[c] \cup skipped[c] = Begun(c) \ Pending(c)
          /\ result[c] \cap skipped[c] = {}
          /\ todo[c] # Scope(c) =>
               \A s \in request[c].regions : pc[<<c, s>>] # "idle"
      BY <1>8, <1>10 DEF CallerInv, Accounted
    <3>2. /\ Pending(c)' \subseteq Begun(c)
          /\ result'[c] \cup skipped'[c] = Begun(c) \ Pending(c)'
          /\ result'[c] \cap skipped'[c] = {}
      BY <1>6, <1>11, <3>1
    <3>3. todo[c] # Scope(c) =>
            \A s \in request[c].regions : pc'[<<c, s>>] # "idle"
      BY <1>8, <1>9, <3>1
    <3> QED BY <1>3, <1>10, <2>1, <3>1, <3>2, <3>3 DEF Accounted
  <2> QED BY <2>2, <2>3, <2>4 DEF CallerInv
<1>13. Cached'
  <2>1. \A d \in Callers : result'[d] \subseteq clients'
    BY <1>6 DEF IInv, Cached
  <2>2. ASSUME NEW v \in AllWorkers
        PROVE  /\ pc'[v] = "append" => job'[v] \in clients'
               /\ hadClient'[v] /\ pc'[v] # "idle" => job'[v] \in clients'
    <3>1. CASE v = w
      BY <1>1, <1>2, <3>1 DEF IInv, Cached
    <3>2. CASE v # w
      <4>1. pc'[v] = pc[v]
        BY <1>2, <3>2, Goroutines
      <4> QED BY <4>1 DEF IInv, Cached
    <3> QED BY <3>1, <3>2
  <2> QED BY <2>1, <2>2 DEF Cached
<1>14. CachedClientServed'
  <2>1. ASSUME NEW v \in AllWorkers, hadClient'[v]
        PROVE  pc'[v] \in {"idle", "check", "append", "finished"}
    <3>1. CASE v = w
      BY <1>2, <3>1
    <3>2. CASE v # w
      <4>1. pc'[v] = pc[v]
        BY <1>2, <3>2, Goroutines
      <4> QED BY <2>1, <4>1 DEF IInv, CachedClientServed
    <3> QED BY <3>1, <3>2
  <2> QED BY <2>1 DEF CachedClientServed
<1> QED BY <1>2, <1>6, <1>7, <1>12, <1>13, <1>14

-----------------------------------------------------------------------------
(* A step of a caller's own goroutine. *)

LEMMA CallerGoesOn ==
  ASSUME IInv, NEW c \in Callers,
         NEW q \in CallerPositions \cup {"default", "newDefault"},
         Goto(Self(c), q),
         UNCHANGED <<job, roles, request, result, skipped, hadClient, clients>>,
         \A d \in Callers \ {c} : todo'[d] = todo[d]
  PROVE  /\ PlacesOK' /\ Cached' /\ CachedClientServed'
         /\ \A d \in Callers \ {c} : CallerInv(d)'
         /\ pc'[Self(c)] = q
         /\ \A r \in Regions : pc'[<<c, r>>] = pc[<<c, r>>]
         /\ Pending(c)' = Pending(c)
<1>1. DataOK /\ PlacesOK
  BY TypesSplit DEF IInv
<1>2. /\ PlacesOK'
      /\ pc'[Self(c)] = q
      /\ \A x \in Procs \ {Self(c)} : pc'[x] = pc[x]
  BY <1>1, CallerPlace
<1>3. \A w \in AllWorkers : pc'[w] = pc[w]
  BY <1>2, Goroutines
<1>4. \A d \in Callers, r \in Regions : pc'[<<d, r>>] = pc[<<d, r>>]
  BY <1>3, Goroutines
<1>5. \A d \in Callers \ {c} : pc'[Self(d)] = pc[Self(d)]
  BY <1>2, Goroutines
<1>6. \A d \in Callers \ {c} : CallerInv(d)'
  BY <1>1, <1>4, <1>5, CallerAlone DEF IInv
<1>7. Cached' /\ CachedClientServed'
  BY <1>3 DEF IInv, Cached, CachedClientServed
<1>8. Pending(c)' = Pending(c)
  BY <1>4 DEF Pending
<1> QED BY <1>2, <1>4, <1>6, <1>7, <1>8

\* The invariant is made of these parts.
LEMMA Together ==
  IInv => /\ DataOK /\ PlacesOK /\ Cached /\ CachedClientServed
          /\ \A c \in Callers : CallerInv(c)
BY TypesSplit DEF IInv

LEMMA TogetherNext ==
  ASSUME DataOK', PlacesOK', \A c \in Callers : CallerInv(c)', Cached',
         CachedClientServed'
  PROVE  IInv'
BY DEF IInv, TypeOK, DataOK, PlacesOK

\* Steps of a request that has not started a goroutine, and does not now.
LEMMA EarlyGoesOn ==
  ASSUME IInv, NEW c \in Callers, NEW q \in Early \cup {"returned"},
         pc[Self(c)] \in Early, request[c].op # "GetClient",
         request[c].op = "ListAccountIDs" => q # "accounts",
         Sweep(c) => q \notin {"listed", "returned"},
         Goto(Self(c), q),
         UNCHANGED <<job, roles, request, todo, result, skipped, hadClient, clients>>
  PROVE  PlacesOK' /\ (\A d \in Callers : CallerInv(d)') /\ Cached' /\ CachedClientServed'
<1>1. q \in CallerPositions \cup {"default", "newDefault"}
  BY DEF Early, CallerPositions
<1>2. \A d \in Callers \ {c} : todo'[d] = todo[d]
  OBVIOUS
<1>3. /\ PlacesOK' /\ Cached' /\ CachedClientServed'
      /\ \A d \in Callers \ {c} : CallerInv(d)'
      /\ pc'[Self(c)] = q
      /\ \A r \in Regions : pc'[<<c, r>>] = pc[<<c, r>>]
  BY <1>1, <1>2, CallerGoesOn
<1>4. CallerInv(c) /\ (Sweep(c)' <=> Sweep(c))
  BY DEF IInv, Sweep
<1>5. q \notin {"wait", "collect"}
  BY DEF Early
<1>6. InRequest(c)'
  <2>1. \A r \in Regions : pc'[<<c, r>>] = "idle"
    BY <1>3, <1>4 DEF CallerInv, InRequest
  <2> QED BY <1>3, <1>4, <1>5, <2>1 DEF CallerInv, InRequest, Early
<1>7. AtWork(c)'
  BY <1>3, <1>4 DEF CallerInv, AtWork, InRequest
<1>8. Accounted(c)'
  BY <1>3, <1>4, <1>5 DEF Accounted
<1> QED BY <1>3, <1>6, <1>7, <1>8 DEF CallerInv

-----------------------------------------------------------------------------
(* The steps of the callers. *)

LEMMA PoolAccountIDsStep ==
  ASSUME IInv, NEW c \in Callers, PoolAccountIDs(c)
  PROVE  IInv'
<1>1. /\ pc[Self(c)] = "idle" /\ request[c].op \in {"GetClients", "GetAccountClients"}
      /\ UNCHANGED <<job, err, defaultClient, credentials, builderLock>>
      /\ UNCHANGED <<roles, request, todo, poolLock, clients, failures, result, skipped, hadClient>>
  BY DEF PoolAccountIDs, builderRest, poolVars
<1>2. PICK q \in {"accounts", "default"} : Goto(Self(c), q)
  BY DEF PoolAccountIDs
<1>3. PlacesOK' /\ (\A d \in Callers : CallerInv(d)') /\ Cached' /\ CachedClientServed'
  BY <1>1, <1>2, EarlyGoesOn DEF Early
<1>4. DataOK'
  BY <1>1, Together DEF DataOK, BuilderTypeOK
<1> QED BY <1>3, <1>4, TogetherNext

LEMMA AskDefaultClientStep ==
  ASSUME IInv, NEW c \in Callers, AskDefaultClient(c)
  PROVE  IInv'
<1>1. /\ pc[Self(c)] \in {"default", "newDefault"}
      /\ \E q \in {AfterDefault(c), "newDefault"} : Goto(Self(c), q)
      /\ UNCHANGED <<job, credentials, builderLock>>
      /\ UNCHANGED <<roles, request, todo, poolLock, clients, failures, result, skipped, hadClient>>
  BY DEF AskDefaultClient, DefaultClient, NewDefaultClient, poolVars
<1>2. DataOK /\ Self(c) \in Procs
  BY Together, Goroutines
<1>3. err' \in [Procs -> Errors] /\ defaultClient' \in BOOLEAN
  <2>1. err \in [Procs -> Errors] /\ defaultClient \in BOOLEAN
    BY <1>2 DEF DataOK, BuilderTypeOK
  <2>2. CASE DefaultClient(Self(c), AfterDefault(c))
    BY <2>1, <2>2 DEF DefaultClient
  <2>3. CASE NewDefaultClient(Self(c), AfterDefault(c), AfterDefault(c))
    <3>1. PICK e \in Errors : /\ err' = [err EXCEPT ![Self(c)] = e]
                              /\ defaultClient' = (defaultClient \/ e = "none")
      BY <2>3 DEF NewDefaultClient
    <3>2. defaultClient' \in BOOLEAN
      BY <3>1, Zenon
    <3> QED BY <2>1, <3>1, <3>2
  <2> QED BY <2>2, <2>3 DEF AskDefaultClient
<1>4. DataOK'
  BY <1>1, <1>2, <1>3 DEF DataOK, BuilderTypeOK
<1>5. CallerInv(c) /\ request[c].op # "GetClient"
  BY <1>1 DEF IInv, CallerInv, InRequest
<1>6. PICK q \in {AfterDefault(c), "newDefault"} : Goto(Self(c), q)
  BY <1>1
<1>7. PlacesOK' /\ (\A d \in Callers : CallerInv(d)') /\ Cached' /\ CachedClientServed'
  <2>1. /\ q \in Early \cup {"returned"} /\ pc[Self(c)] \in Early
        /\ request[c].op = "ListAccountIDs" => q # "accounts"
        /\ Sweep(c) => q \notin {"listed", "returned"}
    BY <1>1, <1>6 DEF AfterDefault, Sweep, Early
  <2> QED BY <1>1, <1>5, <1>6, <2>1, EarlyGoesOn
<1> QED BY <1>4, <1>7, TogetherNext

LEMMA ListAccountIDsStep ==
  ASSUME IInv, NEW c \in Callers, ListAccountIDs(c) \/ Listed(c)
  PROVE  IInv'
<1>1. /\ pc[Self(c)] \in {"idle", "listed"}
      /\ UNCHANGED <<job, err, defaultClient, credentials, builderLock>>
      /\ UNCHANGED <<roles, request, todo, clients, failures, result, skipped, hadClient>>
      /\ poolLock' \in {NoProc, Self(c)}
  BY DEF ListAccountIDs, Listed, builderRest
<1>2. request[c].op = "ListAccountIDs"
  <2>1. DataOK /\ CallerInv(c)
    BY Together
  <2>2. CASE ListAccountIDs(c)
    BY <2>2 DEF ListAccountIDs
  <2>3. CASE Listed(c)
    BY <2>1, <2>3, RequestParts DEF Listed, CallerInv, InRequest, Sweep
  <2> QED BY <2>2, <2>3
<1>3. PICK q \in {"listed", "default", "returned", "error"} : Goto(Self(c), q)
  BY DEF ListAccountIDs, Listed
<1>4. PlacesOK' /\ (\A d \in Callers : CallerInv(d)') /\ Cached' /\ CachedClientServed'
  <2>1. q \in Early \cup {"returned"} /\ pc[Self(c)] \in Early /\ ~Sweep(c)
    BY <1>1, <1>2 DEF Early, Sweep
  <2> QED BY <1>1, <1>2, <1>3, <2>1, EarlyGoesOn
<1>5. DataOK'
  BY <1>1, Together DEF DataOK, BuilderTypeOK
<1> QED BY <1>4, <1>5, TogetherNext

LEMMA CheckAccountStep ==
  ASSUME IInv, NEW c \in Callers, CheckAccount(c)
  PROVE  IInv'
<1>1. /\ pc[Self(c)] = "accounts"
      /\ UNCHANGED <<job, err, defaultClient, credentials, builderLock>>
      /\ UNCHANGED <<roles, request, poolLock, clients, failures, result, skipped, hadClient>>
  BY DEF CheckAccount, builderRest
<1>2. DataOK /\ CallerInv(c)
  BY Together
<1>3. Sweep(c)
  BY <1>1, <1>2, RequestParts DEF CallerInv, InRequest, Sweep
<1>4. CASE Goto(Self(c), "error") /\ UNCHANGED todo
  <2>1. PlacesOK' /\ (\A d \in Callers : CallerInv(d)') /\ Cached' /\ CachedClientServed'
    BY <1>1, <1>3, <1>4, EarlyGoesOn DEF Early, Sweep
  <2>2. DataOK'
    BY <1>1, <1>2, <1>4 DEF DataOK, BuilderTypeOK
  <2> QED BY <2>1, <2>2, TogetherNext
<1>5. CASE /\ Goto(Self(c), "collect")
           /\ todo' = [todo EXCEPT ![c] = Scope(c)]
           /\ request[c].op = "GetAccountClients" => request[c].account \in AccountIDs
  <2>1. /\ todo' \in [Callers -> SUBSET Accounts]
        /\ todo'[c] = Scope(c)
        /\ \A d \in Callers \ {c} : todo'[d] = todo[d]
    BY <1>2, <1>5, RequestParts DEF DataOK
  <2>2. DataOK'
    BY <1>1, <1>2, <2>1 DEF DataOK, BuilderTypeOK
  <2>3. /\ PlacesOK' /\ Cached' /\ CachedClientServed'
        /\ \A d \in Callers \ {c} : CallerInv(d)'
        /\ pc'[Self(c)] = "collect"
        /\ \A r \in Regions : pc'[<<c, r>>] = pc[<<c, r>>]
        /\ Pending(c)' = Pending(c)
    BY <1>1, <1>5, <2>1, CallerGoesOn DEF CallerPositions
  <2>4. /\ Sweep(c)' <=> Sweep(c)
        /\ Scope(c)' = Scope(c) /\ AccountIDs' = AccountIDs
    BY <1>1 DEF Sweep, Scope, AccountIDs
  <2>5. /\ result[c] = {} /\ skipped[c] = {}
        /\ \A r \in Regions : pc[<<c, r>>] = "idle"
    BY <1>1, <1>2 DEF CallerInv, InRequest, Early
  <2>6. Pending(c) = {}
    BY <2>5 DEF Pending
  <2>7. Begun(c)' = {}
    BY <2>1, <2>4 DEF Begun
  <2>8. InRequest(c)'
    BY <1>3, <2>3, <2>4 DEF InRequest, Early, Sweep
  <2>9. AtWork(c)'
    BY <2>3, <2>5 DEF AtWork
  <2>10. Accounted(c)'
    BY <1>1, <1>5, <2>1, <2>3, <2>4, <2>5, <2>6, <2>7 DEF Accounted
  <2> QED BY <2>2, <2>3, <2>8, <2>9, <2>10, TogetherNext DEF CallerInv
<1> QED BY <1>4, <1>5 DEF CheckAccount

LEMMA CollectedStep ==
  ASSUME IInv, NEW c \in Callers, Collected(c)
  PROVE  IInv'
<1>1. /\ pc[Self(c)] = "wait"
      /\ UNCHANGED <<job, err, defaultClient, credentials, builderLock>>
      /\ UNCHANGED <<roles, request, todo, poolLock, clients, failures, result, skipped, hadClient>>
  BY DEF Collected, builderRest, poolVars
<1>2. \A r \in Regions : pc[<<c, r>>] \in {"idle", "finished"}
  BY DEF Collected, Workers
<1>3. DataOK /\ CallerInv(c)
  BY Together
<1>4. DataOK'
  BY <1>1, <1>3 DEF DataOK, BuilderTypeOK
<1>5. PICK q \in {"returned", "collect"} :
        Goto(Self(c), q) /\ (q = "returned" <=> todo[c] = {})
  BY DEF Collected
<1>6. /\ PlacesOK' /\ Cached' /\ CachedClientServed'
      /\ \A d \in Callers \ {c} : CallerInv(d)'
      /\ pc'[Self(c)] = q
      /\ \A r \in Regions : pc'[<<c, r>>] = pc[<<c, r>>]
      /\ Pending(c)' = Pending(c)
  BY <1>1, <1>5, CallerGoesOn DEF CallerPositions
<1>7. /\ Sweep(c)' <=> Sweep(c)
      /\ Scope(c)' = Scope(c) /\ AccountIDs' = AccountIDs /\ Begun(c)' = Begun(c)
  BY <1>1 DEF Sweep, Scope, AccountIDs, Begun
<1>8. InRequest(c)'
  <2>1. ~Sweep(c) => todo[c] = {}
    BY <1>3 DEF CallerInv, InRequest
  <2>2. request[c].op # "ListAccountIDs"
    BY <1>1, <1>3 DEF CallerInv, InRequest
  <2>3. q \notin Early
    BY DEF Early
  <2>4. request[c].op = "GetClient" => q = "returned"
    BY <1>5, <2>1 DEF Sweep
  <2> QED BY <1>1, <1>6, <1>7, <2>1, <2>2, <2>3, <2>4 DEF InRequest, Early
<1>9. AtWork(c)'
  BY <1>1, <1>2, <1>3, <1>6 DEF CallerInv, AtWork
<1>10. Accounted(c)'
  <2>1. request[c].regions \subseteq Regions
    BY <1>3, RequestParts
  <2> QED BY <1>1, <1>3, <1>5, <1>6, <1>7, <2>1 DEF CallerInv, Accounted
<1> QED BY <1>4, <1>6, <1>8, <1>9, <1>10, TogetherNext DEF CallerInv

-----------------------------------------------------------------------------
(* A caller starts one goroutine per region of its request. *)

LEMMA Started ==
  ASSUME IInv, NEW c \in Callers, NEW a \in Accounts, Start(c, a),
         \A r \in Regions : pc[<<c, r>>] \in {"idle", "finished"},
         UNCHANGED <<roles, request, clients, result, skipped>>,
         \A d \in Callers \ {c} : todo'[d] = todo[d]
  PROVE  /\ PlacesOK' /\ Cached' /\ CachedClientServed'
         /\ \A d \in Callers \ {c} : CallerInv(d)'
         /\ job' \in [Procs -> Pairs] /\ err' \in [Procs -> Errors]
         /\ hadClient' \in [AllWorkers -> BOOLEAN]
         /\ pc'[Self(c)] = "wait"
         /\ \A r \in request[c].regions :
              pc'[<<c, r>>] = "check" /\ job'[<<c, r>>] = <<a, r>>
         /\ \A r \in Regions \ request[c].regions : pc'[<<c, r>>] = pc[<<c, r>>]
         /\ Pending(c)' = {a} \X request[c].regions
<1> DEFINE started == {c} \X request[c].regions
<1>1. DataOK /\ PlacesOK /\ request[c].regions \subseteq Regions
  BY Together, RequestParts
<1>2. started \subseteq AllWorkers /\ started \subseteq Procs
  BY <1>1, Goroutines
<1>3. Self(c) \in Procs \ started
  BY <1>2, Goroutines, PoolAssumption, <1>1 DEF Self
<1>4. /\ \A d \in Callers, r \in Regions : <<d, r>> \in started <=> d = c /\ r \in request[c].regions
      /\ \A r \in request[c].regions : <<c, r>>[2] = r
  OBVIOUS
<1>5. /\ pc' = [q \in Procs |-> IF q \in started THEN "check"
                              ELSE IF q = Self(c) THEN "wait" ELSE pc[q]]
      /\ job' = [q \in Procs |-> IF q \in started THEN <<a, q[2]>> ELSE job[q]]
      /\ err' = [q \in Procs |-> IF q \in started THEN "none" ELSE err[q]]
      /\ hadClient' = [w \in AllWorkers |->
                         IF w \in started THEN <<a, w[2]>> \in clients
                         ELSE hadClient[w]]
  BY DEF Start
<1>6. \A q \in started : q[2] \in Regions /\ <<a, q[2]>> \in Pairs
  BY <1>1 DEF Pairs
<1> HIDE DEF started
<1>7. job' \in [Procs -> Pairs] /\ err' \in [Procs -> Errors]
  BY <1>1, <1>5, <1>6 DEF DataOK, BuilderTypeOK, Errors
<1>8. hadClient' \in [AllWorkers -> BOOLEAN]
  <2>1. \A w \in AllWorkers : hadClient[w] \in BOOLEAN
    BY <1>1 DEF DataOK
  <2>2. ASSUME NEW w \in AllWorkers
        PROVE  hadClient'[w] \in BOOLEAN
    <3>1. CASE w \in started
      <4> DEFINE found == <<a, w[2]>> \in clients
      <4>1. hadClient'[w] = found
        BY <1>5, <3>1
      <4>2. found \in BOOLEAN
        OBVIOUS
      <4> HIDE DEF found
      <4> QED BY <4>1, <4>2, Zenon
    <3>2. CASE w \notin started
      BY <1>5, <2>1, <3>2
    <3> QED BY <3>1, <3>2
  <2>3. hadClient' = [w \in AllWorkers |-> hadClient'[w]]
    BY <1>5
  <2> QED BY <2>2, <2>3, Zenon
<1>9. /\ \A w \in started : pc'[w] = "check"
      /\ pc'[Self(c)] = "wait"
      /\ \A q \in Procs \ started : q # Self(c) => pc'[q] = pc[q] /\ job'[q] = job[q]
  BY <1>2, <1>3, <1>5
<1>10. PlacesOK'
  <2>1. pc' \in [Procs -> Positions]
    BY <1>1, <1>5 DEF PlacesOK, Positions, WorkerPositions, CallerPositions
  <2>2. \A w \in AllWorkers : pc'[w] \in WorkerPositions \cup BuilderPositions
    <3>1. \A w \in AllWorkers : w \in Procs /\ w # Self(c)
      BY Goroutines
    <3> QED BY <1>1, <1>9, <3>1 DEF PlacesOK, WorkerPositions
  <2>3. \A d \in Callers : pc'[Self(d)] \in CallerPositions \cup {"default", "newDefault"}
    <3>1. \A d \in Callers : Self(d) \in Procs \ started
      BY <1>2, Goroutines
    <3> QED BY <1>1, <1>9, <3>1 DEF PlacesOK, CallerPositions
  <2> QED BY <2>1, <2>2, <2>3 DEF PlacesOK
<1>11. ASSUME NEW r \in request[c].regions
       PROVE  pc'[<<c, r>>] = "check" /\ job'[<<c, r>>] = <<a, r>>
  <2>1. <<c, r>> \in started /\ <<c, r>> \in Procs
    BY <1>1, <1>2, <1>4
  <2> QED BY <1>5, <1>9, <2>1
<1>12. ASSUME NEW d \in Callers, NEW r \in Regions, d # c \/ r \notin request[c].regions
       PROVE  pc'[<<d, r>>] = pc[<<d, r>>] /\ job'[<<d, r>>] = job[<<d, r>>]
  <2>1. <<d, r>> \in Procs \ started /\ <<d, r>> # Self(c)
    BY <1>4, <1>12, Goroutines
  <2> QED BY <1>9, <2>1
<1>13. ASSUME NEW d \in Callers \ {c}
       PROVE  CallerInv(d)'
  <2>1. pc'[Self(d)] = pc[Self(d)]
    <3>1. Self(d) \in Procs \ started /\ Self(d) # Self(c)
      BY <1>2, Goroutines
    <3> QED BY <1>9, <3>1
  <2> QED BY <1>1, <1>12, <2>1, CallerAlone, Together
<1>14. Pending(c)' = {a} \X request[c].regions
  <2>1. \A r \in Regions : pc'[<<c, r>>] \notin {"idle", "finished"} <=> r \in request[c].regions
    BY <1>11, <1>12
  <2>2. \A r \in request[c].regions : job'[<<c, r>>][1] = a
    BY <1>11
  <2>3. \A x : x \in Pending(c)' <=>
          \E r \in Regions : /\ pc'[<<c, r>>] \notin {"idle", "finished"}
                             /\ x = <<job'[<<c, r>>][1], r>>
    BY DEF Pending
  <2>4. \A x : x \in Pending(c)' <=> \E r \in request[c].regions : x = <<a, r>>
    BY <1>1, <2>1, <2>2, <2>3
  <2> QED BY <2>4
<1>15. Cached' /\ CachedClientServed'
  <2>1. ASSUME NEW w \in AllWorkers
        PROVE  /\ pc'[w] = "append" => job'[w] \in clients'
               /\ hadClient'[w] /\ pc'[w] # "idle" => job'[w] \in clients'
               /\ hadClient'[w] => pc'[w] \in {"idle", "check", "append", "finished"}
    <3>1. CASE w \in started
      <4>1. job'[w] = <<a, w[2]>> /\ hadClient'[w] = (<<a, w[2]>> \in clients)
        BY <1>2, <1>5, <3>1
      <4> QED BY <1>9, <3>1, <4>1
    <3>2. CASE w \notin started
      <4>1. w \in Procs /\ w # Self(c)
        BY Goroutines
      <4>2. pc'[w] = pc[w] /\ job'[w] = job[w] /\ hadClient'[w] = hadClient[w]
        BY <1>5, <1>9, <3>2, <4>1
      <4> QED BY <4>2 DEF IInv, Cached, CachedClientServed
    <3> QED BY <3>1, <3>2
  <2> QED BY <2>1 DEF IInv, Cached, CachedClientServed
<1> QED BY <1>7, <1>8, <1>9, <1>10, <1>11, <1>12, <1>13, <1>14, <1>15

LEMMA GetClientStep ==
  ASSUME IInv, NEW c \in Callers, GetClient(c)
  PROVE  IInv'
<1> DEFINE a == request[c].account
<1>1. /\ pc[Self(c)] = "idle" /\ request[c].op = "GetClient" /\ Start(c, a)
      /\ UNCHANGED <<defaultClient, credentials, builderLock>>
      /\ UNCHANGED <<roles, request, todo, poolLock, clients, failures, result, skipped>>
  BY DEF GetClient, builderRest
<1>2. DataOK /\ CallerInv(c) /\ a \in Accounts /\ request[c].regions \subseteq Regions
  BY Together, RequestParts
<1>3. /\ result[c] = {} /\ skipped[c] = {} /\ todo[c] = {}
      /\ \A r \in Regions : pc[<<c, r>>] = "idle"
  BY <1>1, <1>2 DEF CallerInv, InRequest, Early
<1>4. \A r \in Regions : pc[<<c, r>>] \in {"idle", "finished"}
  BY <1>3
<1> HIDE DEF a
<1>5. /\ PlacesOK' /\ Cached' /\ CachedClientServed'
      /\ \A d \in Callers \ {c} : CallerInv(d)'
      /\ job' \in [Procs -> Pairs] /\ err' \in [Procs -> Errors]
      /\ hadClient' \in [AllWorkers -> BOOLEAN]
      /\ pc'[Self(c)] = "wait"
      /\ \A r \in request[c].regions :
           pc'[<<c, r>>] = "check" /\ job'[<<c, r>>] = <<a, r>>
      /\ \A r \in Regions \ request[c].regions : pc'[<<c, r>>] = pc[<<c, r>>]
  BY <1>1, <1>2, <1>4, Started
<1>6. DataOK'
  BY <1>1, <1>2, <1>5 DEF DataOK, BuilderTypeOK
<1>7. ~Sweep(c)' /\ request' = request /\ todo' = todo
  BY <1>1 DEF Sweep
<1>8. InRequest(c)'
  BY <1>1, <1>3, <1>5, <1>7 DEF InRequest, Early
<1>9. AtWork(c)'
  BY <1>3, <1>5, <1>7 DEF AtWork
<1>10. Accounted(c)'
  BY <1>7 DEF Accounted
<1> QED BY <1>5, <1>6, <1>8, <1>9, <1>10, TogetherNext DEF CallerInv

LEMMA CollectAccountStep ==
  ASSUME IInv, NEW c \in Callers, CollectAccount(c)
  PROVE  IInv'
<1>1. /\ pc[Self(c)] = "collect"
      /\ UNCHANGED <<defaultClient, credentials, builderLock>>
      /\ UNCHANGED <<roles, request, poolLock, clients, failures, result, skipped>>
  BY DEF CollectAccount, builderRest
<1>2. PICK a \in todo[c] : todo' = [todo EXCEPT ![c] = @ \ {a}] /\ Start(c, a)
  BY DEF CollectAccount
<1>3. DataOK /\ CallerInv(c) /\ request[c].regions \subseteq Regions
  BY Together, RequestParts
<1>4. /\ todo' \in [Callers -> SUBSET Accounts] /\ a \in Accounts
      /\ todo'[c] = todo[c] \ {a}
      /\ \A d \in Callers \ {c} : todo'[d] = todo[d]
  BY <1>2, <1>3 DEF DataOK
<1>5. /\ \A r \in Regions : pc[<<c, r>>] \in {"idle", "finished"}
      /\ Sweep(c)
  BY <1>1, <1>3, <1>4 DEF CallerInv, AtWork, InRequest
<1>6. /\ PlacesOK' /\ Cached' /\ CachedClientServed'
      /\ \A d \in Callers \ {c} : CallerInv(d)'
      /\ job' \in [Procs -> Pairs] /\ err' \in [Procs -> Errors]
      /\ hadClient' \in [AllWorkers -> BOOLEAN]
      /\ pc'[Self(c)] = "wait"
      /\ \A r \in request[c].regions :
           pc'[<<c, r>>] = "check" /\ job'[<<c, r>>] = <<a, r>>
      /\ \A r \in Regions \ request[c].regions : pc'[<<c, r>>] = pc[<<c, r>>]
      /\ Pending(c)' = {a} \X request[c].regions
  BY <1>1, <1>2, <1>4, <1>5, Started
<1>7. DataOK'
  BY <1>1, <1>3, <1>4, <1>6 DEF DataOK, BuilderTypeOK
<1>8. /\ Sweep(c)' /\ request' = request
      /\ Scope(c)' = Scope(c) /\ AccountIDs' = AccountIDs
  BY <1>1, <1>5 DEF Sweep, Scope, AccountIDs
<1>9. InRequest(c)'
  <2>1. request[c].op \notin {"GetClient", "ListAccountIDs"}
    BY <1>5 DEF Sweep
  <2> QED BY <1>6, <1>8, <2>1 DEF InRequest, Early
<1>10. AtWork(c)'
  <2>1. \A r \in Regions \ request[c].regions : pc[<<c, r>>] = "idle"
    BY <1>3 DEF CallerInv, AtWork
  <2> QED BY <1>6, <1>8, <2>1 DEF AtWork
<1>11. Accounted(c)'
  <2>1. /\ request[c].op = "GetAccountClients" => request[c].account \in AccountIDs
        /\ todo[c] \subseteq Scope(c)
        /\ result[c] \cup skipped[c] = Begun(c) \ Pending(c)
        /\ result[c] \cap skipped[c] = {}
    BY <1>1, <1>3, <1>5 DEF CallerInv, Accounted
  <2>2. Pending(c) = {}
    BY <1>5 DEF Pending
  <2>3. Begun(c)' = ((Scope(c) \ todo[c]) \cup {a}) \X request[c].regions
    BY <1>4, <1>8, <2>1 DEF Begun
  <2>4. Pending(c)' \subseteq Begun(c)'
    BY <1>6, <2>3
  <2>5. Begun(c) = Begun(c)' \ Pending(c)'
    BY <1>6, <2>3 DEF Begun
  <2>6. result'[c] = result[c] /\ skipped'[c] = skipped[c]
    BY <1>1
  <2> QED BY <1>4, <1>6, <1>8, <2>1, <2>2, <2>4, <2>5, <2>6 DEF Accounted
<1> QED BY <1>6, <1>7, <1>9, <1>10, <1>11, TogetherNext DEF CallerInv

-----------------------------------------------------------------------------
(* The steps of the goroutines that get a client. *)

LEMMA WorkerData ==
  ASSUME DataOK, NEW c \in Callers, NEW r \in Regions
  PROVE  /\ <<c, r>> \in Procs /\ <<c, r>> \in AllWorkers /\ <<c, r>>[1] = c
         /\ job[<<c, r>>] \in Pairs /\ job[<<c, r>>][1] \in Accounts
         /\ err[<<c, r>>] \in Errors
<1>1. <<c, r>> \in Procs /\ <<c, r>> \in AllWorkers
  BY Goroutines
<1>2. job[<<c, r>>] \in Pairs /\ err[<<c, r>>] \in Errors
  BY <1>1 DEF DataOK, BuilderTypeOK
<1> QED BY <1>1, <1>2 DEF Pairs

LEMMA CachedClientStep ==
  ASSUME IInv, NEW c \in Callers, NEW r \in Regions,
         CachedClient(<<c, r>>) \/ BuildClient(<<c, r>>)
  PROVE  IInv'
<1> DEFINE w == <<c, r>>
<1>1. /\ DataOK /\ Cached /\ CachedClientServed /\ w \in AllWorkers
  BY Together, Goroutines
<1>2. /\ UNCHANGED <<job, err, defaultClient, credentials, builderLock>>
      /\ UNCHANGED <<roles, request, todo, poolLock, clients, failures, result, skipped, hadClient>>
  BY DEF CachedClient, BuildClient, builderRest, poolVars
<1>3. PICK q \in {"append", "failures", "readCreds", "local"} :
        /\ Goto(w, q)
        /\ pc[w] \in {"check", "build"}
        /\ pc[w] = "check" => q = IF job[w] \in clients THEN "append" ELSE "failures"
        /\ pc[w] = "build" => q \in {"readCreds", "local"}
  BY DEF CachedClient, BuildClient
<1>4. /\ q = "append" => job[w] \in clients
      /\ hadClient[w] => q \in {"check", "append"}
  <2>1. hadClient[w] => pc[w] = "check" /\ job[w] \in clients
    BY <1>1, <1>3 DEF Cached, CachedClientServed
  <2> QED BY <1>3, <2>1
<1>5. q \in (WorkerPositions \cup BuilderPositions) \ {"idle", "finished"}
  BY DEF WorkerPositions, BuilderPositions
<1>6. pc[w] \notin {"idle", "finished"} /\ clients' = clients
  BY <1>2, <1>3
<1>7. PlacesOK' /\ (\A d \in Callers : CallerInv(d)') /\ Cached' /\ CachedClientServed'
  BY <1>2, <1>3, <1>4, <1>5, <1>6, WorkerGoesOn
<1>8. DataOK'
  BY <1>1, <1>2 DEF DataOK, BuilderTypeOK
<1> QED BY <1>7, <1>8, TogetherNext

LEMMA BuildStep ==
  ASSUME IInv, NEW c \in Callers, NEW r \in Regions, Build(<<c, r>>)
  PROVE  IInv'
<1> DEFINE w == <<c, r>>
<1>1. DataOK /\ Cached /\ CachedClientServed
  BY Together
<1>2. w \in AllWorkers /\ w \in Procs /\ job[w][1] \in Accounts
  BY <1>1, WorkerData
<1>3. /\ job' = job
      /\ UNCHANGED <<roles, request, todo, poolLock, clients, failures, result, skipped, hadClient>>
  BY DEF Build, Builder, DefaultClient, NewDefaultClient, ReadCredentials,
         LockCredentials, WriteCredentials, AssumeClient, LocalClient, poolVars
<1>4. pc[w] \in BuilderPositions /\ \E q \in BuilderPositions \cup {"built"} : Goto(w, q)
  BY DEF Build, Builder, DefaultClient, NewDefaultClient, ReadCredentials,
         LockCredentials, WriteCredentials, AssumeClient, LocalClient, BuilderPositions
<1>5. DataOK'
  <2>1. /\ err \in [Procs -> Errors] /\ defaultClient \in BOOLEAN
        /\ credentials \in [Accounts -> Nat] /\ builderLock \in Procs \cup {NoProc}
    BY <1>1 DEF DataOK, BuilderTypeOK
  <2>2. err' \in [Procs -> Errors]
    <3>1. err' = err \/ \E e \in Errors : err' = [err EXCEPT ![w] = e]
      BY DEF Build, Builder, DefaultClient, NewDefaultClient, ReadCredentials,
             LockCredentials, WriteCredentials, AssumeClient, LocalClient, Errors
    <3> QED BY <1>2, <2>1, <3>1
  <2>3. defaultClient' \in BOOLEAN
    <3>1. \/ defaultClient' = defaultClient
          \/ \E e \in Errors : defaultClient' = (defaultClient \/ e = "none")
      BY DEF Build, Builder, DefaultClient, NewDefaultClient, ReadCredentials,
             LockCredentials, WriteCredentials, AssumeClient, LocalClient
    <3> QED BY <2>1, <3>1, Zenon
  <2>4. credentials' \in [Accounts -> Nat]
    <3>1. credentials' = credentials \/ credentials' = [credentials EXCEPT ![job[w][1]] = @ + 1]
      BY DEF Build, Builder, DefaultClient, NewDefaultClient, ReadCredentials,
             LockCredentials, WriteCredentials, AssumeClient, LocalClient
    <3>2. credentials[job[w][1]] + 1 \in Nat
      BY <1>2, <2>1
    <3> QED BY <1>2, <2>1, <3>1, <3>2
  <2>5. builderLock' \in Procs \cup {NoProc}
    <3>1. builderLock' \in {builderLock, w, NoProc}
      BY DEF Build, Builder, DefaultClient, NewDefaultClient, ReadCredentials,
             LockCredentials, WriteCredentials, AssumeClient, LocalClient
    <3> QED BY <1>2, <2>1, <3>1
  <2> QED BY <1>1, <1>3, <2>2, <2>3, <2>4, <2>5 DEF DataOK, BuilderTypeOK
<1>6. PICK q \in BuilderPositions \cup {"built"} : Goto(w, q)
  BY <1>4
<1>7. /\ q \in (WorkerPositions \cup BuilderPositions) \ {"idle", "finished"}
      /\ q # "append" /\ pc[w] \notin {"idle", "finished"} /\ ~hadClient[w]
  BY <1>1, <1>2, <1>4 DEF WorkerPositions, BuilderPositions, CachedClientServed
<1>8. PlacesOK' /\ (\A d \in Callers : CallerInv(d)') /\ Cached' /\ CachedClientServed'
  BY <1>3, <1>6, <1>7, WorkerGoesOn
<1> QED BY <1>5, <1>8, TogetherNext

\* failures.Err and failures.Add leave the pair out; Err may also go on to build.
LEMMA FailureStep ==
  ASSUME IInv, NEW c \in Callers, NEW r \in Regions, Err(<<c, r>>) \/ Add(<<c, r>>)
  PROVE  IInv'
<1> DEFINE w == <<c, r>>
           Failure == [err : Errors \ {"credential"}, fresh : BOOLEAN]
<1>1. DataOK /\ CachedClientServed
  BY Together
<1>2. w \in AllWorkers /\ w \in Procs /\ w[1] = c /\ job[w] \in Pairs /\ err[w] \in Errors
  BY <1>1, WorkerData
<1>3. /\ UNCHANGED <<job, defaultClient, credentials, builderLock>>
      /\ UNCHANGED <<roles, request, todo, poolLock, clients, result, hadClient>>
  BY DEF Err, Add, builderRest
<1>4. failures \in [Pairs -> Failure]
  BY <1>1 DEF DataOK
<1>5. failures' \in [Pairs -> Failure]
  <2>1. NoFailure \in Failure
    BY DEF NoFailure, Errors
  <2>2. err[w] # "credential" => [err |-> err[w], fresh |-> TRUE] \in Failure
    BY <1>2
  <2> HIDE DEF Failure
  <2>3. \/ failures' = failures
        \/ failures' = [failures EXCEPT ![job[w]] = NoFailure]
        \/ /\ err[w] # "credential"
           /\ failures' = [failures EXCEPT ![job[w]] = [err |-> err[w], fresh |-> TRUE]]
    BY DEF Err, Add
  <2> QED BY <1>2, <1>4, <2>1, <2>2, <2>3
<1>6. pc[w] \in {"failures", "built"}
  BY DEF Err, Add
<1>7. CASE LeaveOut(w)
  <2>1. /\ skipped' = [skipped EXCEPT ![c] = @ \cup {job[w]}]
        /\ err' = [err EXCEPT ![w] = "none"]
        /\ Goto(w, "finished")
    BY <1>2, <1>7 DEF LeaveOut
  <2>2. /\ PlacesOK' /\ (\A d \in Callers : CallerInv(d)') /\ Cached' /\ CachedClientServed'
        /\ skipped' \in [Callers -> SUBSET Pairs]
    BY <1>3, <1>6, <2>1, WorkerEnds
  <2>3. err' \in [Procs -> Errors]
    BY <1>1, <1>2, <2>1 DEF DataOK, BuilderTypeOK, Errors
  <2>4. DataOK'
    BY <1>1, <1>3, <1>5, <2>2, <2>3 DEF DataOK, BuilderTypeOK
  <2> QED BY <2>2, <2>4, TogetherNext
<1>8. CASE Goto(w, "build") /\ UNCHANGED <<err, skipped>>
  <2>1. /\ "build" \in (WorkerPositions \cup BuilderPositions) \ {"idle", "finished"}
        /\ ~hadClient[w] /\ pc[w] \notin {"idle", "finished"}
    BY <1>1, <1>2, <1>6 DEF WorkerPositions, CachedClientServed
  <2>2. PlacesOK' /\ (\A d \in Callers : CallerInv(d)') /\ Cached' /\ CachedClientServed'
    BY <1>3, <1>8, <2>1, WorkerGoesOn
  <2>3. DataOK'
    BY <1>1, <1>3, <1>5, <1>8 DEF DataOK, BuilderTypeOK
  <2> QED BY <2>2, <2>3, TogetherNext
<1> QED BY <1>7, <1>8 DEF Err, Add

LEMMA ClientStep ==
  ASSUME IInv, NEW c \in Callers, NEW r \in Regions,
         Forget(<<c, r>>) \/ SetClient(<<c, r>>)
  PROVE  IInv'
<1> DEFINE w == <<c, r>>
           Failure == [err : Errors \ {"credential"}, fresh : BOOLEAN]
<1>1. DataOK /\ CachedClientServed
  BY Together
<1>2. w \in AllWorkers /\ job[w] \in Pairs
  BY <1>1, WorkerData
<1>3. /\ UNCHANGED <<job, err, defaultClient, credentials, builderLock>>
      /\ UNCHANGED <<roles, request, todo, poolLock, result, skipped, hadClient>>
      /\ clients' \in {clients, clients \cup {job[w]}}
      /\ pc[w] \in {"built", "set"}
  BY DEF Forget, SetClient, builderRest
<1>4. failures \in [Pairs -> Failure] /\ clients \subseteq Pairs
  BY <1>1 DEF DataOK
<1>5. failures' \in [Pairs -> Failure]
  <2>1. NoFailure \in Failure
    BY DEF NoFailure, Errors
  <2> HIDE DEF Failure
  <2>2. failures' = failures \/ failures' = [failures EXCEPT ![job[w]] = NoFailure]
    BY DEF Forget, SetClient
  <2> QED BY <1>2, <1>4, <2>1, <2>2
<1>6. DataOK'
  <2>1. clients' \subseteq Pairs
    BY <1>2, <1>3, <1>4
  <2> QED BY <1>1, <1>3, <1>5, <2>1 DEF DataOK, BuilderTypeOK
<1>7. PICK q \in {"set", "append"} : Goto(w, q) /\ (q = "append" => job[w] \in clients')
  BY DEF Forget, SetClient
<1>8. /\ q \in (WorkerPositions \cup BuilderPositions) \ {"idle", "finished"}
      /\ ~hadClient[w] /\ pc[w] \notin {"idle", "finished"} /\ clients \subseteq clients'
  BY <1>1, <1>2, <1>3 DEF WorkerPositions, CachedClientServed
<1>9. PlacesOK' /\ (\A d \in Callers : CallerInv(d)') /\ Cached' /\ CachedClientServed'
  BY <1>3, <1>7, <1>8, WorkerGoesOn
<1> QED BY <1>6, <1>9, TogetherNext

LEMMA AppendClientStep ==
  ASSUME IInv, NEW c \in Callers, NEW r \in Regions, AppendClient(<<c, r>>)
  PROVE  IInv'
<1> DEFINE w == <<c, r>>
<1>1. DataOK /\ Cached
  BY Together
<1>2. w \in AllWorkers /\ w[1] = c
  BY <1>1, WorkerData
<1>3. /\ pc[w] = "append" /\ Goto(w, "finished")
      /\ result' = [result EXCEPT ![c] = @ \cup {job[w]}]
      /\ UNCHANGED <<job, err, defaultClient, credentials, builderLock>>
      /\ UNCHANGED <<roles, request, todo, poolLock, clients, failures, skipped, hadClient>>
  BY <1>2 DEF AppendClient, builderRest
<1>4. job[w] \in clients
  BY <1>1, <1>2, <1>3 DEF Cached
<1>5. /\ PlacesOK' /\ (\A d \in Callers : CallerInv(d)') /\ Cached' /\ CachedClientServed'
      /\ result' \in [Callers -> SUBSET Pairs]
  BY <1>3, <1>4, WorkerEnds
<1>6. DataOK'
  BY <1>1, <1>3, <1>5 DEF DataOK, BuilderTypeOK
<1> QED BY <1>5, <1>6, TogetherNext

LEMMA OutliveStep ==
  ASSUME IInv, NEW x \in Pairs, Outlive(x)
  PROVE  IInv'
<1> DEFINE Failure == [err : Errors \ {"credential"}, fresh : BOOLEAN]
<1>1. /\ failures' = [failures EXCEPT ![x].fresh = FALSE]
      /\ UNCHANGED <<pc, job, err, defaultClient, credentials, builderLock>>
      /\ UNCHANGED <<roles, request, todo, poolLock, clients, result, skipped, hadClient>>
  BY DEF Outlive, builderVars
<1>2. DataOK /\ PlacesOK /\ Cached /\ CachedClientServed /\ \A c \in Callers : CallerInv(c)
  BY Together
<1>3. failures' \in [Pairs -> Failure]
  <2>1. failures \in [Pairs -> Failure]
    BY <1>2 DEF DataOK
  <2>2. \A f \in Failure : [f EXCEPT !.fresh = FALSE] \in Failure
    OBVIOUS
  <2> HIDE DEF Failure
  <2>3. failures' = [failures EXCEPT ![x] = [failures[x] EXCEPT !.fresh = FALSE]]
    BY <1>1
  <2> QED BY <2>1, <2>2, <2>3
<1>4. DataOK'
  BY <1>1, <1>2, <1>3 DEF DataOK, BuilderTypeOK
<1>5. \A c \in Callers : CallerInv(c)'
  BY <1>1, <1>2, CallerAlone
<1>6. PlacesOK' /\ Cached' /\ CachedClientServed'
  BY <1>1, <1>2 DEF PlacesOK, Cached, CachedClientServed
<1> QED BY <1>4, <1>5, <1>6, TogetherNext

-----------------------------------------------------------------------------
(* The invariant, and the properties that follow from it. *)

\* The initial states satisfy the inductive invariant.
THEOREM Initially == Init => IInv
<1> SUFFICES ASSUME Init PROVE IInv
  OBVIOUS
<1>1. /\ \A q \in Procs : pc[q] = "idle"
      /\ \A c \in Callers : pc[Self(c)] = "idle"
      /\ \A c \in Callers, r \in Regions : pc[<<c, r>>] = "idle"
      /\ \A w \in AllWorkers : pc[w] = "idle"
  BY Goroutines DEF Init
<1>2. TypeOK
  <2>1. (CHOOSE x \in Pairs : TRUE) \in Pairs
    <3>1. PICK r \in Regions : TRUE
      BY BuilderAssumption
    <3>2. <<LocalAccount, r>> \in Pairs
      BY <3>1, BuilderAssumption DEF Pairs
    <3> QED BY <3>2, Zenon
  <2>2. BuilderTypeOK
    BY <2>1 DEF Init, BuilderInit, BuilderTypeOK, Errors
  <2>3. failures \in [Pairs -> [err : Errors \ {"credential"}, fresh : BOOLEAN]]
    BY DEF Init, NoFailure, Errors
  <2>4. request \in [Callers -> Requests]
    BY PoolAssumption DEF Init
  <2> QED BY <1>1, <2>2, <2>3, <2>4 DEF Init, TypeOK, WorkerPositions, CallerPositions
<1>3. pc \in [Procs -> Positions]
  BY DEF Init, Positions, WorkerPositions
<1>4. ASSUME NEW c \in Callers
      PROVE  CallerInv(c)
  BY <1>1 DEF Init, CallerInv, InRequest, AtWork, Accounted, Early
<1>5. Cached /\ CachedClientServed
  BY <1>1 DEF Init, Cached, CachedClientServed
<1> QED BY <1>2, <1>3, <1>4, <1>5 DEF IInv

\* Every step of the callers and of their goroutines keeps the invariant.
THEOREM Consecution == IInv /\ [Next]_vars => IInv'
<1> SUFFICES ASSUME IInv, [Next]_vars PROVE IInv'
  OBVIOUS
<1>1. CASE UNCHANGED vars
  <2>1. /\ UNCHANGED <<pc, job, err, defaultClient, credentials, builderLock>>
        /\ UNCHANGED <<roles, request, todo, poolLock, clients, failures, result, skipped, hadClient>>
    BY <1>1 DEF vars, builderVars, poolVars
  <2>2. DataOK /\ PlacesOK /\ Cached /\ CachedClientServed /\ \A c \in Callers : CallerInv(c)
    BY Together
  <2>3. DataOK' /\ PlacesOK' /\ Cached' /\ CachedClientServed'
    BY <2>1, <2>2 DEF DataOK, BuilderTypeOK, PlacesOK, Cached, CachedClientServed
  <2>4. \A c \in Callers : CallerInv(c)'
    BY <2>1, <2>2, CallerAlone
  <2> QED BY <2>3, <2>4, TogetherNext
<1>2. ASSUME NEW c \in Callers, Caller(c)
      PROVE  IInv'
  BY <1>2, PoolAccountIDsStep, CheckAccountStep, CollectAccountStep, GetClientStep,
     CollectedStep, ListAccountIDsStep, AskDefaultClientStep DEF Caller
<1>3. ASSUME NEW w \in AllWorkers, Worker(w)
      PROVE  IInv'
  <2>1. PICK c \in Callers, r \in Regions : w = <<c, r>>
    BY Goroutines
  <2>2. Worker(<<c, r>>)
    BY <1>3, <2>1
  <2> QED BY <2>2, CachedClientStep, BuildStep, FailureStep, ClientStep,
             AppendClientStep DEF Worker
<1>4. ASSUME NEW x \in Pairs, Outlive(x)
      PROVE  IInv'
  BY <1>4, OutliveStep
<1> QED BY <1>1, <1>2, <1>3, <1>4 DEF Next

\* The inductive invariant holds in every reachable state.
THEOREM Invariance == Spec => []IInv
BY Initially, Consecution, PTL DEF Spec

\* The variables keep their types; among them, no credential failure is ever
\* remembered (failure_cache.go:27-31).
THEOREM TypeCorrect == Spec => []TypeOK
<1>1. IInv => TypeOK
  BY DEF IInv
<1> QED BY <1>1, Invariance, PTL

\* A GetClient that starts once its pair has a client is served from the cache
\* (failure_cache.go:67), whatever other goroutines do.
THEOREM CachedClientServedHolds == Spec => []CachedClientServed
<1>1. IInv => CachedClientServed
  BY DEF IInv
<1> QED BY <1>1, Invariance, PTL

\* When a sweep returns, each pair of its matrix was built or left out, never
\* both, what it got is cached and its goroutines have ended
\* (client_pool.go:115-116).
THEOREM MatrixCompleteHolds == Spec => []MatrixComplete
<1>1. IInv => MatrixComplete
  <2> SUFFICES ASSUME IInv, NEW c \in Callers, pc[Self(c)] = "returned",
                      request[c].op \in {"GetClients", "GetAccountClients"}
               PROVE  /\ result[c] \cup skipped[c] = Scope(c) \X request[c].regions
                      /\ result[c] \cap skipped[c] = {}
                      /\ result[c] \subseteq clients
                      /\ \A r \in request[c].regions : pc[<<c, r>>] = "finished"
    BY DEF MatrixComplete
  <2>1. DataOK /\ Cached /\ CallerInv(c)
    BY Together
  <2>2. request[c].regions \subseteq Regions /\ Scope(c) # {}
    BY <2>1, RequestParts
  <2>3. \A r \in Regions : pc[<<c, r>>] \in {"idle", "finished"}
    BY <2>1 DEF CallerInv, AtWork
  <2>4. Pending(c) = {}
    BY <2>3 DEF Pending
  <2>5. /\ todo[c] = {}
        /\ result[c] \cup skipped[c] = Begun(c) \ Pending(c)
        /\ result[c] \cap skipped[c] = {}
        /\ todo[c] # Scope(c) =>
             \A r \in request[c].regions : pc[<<c, r>>] # "idle"
    BY <2>1 DEF CallerInv, Accounted, Sweep
  <2>6. Begun(c) = Scope(c) \X request[c].regions
    BY <2>5 DEF Begun
  <2> QED BY <2>1, <2>2, <2>3, <2>4, <2>5, <2>6 DEF Cached
<1> QED BY <1>1, Invariance, PTL

\* No goroutine of GetAccountClients builds a client for another account, nor
\* for one the pool does not serve (client_pool.go:74-80).
THEOREM AccountScopedHolds == Spec => []AccountScoped
<1>1. IInv => AccountScoped
  <2> DEFINE served(c) == {request[c].account} \cap AccountIDs
             building == {"build", "built", "set"} \cup BuilderPositions
  <2> SUFFICES ASSUME IInv, NEW c \in Callers, request[c].op = "GetAccountClients"
               PROVE  /\ \A w \in Workers(c) : pc[w] \in building => job[w][1] \in served(c)
                      /\ \A x \in result[c] : x[1] \in served(c)
    BY DEF AccountScoped
  <2>1. CallerInv(c) /\ Sweep(c) /\ Scope(c) = {request[c].account}
    BY Together DEF Sweep, Scope
  <2>2. CASE pc[Self(c)] \in {"collect", "wait", "returned"}
    <3>1. /\ request[c].account \in AccountIDs
          /\ Pending(c) \subseteq Begun(c) /\ result[c] \subseteq Begun(c)
      BY <2>1, <2>2 DEF CallerInv, Accounted
    <3>2. \A x \in Begun(c) : x[1] \in served(c)
      BY <2>1, <3>1 DEF Begun
    <3>3. ASSUME NEW r \in Regions, pc[<<c, r>>] \in building
          PROVE  <<job[<<c, r>>][1], r>> \in Pending(c)
      BY <3>3 DEF Pending, BuilderPositions
    <3>4. ASSUME NEW w \in Workers(c), pc[w] \in building
          PROVE  job[w][1] \in served(c)
      <4>1. PICK r \in Regions : w = <<c, r>>
        BY DEF Workers
      <4>2. <<job[w][1], r>> \in Begun(c)
        BY <3>1, <3>3, <3>4, <4>1
      <4> QED BY <3>2, <4>2
    <3> QED BY <3>1, <3>2, <3>4
  <2>3. CASE pc[Self(c)] \notin {"collect", "wait", "returned"}
    <3>1. result[c] = {} /\ \A r \in Regions : pc[<<c, r>>] = "idle"
      BY <2>1, <2>3 DEF CallerInv, InRequest
    <3> QED BY <3>1 DEF Workers, BuilderPositions
  <2> QED BY <2>2, <2>3
<1> QED BY <1>1, Invariance, PTL

=============================================================================
