------------------------- MODULE ResourceCycleProofs -------------------------
(***************************************************************************)
(* Proofs about ResourceCycle and the choice of gateways it rests on, for   *)
(* every set of accounts and regions, any lists of gateways and of types    *)
(* and any number of calls of Serve.                                        *)
(***************************************************************************)
EXTENDS ResourceCycle, WellFoundedInduction, TLAPS

-----------------------------------------------------------------------------
(* The gateways selected for a global type. *)

LEMMA LeastNumber ==
  ASSUME NEW T, T \subseteq Nat, T # {}
  PROVE  \E x \in T : \A y \in T : ~(y < x)
<1> DEFINE R == OpToRel(<, Nat)
<1>1. IsWellFoundedOn(R, Nat)
  BY NatLessThanWellFounded
<1>2. \A x, y \in Nat : y < x => <<y, x>> \in R
  BY DEF OpToRel
<1> HIDE DEF R
<1>3. PICK x \in T : \A y \in T : ~(<<y, x>> \in R)
  BY <1>1, WFMin
<1> QED BY <1>2, <1>3

LEMMA PairsAreEqual ==
  ASSUME NEW x \in Pairs, NEW y \in Pairs, x.account = y.account,
         x.region = y.region
  PROVE  x = y
BY DEF Pairs

\* No account has two of the first gateways, and every account has one.
LEMMA FirstOfEachAccount ==
  ASSUME NEW gw \in Seq(Pairs)
  PROVE  /\ FirstOfAccount(gw) \subseteq Range(gw)
         /\ \A g, h \in FirstOfAccount(gw) : g.account = h.account => g = h
         /\ \A g \in Range(gw) : \E h \in FirstOfAccount(gw) : h.account = g.account
<1> DEFINE First(j) == \A k \in 1 .. (j - 1) : gw[k].account # gw[j].account
<1>1. Len(gw) \in Nat /\ DOMAIN gw = 1 .. Len(gw)
  OBVIOUS
<1>2. \A x : x \in FirstOfAccount(gw) <=>
               \E j \in DOMAIN gw : First(j) /\ x = gw[j]
  BY DEF FirstOfAccount
<1>3. FirstOfAccount(gw) \subseteq Range(gw)
  BY <1>2 DEF Range
<1>4. ASSUME NEW g \in FirstOfAccount(gw), NEW h \in FirstOfAccount(gw),
             g.account = h.account
      PROVE  g = h
  <2>1. PICK i \in DOMAIN gw : First(i) /\ g = gw[i]
    BY <1>2
  <2>2. PICK j \in DOMAIN gw : First(j) /\ h = gw[j]
    BY <1>2
  <2>3. i \in Nat /\ j \in Nat /\ i >= 1 /\ j >= 1
    BY <1>1
  <2>4. ~(i < j)
    BY <1>4, <2>1, <2>2, <2>3
  <2>5. ~(j < i)
    BY <1>4, <2>1, <2>2, <2>3
  <2> QED BY <2>1, <2>2, <2>3, <2>4, <2>5
<1>5. ASSUME NEW g \in Range(gw)
      PROVE  \E h \in FirstOfAccount(gw) : h.account = g.account
  <2> DEFINE T == {j \in DOMAIN gw : gw[j].account = g.account}
  <2>1. T \subseteq Nat /\ T # {}
    BY <1>1 DEF Range
  <2>2. PICK j \in T : \A k \in T : ~(k < j)
    BY <2>1, LeastNumber
  <2>3. First(j)
    BY <1>1, <2>2
  <2> QED BY <1>2, <2>2, <2>3
<1> QED BY <1>3, <1>4, <1>5

LEMMA GlobalGateways ==
  ASSUME NEW gw \in Seq(Pairs)
  PROVE  /\ OfGlobal(gw) \subseteq Range(gw)
         /\ \A g, h \in OfGlobal(gw) : g.account = h.account => g = h
         /\ \A g \in Range(gw) :
              \/ \E h \in OfGlobal(gw) : h.account = g.account
              \/ \E r \in {UsEast1, EuCentral1} :
                   /\ \E h \in OfGlobal(gw) : h.region = r
                   /\ [account |-> g.account, region |-> r] \notin Range(gw)
<1>1. Range(gw) \subseteq Pairs
  BY DEF Range
<1>2. ASSUME NEW r, OfGlobal(gw) = InRegion(gw, r), InRegion(gw, r) # {},
             r \in {UsEast1, EuCentral1}
      PROVE  /\ OfGlobal(gw) \subseteq Range(gw)
             /\ \A g, h \in OfGlobal(gw) : g.account = h.account => g = h
             /\ \A g \in Range(gw) :
                  \/ \E h \in OfGlobal(gw) : h.account = g.account
                  \/ /\ \E h \in OfGlobal(gw) : h.region = r
                     /\ [account |-> g.account, region |-> r] \notin Range(gw)
  <2>1. \A g, h \in OfGlobal(gw) : g.account = h.account => g = h
    BY <1>1, <1>2, PairsAreEqual DEF InRegion
  <2>2. ASSUME NEW g \in Range(gw),
               [account |-> g.account, region |-> r] \in Range(gw)
        PROVE  \E h \in OfGlobal(gw) : h.account = g.account
    BY <1>2, <2>2 DEF InRegion
  <2>3. \E h \in OfGlobal(gw) : h.region = r
    BY <1>2 DEF InRegion
  <2> QED BY <1>2, <2>1, <2>2, <2>3 DEF InRegion
<1>3. CASE InRegion(gw, UsEast1) # {}
  <2>1. OfGlobal(gw) = InRegion(gw, UsEast1)
    BY <1>3 DEF OfGlobal
  <2> QED BY <1>2, <1>3, <2>1
<1>4. CASE InRegion(gw, UsEast1) = {} /\ InRegion(gw, EuCentral1) # {}
  <2>1. OfGlobal(gw) = InRegion(gw, EuCentral1)
    BY <1>4 DEF OfGlobal
  <2> QED BY <1>2, <1>4, <2>1
<1>5. CASE InRegion(gw, UsEast1) = {} /\ InRegion(gw, EuCentral1) = {}
  <2>1. OfGlobal(gw) = FirstOfAccount(gw)
    BY <1>5 DEF OfGlobal
  <2> QED BY <2>1, FirstOfEachAccount
<1> QED BY <1>3, <1>4, <1>5

-----------------------------------------------------------------------------
(* The inductive invariant. *)

\* A provider asks the gateways selected for its type.
Selected == \A t \in DOMAIN providers : providers[t] = List(gateways, t)

\* How many of the types asked for have been stored in the current Serve.
Reached ==
  IF pc \in {"next", "handle", "flushing"} THEN at - 1
  ELSE IF pc = "next handler" THEN at
  ELSE IF result = "nil" THEN Len(asked) ELSE at

\* The pool holds listings of the current Serve for exactly those types.
StoredSoFar ==
  /\ \A t \in Watched : pool[t].serve <= serves
  /\ \A t \in Watched : pool[t].serve = 0 => pool[t].count = NothingFound
  /\ pc # "idle" => serves > 0
  /\ serves > 0 =>
       \A t \in Watched :
         pool[t].serve = serves <=> \E i \in 1 .. Reached : asked[i] = t

\* Unless its type is disturbed, an updater is alone and has the pool's counts;
\* the gauges it need not set any more show them.
GaugesFollow ==
  \A t \in Watched \ disturbed :
    /\ \A u, v \in Running(t) : u = v
    /\ \A u \in Running(t) :
         u.pc = "setting" =>
           /\ u.count = pool[t].count
           /\ \A x \in Pairs : pool[t].count[x] # 0 =>
                x \in u.todo \/ gauge[t][x] = pool[t].count[x]

IInv ==
  /\ TypeOK
  /\ Selected
  /\ StoredSoFar
  /\ GaugesFollow
  /\ GaugeShowsPool

-----------------------------------------------------------------------------
(* What the steps of Serve do to each part. *)

LEMMA NothingIsCount == NothingFound \in Count
BY CycleAssumption DEF NothingFound, Count

\* The initial states satisfy the inductive invariant.
THEOREM Initially == Init => IInv
<1> SUFFICES ASSUME Init PROVE IInv
  OBVIOUS
<1>1. /\ NotStored \in Stored /\ NothingFound \in Count
      /\ \A t \in Watched : pool[t] = NotStored
      /\ NotStored.serve = 0 /\ NotStored.count = NothingFound
  BY NothingIsCount, CycleAssumption DEF NotStored, Stored, Init
<1>2. TypeOK
  <2>1. pool \in [Watched -> Stored] /\ gauge \in [Watched -> Count]
    BY <1>1 DEF Init
  <2>2. asked \in Seq(Watched) /\ at \in 1 .. (Len(asked) + 1)
    BY DEF Init
  <2>3. 0 \in 0 .. MaxServes
    BY CycleAssumption
  <2>4. providers = <<>> /\ DOMAIN providers = {}
    BY DEF Init
  <2> QED BY <1>1, <2>1, <2>2, <2>3, <2>4 DEF Init, TypeOK
<1>3. Selected
  BY DEF Init, Selected
<1>4. StoredSoFar
  BY <1>1 DEF Init, StoredSoFar
<1>5. GaugesFollow
  BY DEF Init, GaugesFollow, Running
<1>6. GaugeShowsPool
  BY <1>1 DEF Init, GaugeShowsPool, NothingFound
<1> QED BY <1>2, <1>3, <1>4, <1>5, <1>6 DEF IInv

\* Steps of Serve that leave the middleware alone.
LEMMA GaugesAlone ==
  ASSUME IInv, UNCHANGED <<pool, updaters, gauge, disturbed>>
  PROVE  GaugesFollow' /\ GaugeShowsPool'
BY DEF IInv, GaugesFollow, GaugeShowsPool, Running

LEMMA StoredServes ==
  ASSUME TypeOK
  PROVE  \A t \in Watched : /\ pool[t] \in Stored
                            /\ pool[t].serve \in 0 .. MaxServes
                            /\ pool[t].serve \in Nat
                            /\ pool[t].count \in Count
<1>1. \A t \in Watched : pool[t] \in Stored
  BY DEF TypeOK
<1>2. \A s \in Stored : s.serve \in 0 .. MaxServes /\ s.count \in Count
  BY DEF Stored
<1>3. 0 .. MaxServes \subseteq Nat
  BY CycleAssumption
<1> QED BY <1>1, <1>2, <1>3

\* Where Serve is, as numbers.
LEMMA Place ==
  ASSUME TypeOK
  PROVE  /\ asked \in Seq(Watched) /\ Len(asked) \in Nat
         /\ at \in Nat /\ 1 <= at /\ at <= Len(asked) + 1
         /\ serves \in Nat
<1>1. asked \in Seq(Watched) /\ at \in 1 .. (Len(asked) + 1) /\ serves \in 0 .. MaxServes
  BY DEF TypeOK
<1>2. Len(asked) \in Nat
  BY <1>1
<1> QED BY <1>1, <1>2, CycleAssumption

LEMMA ServeStep ==
  ASSUME IInv, NEW types \in Asks, Serve(types)
  PROVE  IInv'
<1> USE DEF IInv
<1>1. types \in Seq(Watched)
  BY CycleAssumption
<1>2. /\ pc = "idle" /\ serves < MaxServes /\ serves' = serves + 1
      /\ pc' = "next" /\ asked' = types /\ at' = 1 /\ result' = "none"
      /\ UNCHANGED <<poolVars, providers, reader, pool, updaters, gauge,
                     disturbed, crashed>>
  BY DEF Serve
<1>3. serves \in Nat /\ serves' \in 0 .. MaxServes
  BY <1>2, CycleAssumption DEF TypeOK
<1>4. TypeOK'
  <2>1. Len(types) \in Nat /\ at' \in 1 .. (Len(asked') + 1)
    BY <1>1, <1>2
  <2> QED BY <1>1, <1>2, <1>3, <2>1 DEF TypeOK, poolVars
<1>5. Selected'
  BY <1>2 DEF Selected, poolVars
<1>6. StoredSoFar'
  <2>1. \A t \in Watched : pool[t].serve \in Nat /\ pool[t].serve <= serves
    BY StoredServes DEF StoredSoFar
  <2>2. \A t \in Watched : pool'[t].serve # serves'
    BY <1>2, <1>3, <2>1
  <2>3. Reached' = 0
    BY <1>2 DEF Reached
  <2> QED BY <1>2, <1>3, <2>1, <2>2, <2>3 DEF StoredSoFar
<1> QED BY <1>2, <1>4, <1>5, <1>6, GaugesAlone

LEMMA RunProviderStep ==
  ASSUME IInv, RunProvider
  PROVE  IInv'
<1> USE DEF IInv
<1> DEFINE t == asked[at]
<1>1. /\ pc = "next" /\ at <= Len(asked) /\ pc' = "handle"
      /\ providers' = [u \in DOMAIN providers \cup {t} |->
                         IF u = t THEN Provider(t) ELSE providers[u]]
      /\ reader' \in Listings(t, Provider(t))
      /\ UNCHANGED <<poolVars, asked, at, serves, result, pool, updaters, gauge,
                     disturbed, crashed>>
  BY DEF RunProvider
<1>2. t \in Watched /\ at \in Nat /\ at >= 1
  BY <1>1 DEF TypeOK
<1> HIDE DEF t
<1>3. Provider(t) = List(gateways, t)
  BY DEF Provider, Selected
<1>4. gateways \in Seq(Pairs)
  BY CycleAssumption DEF TypeOK
<1>5. List(gateways, t) \subseteq Pairs
  BY <1>4, GlobalGateways DEF List, Range
<1>6. TypeOK'
  <2>1. DOMAIN providers' \subseteq Watched
    BY <1>1, <1>2 DEF TypeOK
  <2>2. \A u \in DOMAIN providers' : providers'[u] \subseteq Pairs
    BY <1>1, <1>3, <1>5 DEF TypeOK
  <2>3. reader' \in Count
    BY <1>1 DEF Listings
  <2>4. /\ at' \in 1 .. (Len(asked') + 1) /\ at' <= Len(asked')
        /\ asked' \in Seq(Watched)
    BY <1>1 DEF TypeOK
  <2> QED BY <1>1, <2>1, <2>2, <2>3, <2>4 DEF TypeOK, poolVars
<1>7. Selected'
  BY <1>1, <1>3 DEF Selected, poolVars
<1>8. StoredSoFar'
  <2>1. Reached' = Reached
    BY <1>1 DEF Reached
  <2> QED BY <1>1, <2>1 DEF StoredSoFar
<1> QED BY <1>1, <1>6, <1>7, <1>8, GaugesAlone

\* Serve goes to the next type, ends with an error, or has reached the end.
LEMMA ControlStep ==
  ASSUME IInv, ServeReturns \/ FlushBegins \/ NextHandler
  PROVE  IInv'
<1> USE DEF IInv
<1>1. UNCHANGED <<poolVars, providers, asked, serves, reader, pool, updaters,
                  gauge, disturbed, crashed>>
  BY DEF ServeReturns, FlushBegins, NextHandler
<1>2. Selected'
  BY <1>1 DEF Selected, poolVars
<1>3. /\ Len(asked) \in Nat /\ at \in Nat /\ 1 <= at /\ at <= Len(asked) + 1
  BY Place
<1>4. /\ at' \in 1 .. (Len(asked) + 1)
      /\ pc' \in {"idle", "next", "handle", "flushing", "next handler"}
      /\ pc' \in {"handle", "flushing", "next handler"} => at' <= Len(asked)
      /\ result' \in {"none", "nil", "error"}
      /\ pc # "idle"
      /\ Reached' = Reached
  <2>1. CASE ServeReturns
    <3>1. /\ pc = "next" /\ pc' = "idle" /\ at' = at /\ result' = "nil"
          /\ at > Len(asked)
      BY <1>1, <2>1 DEF ServeReturns
    <3> QED BY <1>1, <1>3, <3>1 DEF Reached
  <2>2. CASE FlushBegins
    <3>1. pc = "handle" /\ pc' = "flushing" /\ at' = at /\ result' = result
      BY <1>1, <2>2 DEF FlushBegins
    <3> QED BY <1>1, <1>3, <3>1 DEF Reached, TypeOK
  <2>3. CASE NextHandler
    <3>1. /\ pc = "next handler"
          /\ \/ pc' = "next" /\ at' = at + 1 /\ result' = result
             \/ pc' = "idle" /\ result' = "error" /\ at' = at
      BY <1>1, <2>3 DEF NextHandler
    <3>2. at <= Len(asked) /\ result \in {"none", "nil", "error"}
      BY <3>1 DEF TypeOK
    <3>3. Reached = at
      BY <3>1 DEF Reached
    <3>4. CASE pc' = "next" /\ at' = at + 1 /\ result' = result
      <4>1. Reached' = at
        BY <1>3, <3>4 DEF Reached
      <4>2. at' \in 1 .. (Len(asked) + 1)
        BY <1>3, <3>2, <3>4
      <4> QED BY <3>1, <3>2, <3>3, <3>4, <4>1, <4>2
    <3>5. CASE pc' = "idle" /\ result' = "error" /\ at' = at
      <4>1. Reached' = at
        BY <3>5 DEF Reached
      <4>2. at' \in 1 .. (Len(asked) + 1)
        BY <1>3, <3>2, <3>5
      <4> QED BY <3>1, <3>2, <3>3, <3>5, <4>1, <4>2
    <3> QED BY <3>1, <3>4, <3>5
  <2> QED BY <2>1, <2>2, <2>3
<1>5. TypeOK'
  BY <1>1, <1>4 DEF TypeOK, poolVars
<1>6. StoredSoFar'
  BY <1>1, <1>4 DEF StoredSoFar
<1> QED BY <1>1, <1>2, <1>5, <1>6, GaugesAlone

-----------------------------------------------------------------------------
(* The middleware: flush, and the goroutines of updateMetrics. *)

LEMMA FlushEndsStep ==
  ASSUME IInv, FlushEnds
  PROVE  IInv'
<1> DEFINE t == asked[at]
           new == [count |-> reader, serve |-> serves]
<1>1. /\ pc = "flushing" /\ pc' = "next handler"
      /\ pool' = [pool EXCEPT ![t] = new]
      /\ updaters' = updaters \cup {Started(t)}
      /\ disturbed' = IF Running(t) = {} THEN disturbed \ {t}
                      ELSE disturbed \cup {t}
      /\ UNCHANGED <<poolVars, providers, asked, at, serves, result, reader,
                     gauge, crashed>>
  BY DEF FlushEnds
<1>2. /\ TypeOK /\ Selected /\ StoredSoFar /\ GaugesFollow /\ GaugeShowsPool
  BY DEF IInv
<1>3. /\ at \in Nat /\ serves \in Nat /\ Len(asked) \in Nat
      /\ 1 <= at /\ at <= Len(asked) /\ asked \in Seq(Watched)
  BY <1>1, <1>2, Place DEF TypeOK
<1>4. t \in Watched
  BY <1>3
<1>5. new \in Stored /\ new.count = reader /\ new.serve = serves
  BY <1>2 DEF TypeOK, Stored
<1>6. Started(t) \in Updater
  <2>1. NothingFound \in Count /\ <<serves, at>> \in Nat \X Nat
    BY <1>3, NothingIsCount
  <2> QED BY <1>4, <2>1 DEF Started, Updater
<1>7. Started(t).type = t /\ Started(t).pc = "started"
  BY DEF Started
<1>8. /\ pool \in [Watched -> Stored] /\ updaters \subseteq Updater
      /\ disturbed \subseteq Watched
  BY <1>2 DEF TypeOK
<1>9. asked[at] = t
  OBVIOUS
<1> HIDE DEF t, new
<1>10. /\ pool'[t] = new
       /\ \A u \in Watched : u # t => pool'[u] = pool[u]
       /\ pool' \in [Watched -> Stored]
  BY <1>1, <1>4, <1>5, <1>8
<1>11. TypeOK'
  <2>1. updaters' \subseteq Updater /\ disturbed' \subseteq Watched
    BY <1>1, <1>4, <1>6, <1>8
  <2>2. at' \in 1 .. (Len(asked') + 1) /\ at' <= Len(asked')
    <3>1. at' = at /\ asked' = asked
      BY <1>1
    <3>2. at \in 1 .. (Len(asked) + 1) /\ at <= Len(asked)
      BY <1>3
    <3> QED BY <3>1, <3>2
  <2> QED BY <1>1, <1>2, <1>10, <2>1, <2>2 DEF TypeOK, poolVars
<1>12. Selected'
  BY <1>1, <1>2 DEF Selected, poolVars
<1>13. StoredSoFar'
  <2>1. serves > 0
    BY <1>1, <1>2 DEF StoredSoFar
  <2>2. Reached = at - 1 /\ Reached' = at
    BY <1>1 DEF Reached
  <2>3. \A u \in Watched : pool'[u].serve <= serves
    BY <1>2, <1>3, <1>5, <1>10 DEF StoredSoFar
  <2>4. \A u \in Watched : pool'[u].serve = 0 => pool'[u].count = NothingFound
    BY <1>2, <1>5, <1>10, <2>1 DEF StoredSoFar
  <2>5. ASSUME NEW u \in Watched
        PROVE  pool'[u].serve = serves <=> \E i \in 1 .. at : asked[i] = u
    <3>1. CASE u = t
      BY <1>3, <1>5, <1>9, <1>10, <3>1
    <3>2. CASE u # t
      <4>1. pool[u].serve = serves <=> \E i \in 1 .. (at - 1) : asked[i] = u
        BY <1>2, <2>1, <2>2 DEF StoredSoFar
      <4>2. (\E i \in 1 .. (at - 1) : asked[i] = u) <=> (\E i \in 1 .. at : asked[i] = u)
        BY <1>3, <1>9, <3>2
      <4> QED BY <1>10, <3>2, <4>1, <4>2
    <3> QED BY <3>1, <3>2
  <2> QED BY <1>1, <2>1, <2>2, <2>3, <2>4, <2>5 DEF StoredSoFar
<1>14. ASSUME NEW u \in Watched
       PROVE  Running(u)' = IF u = t THEN Running(u) \cup {Started(t)} ELSE Running(u)
  <2>1. updaters' = updaters \cup {Started(t)}
    BY <1>1
  <2> QED BY <1>7, <2>1 DEF Running
<1>15. ASSUME NEW u \in Watched \ disturbed', u = t
       PROVE  Running(u)' = {Started(t)}
  <2>1. Running(t) = {}
    BY <1>1, <1>15
  <2> QED BY <1>14, <1>15, <2>1
<1>16. ASSUME NEW u \in Watched \ disturbed', u # t
       PROVE  u \in Watched \ disturbed /\ Running(u)' = Running(u)
  <2>1. u \notin disturbed
    BY <1>1, <1>16
  <2> QED BY <1>14, <1>16, <2>1
<1>17. GaugesFollow'
  <2>1. ASSUME NEW u \in Watched \ disturbed'
        PROVE  /\ \A v, w \in Running(u)' : v = w
               /\ \A v \in Running(u)' :
                    v.pc = "setting" =>
                      /\ v.count = pool'[u].count
                      /\ \A x \in Pairs : pool'[u].count[x] # 0 =>
                           x \in v.todo \/ gauge'[u][x] = pool'[u].count[x]
    <3>1. CASE u = t
      <4>1. Running(u)' = {Started(t)}
        BY <1>15, <2>1, <3>1
      <4> QED BY <1>7, <4>1
    <3>2. CASE u # t
      <4>1. u \in Watched \ disturbed /\ Running(u)' = Running(u)
        BY <1>16, <2>1, <3>2
      <4>2. pool'[u] = pool[u] /\ gauge' = gauge
        BY <1>1, <1>10, <3>2, <4>1
      <4> QED BY <1>2, <4>1, <4>2 DEF GaugesFollow
    <3> QED BY <3>1, <3>2
  <2> QED BY <2>1 DEF GaugesFollow
<1>18. GaugeShowsPool'
  <2>1. ASSUME NEW u \in Watched \ disturbed', Running(u)' = {}
        PROVE  \A x \in Pairs : pool'[u].count[x] # 0 => gauge'[u][x] = pool'[u].count[x]
    <3>1. u # t
      BY <1>15, <2>1
    <3>2. u \in Watched \ disturbed /\ Running(u)' = Running(u)
      BY <1>16, <2>1, <3>1
    <3>3. pool'[u] = pool[u] /\ gauge' = gauge
      BY <1>1, <1>10, <3>1, <3>2
    <3> QED BY <1>2, <2>1, <3>2, <3>3 DEF GaugeShowsPool
  <2> QED BY <2>1 DEF GaugeShowsPool
<1> QED BY <1>11, <1>12, <1>13, <1>17, <1>18 DEF IInv

-----------------------------------------------------------------------------
(* The goroutines of updateMetrics. *)

\* What an updater's step leaves of the other types, and what it has to keep of
\* its own unless that is disturbed.
OwnTypeFollows(t) ==
  /\ \A v, w \in Running(t) : v = w
  /\ \A v \in Running(t) :
       v.pc = "setting" =>
         /\ v.count = pool[t].count
         /\ \A x \in Pairs : pool[t].count[x] # 0 =>
              x \in v.todo \/ gauge[t][x] = pool[t].count[x]
  /\ Running(t) = {} =>
       \A x \in Pairs : pool[t].count[x] # 0 => gauge[t][x] = pool[t].count[x]

LEMMA OwnAndOtherTypes ==
  ASSUME IInv, NEW type \in Watched, pool' = pool, disturbed \subseteq disturbed',
         \A t \in Watched \ {type} :
           gauge'[t] = gauge[t] /\ Running(t)' = Running(t),
         type \in disturbed' \/ OwnTypeFollows(type)'
  PROVE  GaugesFollow' /\ GaugeShowsPool'
<1>1. \A t \in Watched \ disturbed : OwnTypeFollows(t)
  BY DEF IInv, GaugesFollow, GaugeShowsPool, OwnTypeFollows
<1>2. ASSUME NEW t \in Watched \ disturbed'
      PROVE  OwnTypeFollows(t)'
  <2>1. CASE t = type
    BY <1>2, <2>1
  <2>2. CASE t # type
    <3>1. OwnTypeFollows(t)
      BY <1>1, <1>2
    <3>2. gauge'[t] = gauge[t] /\ Running(t)' = Running(t)
      BY <1>2, <2>2
    <3> QED BY <3>1, <3>2 DEF OwnTypeFollows
  <2> QED BY <2>1, <2>2
<1> QED BY <1>2 DEF OwnTypeFollows, GaugesFollow, GaugeShowsPool

\* An updater's step leaves Serve and the pool alone.
LEMMA ServeAndPoolAlone ==
  ASSUME IInv, UNCHANGED <<poolVars, serveVars, pool>>,
         updaters' \subseteq Updater, gauge' \in [Watched -> Count],
         disturbed' \subseteq Watched, crashed' \in BOOLEAN
  PROVE  TypeOK' /\ Selected' /\ StoredSoFar'
<1>1. /\ UNCHANGED <<gateways, kind, providers, pc, asked, at, serves, result>>
      /\ UNCHANGED <<reader, pool>>
  BY DEF poolVars, serveVars
<1>2. TypeOK'
  BY <1>1 DEF IInv, TypeOK
<1>3. Selected'
  BY <1>1 DEF IInv, Selected
<1>4. Reached' = Reached
  BY <1>1 DEF Reached
<1>5. StoredSoFar'
  BY <1>1, <1>4 DEF IInv, StoredSoFar
<1> QED BY <1>2, <1>3, <1>5

\* The updaters after one has gone on with a list and the gauges left.
LEMMA GoneOn ==
  ASSUME updaters \subseteq Updater, NEW u \in updaters, NEW count \in Count,
         NEW todo \in SUBSET Pairs, GoesOn(u, count, todo)
  PROVE  /\ updaters' \subseteq Updater
         /\ \A t \in Watched \ {u.type} : Running(t)' = Running(t)
         /\ (\A v, w \in Running(u.type) : v = w) =>
              /\ todo = {} => Running(u.type)' = {}
              /\ todo # {} =>
                   \E v : /\ Running(u.type)' = {v}
                          /\ v.pc = "setting" /\ v.count = count
                          /\ v.todo = todo
<1> DEFINE v == [u EXCEPT !.pc = "setting", !.count = count, !.todo = todo]
           type == u.type
<1>1. v \in Updater /\ v.type = type
  BY DEF Updater
<1>2. v.pc = "setting" /\ v.count = count /\ v.todo = todo
  BY DEF Updater
<1>3. updaters' = (updaters \ {u}) \cup {w \in {v} : todo # {}}
  BY DEF GoesOn
<1>4. type = u.type
  OBVIOUS
<1> HIDE DEF v, type
<1>5. updaters' \subseteq Updater
  BY <1>1, <1>3
<1>6. \A t \in Watched \ {type} : Running(t)' = Running(t)
  BY <1>1, <1>3, <1>4 DEF Running
<1>7. ASSUME \A x, y \in Running(type) : x = y
      PROVE  {w \in updaters' : w.type = type} = {w \in {v} : todo # {}}
  BY <1>1, <1>3, <1>4, <1>7 DEF Running
<1> QED BY <1>1, <1>2, <1>4, <1>5, <1>6, <1>7 DEF Running

LEMMA UpdaterParts ==
  ASSUME NEW u \in Updater
  PROVE  u.type \in Watched /\ u.count \in Count /\ u.todo \in SUBSET Pairs
BY DEF Updater

\* An updater that finds no entry deletes the gauges and ends.
LEMMA NoEntryLeaves ==
  ASSUME TypeOK, NEW u \in updaters, NoEntry(u)
  PROVE  /\ updaters' \subseteq Updater
         /\ gauge' \in [Watched -> Count]
         /\ \A t \in Watched \ {u.type} :
              gauge'[t] = gauge[t] /\ Running(t)' = Running(t)
         /\ (\A v, w \in Running(u.type) : v = w) => Running(u.type)' = {}
<1> DEFINE type == u.type
<1>1. /\ updaters' = updaters \ {u}
      /\ gauge' = [gauge EXCEPT ![type] = NothingFound]
  BY DEF NoEntry
<1>2. /\ updaters \subseteq Updater /\ gauge \in [Watched -> Count]
  BY DEF TypeOK
<1>3. type = u.type
  OBVIOUS
<1> HIDE DEF type
<1>4. gauge' \in [Watched -> Count] /\ \A t \in Watched \ {type} : gauge'[t] = gauge[t]
  BY <1>1, <1>2, NothingIsCount
<1>5. \A t \in Watched \ {type} : Running(t)' = Running(t)
  BY <1>1, <1>3 DEF Running
<1>6. ASSUME \A x, y \in Running(type) : x = y
      PROVE  {w \in updaters' : w.type = type} = {}
  BY <1>1, <1>3, <1>6 DEF Running
<1> QED BY <1>1, <1>2, <1>3, <1>4, <1>5, <1>6 DEF Running

LEMMA ReadPoolStep ==
  ASSUME IInv, NEW u \in updaters, ReadPool(u)
  PROVE  IInv'
<1> DEFINE type == u.type
           count == pool[type].count
           todo == ToSet(count)
<1>1. /\ UNCHANGED <<poolVars, serveVars, pool, disturbed, crashed>>
      /\ \/ /\ pool[type].serve # 0
            /\ GoesOn(u, count, todo)
            /\ UNCHANGED gauge
         \/ pool[type].serve = 0 /\ NoEntry(u)
  BY DEF ReadPool
<1>2. /\ TypeOK /\ StoredSoFar /\ GaugesFollow
      /\ updaters \subseteq Updater /\ gauge \in [Watched -> Count]
      /\ disturbed \subseteq Watched /\ crashed \in BOOLEAN
  BY DEF IInv, TypeOK
<1>3. type \in Watched /\ count \in Count /\ todo \in SUBSET Pairs
  BY <1>2, UpdaterParts, StoredServes DEF ToSet
<1>4. \A x \in Pairs : x \in todo <=> count[x] # 0
  BY DEF ToSet
<1>5. type \in disturbed \/ \A v, w \in Running(type) : v = w
  BY <1>2, <1>3 DEF GaugesFollow
<1>6. /\ updaters' \subseteq Updater /\ gauge' \in [Watched -> Count]
      /\ \A t \in Watched \ {type} :
           gauge'[t] = gauge[t] /\ Running(t)' = Running(t)
      /\ type \in disturbed' \/ OwnTypeFollows(type)'
  <2>1. CASE pool[type].serve # 0 /\ GoesOn(u, count, todo) /\ UNCHANGED gauge
    <3> HIDE DEF todo, count
    <3>1. /\ updaters' \subseteq Updater
          /\ \A t \in Watched \ {type} : Running(t)' = Running(t)
          /\ (\A v, w \in Running(type) : v = w) =>
               /\ todo = {} => Running(type)' = {}
               /\ todo # {} =>
                    \E v : /\ Running(type)' = {v}
                           /\ v.pc = "setting" /\ v.count = count
                           /\ v.todo = todo
      BY <1>2, <1>3, <2>1, GoneOn
    <3>2. pool' = pool
      BY <1>1
    <3>3. ASSUME \A v, w \in Running(type) : v = w
          PROVE  OwnTypeFollows(type)'
      <4>1. pool'[type].count = count
        BY <3>2 DEF count
      <4>2. CASE todo = {}
        BY <1>4, <3>1, <3>3, <4>1, <4>2 DEF OwnTypeFollows
      <4>3. CASE todo # {}
        BY <1>4, <3>1, <3>3, <4>1, <4>3 DEF OwnTypeFollows
      <4> QED BY <4>2, <4>3
    <3> QED BY <1>1, <1>2, <1>5, <2>1, <3>1, <3>3
  <2>2. CASE pool[type].serve = 0 /\ NoEntry(u)
    <3>1. /\ updaters' \subseteq Updater /\ gauge' \in [Watched -> Count]
          /\ \A t \in Watched \ {type} :
               gauge'[t] = gauge[t] /\ Running(t)' = Running(t)
          /\ (\A v, w \in Running(type) : v = w) => Running(type)' = {}
      BY <1>2, <2>2, NoEntryLeaves
    <3>2. pool'[type].count = NothingFound
      BY <1>1, <1>2, <1>3, <2>2 DEF StoredSoFar
    <3>3. \A x \in Pairs : pool'[type].count[x] = 0
      BY <3>2 DEF NothingFound
    <3>4. Running(type)' = {} => OwnTypeFollows(type)'
      BY <3>3 DEF OwnTypeFollows
    <3> QED BY <1>1, <1>5, <3>1, <3>4
  <2> QED BY <1>1, <2>1, <2>2
<1>7. disturbed' = disturbed /\ pool' = pool /\ crashed' = crashed
  BY <1>1
<1>8. TypeOK' /\ Selected' /\ StoredSoFar'
  BY <1>1, <1>2, <1>6, <1>7, ServeAndPoolAlone
<1> HIDE DEF type
<1>9. GaugesFollow' /\ GaugeShowsPool'
  BY <1>3, <1>6, <1>7, OwnAndOtherTypes
<1> QED BY <1>8, <1>9 DEF IInv

LEMMA ReadPoolRacedStep ==
  ASSUME IInv, NEW u \in updaters, ReadPoolRaced(u)
  PROVE  IInv'
<1> DEFINE type == u.type
<1>1. /\ TypeOK /\ updaters \subseteq Updater /\ gauge \in [Watched -> Count]
      /\ disturbed \subseteq Watched /\ crashed \in BOOLEAN /\ reader \in Count
  BY DEF IInv, TypeOK
<1>2. type \in Watched /\ pool[type].count \in Count
  BY <1>1, UpdaterParts, StoredServes
<1>3. UNCHANGED <<poolVars, serveVars, pool>> /\ pool' = pool
  BY DEF ReadPoolRaced
<1>4. CASE crashed' = TRUE /\ UNCHANGED <<updaters, gauge, disturbed>>
  <2>1. crashed' \in BOOLEAN
    BY <1>4, Zenon
  <2>2. TypeOK' /\ Selected' /\ StoredSoFar'
    BY <1>1, <1>3, <1>4, <2>1, ServeAndPoolAlone
  <2>3. GaugesFollow' /\ GaugeShowsPool'
    BY <1>3, <1>4, GaugesAlone
  <2> QED BY <2>2, <2>3 DEF IInv
<1>5. CASE /\ disturbed' = disturbed \cup {type} /\ UNCHANGED crashed
           /\ \/ \E c \in Count : GoesOn(u, c, ToSet(c)) /\ UNCHANGED gauge
              \/ NoEntry(u)
  <2>1. /\ updaters' \subseteq Updater /\ gauge' \in [Watched -> Count]
        /\ \A t \in Watched \ {type} :
             gauge'[t] = gauge[t] /\ Running(t)' = Running(t)
    <3>1. CASE NoEntry(u)
      BY <1>1, <3>1, NoEntryLeaves
    <3>2. ASSUME NEW c \in Count, GoesOn(u, c, ToSet(c)), UNCHANGED gauge
          PROVE  /\ updaters' \subseteq Updater
                 /\ \A t \in Watched \ {type} : Running(t)' = Running(t)
      <4>1. ToSet(c) \in SUBSET Pairs
        BY DEF ToSet
      <4> QED BY <1>1, <3>2, <4>1, GoneOn
    <3> QED BY <1>1, <1>5, <3>1, <3>2
  <2>2. disturbed' \subseteq Watched /\ type \in disturbed' /\ disturbed \subseteq disturbed'
    BY <1>1, <1>2, <1>5
  <2>3. TypeOK' /\ Selected' /\ StoredSoFar'
    BY <1>1, <1>3, <1>5, <2>1, <2>2, ServeAndPoolAlone
  <2> HIDE DEF type
  <2>4. GaugesFollow' /\ GaugeShowsPool'
    BY <1>2, <1>3, <2>1, <2>2, OwnAndOtherTypes
  <2> QED BY <2>3, <2>4 DEF IInv
<1> QED BY <1>1, <1>2, <1>4, <1>5 DEF ReadPoolRaced

LEMMA SetGaugeStep ==
  ASSUME IInv, NEW u \in updaters, SetGauge(u)
  PROVE  IInv'
<1> DEFINE type == u.type
<1>1. PICK x \in u.todo : /\ gauge' = [gauge EXCEPT ![type][x] = u.count[x]]
                          /\ GoesOn(u, u.count, u.todo \ {x})
  BY DEF SetGauge
<1> DEFINE todo == u.todo \ {x}
<1>2. /\ u.pc = "setting"
      /\ UNCHANGED <<poolVars, serveVars, pool>>
      /\ pool' = pool /\ disturbed' = disturbed /\ crashed' = crashed
  BY DEF SetGauge
<1>3. /\ TypeOK /\ updaters \subseteq Updater /\ gauge \in [Watched -> Count]
      /\ disturbed \subseteq Watched /\ crashed \in BOOLEAN
      /\ GaugesFollow
  BY DEF IInv, TypeOK
<1>4. /\ type \in Watched /\ u.count \in Count /\ x \in Pairs
      /\ todo \in SUBSET Pairs /\ u.todo = todo \cup {x}
  BY <1>1, <1>3, UpdaterParts
<1>5. u \in Running(type)
  BY DEF Running
<1> HIDE DEF type, todo
<1>6. /\ u.count[x] \in 0 .. MaxFound
      /\ gauge[type] \in Count
  BY <1>3, <1>4 DEF Count
<1>7. /\ gauge' \in [Watched -> Count]
      /\ \A t \in Watched \ {type} : gauge'[t] = gauge[t]
      /\ gauge'[type][x] = u.count[x]
      /\ \A y \in Pairs \ {x} : gauge'[type][y] = gauge[type][y]
  <2>1. gauge' = [gauge EXCEPT ![type] = [gauge[type] EXCEPT ![x] = u.count[x]]]
    BY <1>1
  <2>2. [gauge[type] EXCEPT ![x] = u.count[x]] \in Count
    BY <1>6 DEF Count
  <2> QED BY <1>3, <1>4, <1>6, <2>1, <2>2 DEF Count
<1>8. /\ updaters' \subseteq Updater
      /\ \A t \in Watched \ {type} : Running(t)' = Running(t)
      /\ (\A v, w \in Running(type) : v = w) =>
           /\ todo = {} => Running(type)' = {}
           /\ todo # {} =>
                \E v : /\ Running(type)' = {v}
                       /\ v.pc = "setting" /\ v.count = u.count
                       /\ v.todo = todo
  BY <1>1, <1>3, <1>4, GoneOn DEF type, todo
<1>9. type \in disturbed' \/ OwnTypeFollows(type)'
  <2>1. SUFFICES ASSUME type \notin disturbed
                 PROVE  OwnTypeFollows(type)'
    BY <1>2
  <2>2. /\ \A v, w \in Running(type) : v = w
        /\ u.count = pool[type].count
        /\ \A y \in Pairs : pool[type].count[y] # 0 =>
             y \in u.todo \/ gauge[type][y] = pool[type].count[y]
    BY <1>2, <1>3, <1>4, <1>5, <2>1 DEF GaugesFollow
  <2>3. \A y \in Pairs : pool'[type].count[y] # 0 =>
          y \in todo \/ gauge'[type][y] = pool'[type].count[y]
    BY <1>2, <1>4, <1>7, <2>2
  <2>4. CASE todo = {}
    BY <1>8, <2>2, <2>3, <2>4 DEF OwnTypeFollows
  <2>5. CASE todo # {}
    BY <1>2, <1>8, <2>2, <2>3, <2>5 DEF OwnTypeFollows
  <2> QED BY <2>4, <2>5
<1>10. TypeOK' /\ Selected' /\ StoredSoFar'
  BY <1>2, <1>3, <1>7, <1>8, ServeAndPoolAlone
<1>11. GaugesFollow' /\ GaugeShowsPool'
  BY <1>2, <1>4, <1>7, <1>8, <1>9, OwnAndOtherTypes
<1> QED BY <1>10, <1>11 DEF IInv

-----------------------------------------------------------------------------
(* The invariant, and the properties that follow from it. *)

\* Every step of the observer and of the goroutines keeps the invariant.
THEOREM Consecution == IInv /\ [Next]_vars => IInv'
<1> SUFFICES ASSUME IInv, [Next]_vars PROVE IInv'
  OBVIOUS
<1>1. CASE UNCHANGED vars
  <2>1. UNCHANGED <<poolVars, serveVars, pool>> /\ UNCHANGED <<updaters, gauge, disturbed, crashed>>
    BY <1>1 DEF vars
  <2>2. TypeOK' /\ Selected' /\ StoredSoFar'
    BY <2>1, ServeAndPoolAlone DEF IInv, TypeOK
  <2> QED BY <2>1, <2>2, GaugesAlone DEF IInv
<1>2. CASE \E types \in Asks : Serve(types)
  BY <1>2, ServeStep
<1>3. CASE RunProvider
  BY <1>3, RunProviderStep
<1>4. CASE FlushBegins \/ NextHandler \/ ServeReturns
  BY <1>4, ControlStep
<1>5. CASE FlushEnds
  BY <1>5, FlushEndsStep
<1>6. CASE \E u \in updaters : UpdateMetrics(u)
  <2>1. PICK u \in updaters : ReadPool(u) \/ ReadPoolRaced(u) \/ SetGauge(u)
    BY <1>6 DEF UpdateMetrics
  <2> QED BY <2>1, ReadPoolStep, ReadPoolRacedStep, SetGaugeStep
<1> QED BY <1>1, <1>2, <1>3, <1>4, <1>5, <1>6 DEF Next, Observer

\* The inductive invariant holds in every reachable state.
THEOREM Invariance == Spec => []IInv
BY Initially, Consecution, PTL DEF Spec

\* The variables keep their types.
THEOREM TypeCorrect == Spec => []TypeOK
<1>1. IInv => TypeOK
  BY DEF IInv
<1> QED BY <1>1, Invariance, PTL

\* A provider of a global type asks one gateway of every account, unless
\* others have a client in a preferred region and the account has none
\* (proxy_pool.go:60-94).
THEOREM GlobalOnceHolds == Spec => []GlobalOnce
<1>1. IInv => GlobalOnce
  <2> SUFFICES ASSUME IInv, NEW t \in DOMAIN providers \cap GlobalTypes
               PROVE  /\ \A g, h \in providers[t] : g.account = h.account => g = h
                      /\ \A g \in Range(gateways) :
                           \/ \E h \in providers[t] : h.account = g.account
                           \/ LeftOut(g.account, providers[t])
    BY DEF GlobalOnce
  <2>1. gateways \in Seq(Pairs)
    BY CycleAssumption DEF IInv, TypeOK
  <2>2. providers[t] = OfGlobal(gateways)
    BY DEF IInv, Selected, List
  <2> QED BY <2>1, <2>2, GlobalGateways DEF LeftOut
<1> QED BY <1>1, Invariance, PTL

\* When Serve has returned nil, the pool holds a listing of this call for each
\* type it was asked for; when it has returned an error, for exactly the types
\* up to the one whose handler failed (observer.go:62-82).
THEOREM ServeAccountHolds == Spec => []ServeAccount
<1>1. IInv => ServeAccount
  BY DEF IInv, StoredSoFar, Reached, ServeAccount
<1> QED BY <1>1, Invariance, PTL

\* An updater that met no other updater of its type and no write leaves the
\* gauges at the pool's counts (pool.go:89-122).
THEOREM GaugeShowsPoolHolds == Spec => []GaugeShowsPool
<1>1. IInv => GaugeShowsPool
  BY DEF IInv
<1> QED BY <1>1, Invariance, PTL

=============================================================================
