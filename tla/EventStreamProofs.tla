------------------------- MODULE EventStreamProofs -------------------------
(***************************************************************************)
(* Proofs about EventStream, for every trail, limit and consumer and any    *)
(* number of failed pages.                                                  *)
(***************************************************************************)
EXTENDS EventStream, FiniteSetTheorems, TLAPS

-----------------------------------------------------------------------------
(* The places of a trail t: all of them, those of the first n - 1 pages, and *)
(* those handled when a is the next place of the last of these pages.        *)

Places(t) == UNION {{p} \X DOMAIN t[p] : p \in DOMAIN t}
PlacesAnswered(t, n) == {x \in Places(t) : x[1] < n}
PlacesHandled(t, n, a) ==
  {x \in PlacesAnswered(t, n) : x[1] < n - 1 \/ x[2] < a}

LEMMA TrailType ==
  ASSUME NEW t \in Trails
  PROVE  /\ t \in Seq(Seq({"good", "malformed"})) /\ t # <<>>
         /\ Len(t) \in Nat \ {0} /\ DOMAIN t = 1 .. Len(t)
         /\ \A p \in DOMAIN t : Len(t[p]) \in Nat /\ DOMAIN t[p] = 1 .. Len(t[p])
<1>1. t \in Seq(Seq({"good", "malformed"})) /\ t # <<>>
  BY EventStreamAssumption
<1>2. \A p \in DOMAIN t : t[p] \in Seq({"good", "malformed"})
  BY <1>1
<1> QED BY <1>1, <1>2

LEMMA PlacesAre ==
  ASSUME NEW t, NEW x
  PROVE  x \in Places(t) <=>
           \E p \in DOMAIN t : \E i \in DOMAIN t[p] : x = <<p, i>>
BY DEF Places

\* Once the response is handled, so is every response before it.
LEMMA HandledDone ==
  ASSUME NEW t \in Trails, NEW n \in 1 .. Len(t) + 1, NEW a \in Nat,
         n # 1 => a > Len(t[n - 1])
  PROVE  PlacesHandled(t, n, a) = PlacesAnswered(t, n)
<1> SUFFICES ASSUME NEW x \in PlacesAnswered(t, n)
             PROVE  x[1] < n - 1 \/ x[2] < a
  BY DEF PlacesHandled
<1>0. PICK p \in DOMAIN t : \E i \in DOMAIN t[p] : x = <<p, i>>
  BY PlacesAre DEF PlacesAnswered
<1>1. PICK i \in DOMAIN t[p] : x = <<p, i>>
  BY <1>0
<1>2. p < n
  BY <1>1 DEF PlacesAnswered
<1>3. p \in 1 .. Len(t) /\ i \in 1 .. Len(t[p]) /\ Len(t[p]) \in Nat /\ Len(t) \in Nat
  BY <1>1, TrailType
<1>4. CASE p < n - 1
  BY <1>1, <1>4
<1>5. CASE p = n - 1
  BY <1>1, <1>3, <1>5
<1> QED BY <1>2, <1>3, <1>4, <1>5

\* A response that has just arrived is all to be handled.
LEMMA HandledNext ==
  ASSUME NEW t \in Trails, NEW n \in 1 .. Len(t)
  PROVE  PlacesHandled(t, n + 1, 1) = PlacesAnswered(t, n)
<1>1. \A x \in Places(t) : x[1] \in Nat /\ x[2] \in Nat \ {0}
  BY PlacesAre, TrailType
<1>2. n \in Nat
  BY TrailType
<1> QED BY <1>1, <1>2 DEF PlacesHandled, PlacesAnswered

\* One more event handled, the last in the trail's order.
LEMMA HandledOne ==
  ASSUME NEW t \in Trails, NEW n \in 2 .. Len(t) + 1, NEW a \in 1 .. Len(t[n - 1])
  PROVE  /\ PlacesHandled(t, n, a + 1) =
              PlacesHandled(t, n, a) \cup {<<n - 1, a>>}
         /\ <<n - 1, a>> \notin PlacesHandled(t, n, a)
         /\ <<n - 1, a>> \in Places(t)
         /\ \A x \in PlacesHandled(t, n, a) : Before(x, <<n - 1, a>>)
<1>0. n - 1 \in DOMAIN t /\ Len(t[n - 1]) \in Nat /\ a \in DOMAIN t[n - 1]
        /\ Len(t) \in Nat /\ n \in Nat /\ a \in Nat
  BY TrailType
<1>1. \A x \in Places(t) :
        x[1] \in Nat /\ x[2] \in Nat \ {0} /\ x = <<x[1], x[2]>>
  BY PlacesAre, TrailType
<1>2. <<n - 1, a>> \in Places(t)
  BY <1>0, PlacesAre
<1> DEFINE e == <<n - 1, a>>
<1>3. e \in Places(t) /\ e[1] = n - 1 /\ e[2] = a
  BY <1>2
<1>4. \A x \in Places(t) : x = e <=> x[1] = n - 1 /\ x[2] = a
  BY <1>1
<1> HIDE DEF e
<1>5. \A x \in PlacesAnswered(t, n) :
        x \in Places(t) /\ (x[1] < n - 1 \/ x[1] = n - 1)
  BY <1>0, <1>1 DEF PlacesAnswered
<1>6. e \in PlacesAnswered(t, n)
  BY <1>0, <1>3 DEF PlacesAnswered
<1>7. \A x \in PlacesAnswered(t, n) :
        (x[1] < n - 1 \/ x[2] < a + 1) <=> (x[1] < n - 1 \/ x[2] < a \/ x = e)
  BY <1>0, <1>1, <1>4, <1>5
<1>8. PlacesHandled(t, n, a + 1) = PlacesHandled(t, n, a) \cup {e}
  BY <1>6, <1>7 DEF PlacesHandled
<1>9. e \notin PlacesHandled(t, n, a)
  BY <1>0, <1>3 DEF PlacesHandled
<1>10. \A x \in PlacesHandled(t, n, a) : Before(x, e)
  BY <1>0, <1>1, <1>3, <1>5 DEF PlacesHandled, Before
<1> QED BY <1>3, <1>8, <1>9, <1>10 DEF e

\* A response adds as many events as it has.
LEMMA AnsweredOne ==
  ASSUME NEW t \in Trails, NEW n \in 1 .. Len(t),
         IsFiniteSet(PlacesAnswered(t, n))
  PROVE  /\ IsFiniteSet(PlacesAnswered(t, n + 1))
         /\ Cardinality(PlacesAnswered(t, n + 1)) =
              Cardinality(PlacesAnswered(t, n)) + Len(t[n])
<1> DEFINE A == PlacesAnswered(t, n)
           page == {n} \X (1 .. Len(t[n]))
<1>1. n \in DOMAIN t /\ n \in Nat /\ Len(t[n]) \in Nat
        /\ DOMAIN t[n] = 1 .. Len(t[n])
  BY TrailType
<1>2. \A x : x \in Places(t) => x[1] \in Nat
  BY PlacesAre, TrailType
<1>3. \A x : x \in page <=> x \in Places(t) /\ x[1] = n
  BY <1>1, PlacesAre
<1>4. PlacesAnswered(t, n + 1) = A \cup page
  BY <1>1, <1>2, <1>3 DEF PlacesAnswered
<1>5. A \cap page = {}
  BY <1>1, <1>3 DEF PlacesAnswered
<1>6. IsFiniteSet(page) /\ Cardinality(page) = Len(t[n])
  <2>1. IsFiniteSet({n}) /\ Cardinality({n}) = 1
    BY FS_Singleton
  <2>2. IsFiniteSet(1 .. Len(t[n])) /\ Cardinality(1 .. Len(t[n])) = Len(t[n])
    <3> DEFINE k == Len(t[n])
    <3>1. k \in Nat
      BY <1>1
    <3> HIDE DEF k
    <3>2. IsFiniteSet(1 .. k) /\ Cardinality(1 .. k) = IF 1 > k THEN 0 ELSE k - 1 + 1
      BY <3>1, FS_Interval
    <3>3. (IF 1 > k THEN 0 ELSE k - 1 + 1) = k
      BY <3>1
    <3> QED BY <3>2, <3>3 DEF k
  <2>3. IsFiniteSet(page)
          /\ Cardinality(page) = Cardinality({n}) * Cardinality(1 .. Len(t[n]))
    BY <2>1, <2>2, FS_Product
  <2> QED BY <1>1, <2>1, <2>2, <2>3
<1>7. Cardinality(A \cap page) = 0
  BY <1>5, FS_EmptySet
<1>8. IsFiniteSet(A) /\ Cardinality(A) \in Nat
  BY FS_CardinalityType
<1> HIDE DEF A, page
<1>9. /\ IsFiniteSet(A \cup page)
      /\ Cardinality(A \cup page) =
           Cardinality(A) + Cardinality(page) - Cardinality(A \cap page)
  BY <1>6, <1>8, FS_Union
<1>10. Cardinality(A \cup page) = Cardinality(A) + Len(t[n])
  BY <1>1, <1>6, <1>7, <1>8, <1>9
<1> QED BY <1>4, <1>9, <1>10 DEF A

-----------------------------------------------------------------------------
(* The inductive invariant. *)

\* Only in the loop over a response's events is one of them left to handle.
Where ==
  /\ fpc \notin {"event", "send", "parseError"} => PageDone
  /\ fpc = "send" => ~PageDone /\ ~IsMalformed(Current)
  /\ fpc = "parseError" => ~PageDone /\ IsMalformed(Current)
  /\ fpc = "next" => HasMorePages
  /\ fpc \in {"closeErr", "closeSource", "ended"} /\ HasMorePages =>
       maxResults # NoLimit /\ fetched >= maxResults

\* What is skipped was come to.
Skipped == dropped \subseteq Handled

\* While ReadChannels has no error it was spared a malformed event, and
\* nothing but the closed errChan can have ended it.
Told ==
  consumer = "ReadChannels" /\ firstError = "none" =>
    /\ \A x \in Handled : ~IsMalformed(x)
    /\ rpc = "returned" => ErrChanClosed

IInv ==
  /\ TypeOK
  /\ IsFiniteSet(Answered)
  /\ Where
  /\ Skipped
  /\ InOrderBarSkipped
  /\ Told

-----------------------------------------------------------------------------

LEMMA Named ==
  /\ Positions = Places(trail)
  /\ Answered = PlacesAnswered(trail, next)
  /\ Handled = PlacesHandled(trail, next, at)
BY DEF Positions, Answered, Handled, Places, PlacesAnswered, PlacesHandled

LEMMA NamedNext ==
  /\ Positions' = Places(trail')
  /\ Answered' = PlacesAnswered(trail', next')
  /\ Handled' = PlacesHandled(trail', next', at')
BY DEF Positions, Answered, Handled, Places, PlacesAnswered, PlacesHandled

\* A step that handles no event and fetches no page.
LEMMA StillStep ==
  ASSUME IInv, UNCHANGED <<fixed, next, at, fetched, dropped, results>>,
         fpc' \in FetchPositions, pageErrors' \in 0 .. MaxPageErrors,
         ctx' \in {"live", "done"}, rpc' \in {"busy", "waiting", "returned"},
         lpc' \in ListenPositions,
         firstError' \in {"none", "page", "parse", "ctx"},
         Where',
         consumer = "ReadChannels" /\ firstError' = "none" =>
           firstError = "none" /\ (rpc' = "returned" => ErrChanClosed')
  PROVE  IInv'
<1> USE DEF IInv, fixed
<1>1. /\ Positions' = Positions /\ Answered' = Answered /\ Handled' = Handled
      /\ PageLength' = PageLength
  BY Named, NamedNext DEF PageLength
<1>2. TypeOK'
  BY <1>1 DEF TypeOK
<1>3. IsFiniteSet(Answered)' /\ Skipped'
  BY <1>1 DEF Skipped
<1>4. InOrderBarSkipped'
  BY <1>1 DEF InOrderBarSkipped, IsMalformed
<1>5. Told'
  BY <1>1 DEF Told, IsMalformed
<1> QED BY <1>2, <1>3, <1>4, <1>5

\* A step that handles one event: it is reported, skipped or received.
LEMMA HandleStep ==
  ASSUME IInv, UNCHANGED <<fixed, next, fetched, pageErrors>>,
         fpc \in {"event", "send", "parseError"}, ~PageDone,
         at' = at + 1, fpc' = "event",
         ctx' = ctx, rpc' \in {rpc, "busy"}, lpc' \in ListenPositions,
         firstError' \in {"none", "page", "parse", "ctx"},
         \/ /\ IsMalformed(Current)
            /\ consumer = "ReadChannels" => firstError' # "none"
            /\ UNCHANGED <<results, dropped>>
         \/ /\ ~IsMalformed(Current)
            /\ dropped' = dropped \cup {Current}
            /\ UNCHANGED <<results, firstError>>
         \/ /\ ~IsMalformed(Current)
            /\ results' = Append(results, Current)
            /\ UNCHANGED <<dropped, firstError>>
  PROVE  IInv'
<1> USE DEF IInv, fixed
<1>1. /\ trail \in Trails /\ next \in 2 .. Len(trail) + 1
      /\ at \in 1 .. Len(trail[next - 1]) /\ at \in Nat
      /\ PageLength = Len(trail[next - 1]) /\ PageLength \in Nat
  <2>1. trail \in Trails /\ next \in 1 .. Len(trail) + 1 /\ at \in 1 .. PageLength + 1
    BY DEF TypeOK
  <2>2. Len(trail) \in Nat /\ next # 1
    BY <2>1, TrailType DEF PageDone, PageLength
  <2>3. PageLength = Len(trail[next - 1]) /\ next \in 2 .. Len(trail) + 1
    BY <2>1, <2>2 DEF PageLength
  <2>4. next - 1 \in DOMAIN trail
    BY <2>1, <2>2, <2>3, TrailType
  <2>5. PageLength \in Nat
    BY <2>1, <2>3, <2>4, TrailType
  <2> QED BY <2>1, <2>3, <2>5 DEF PageDone
<1> DEFINE h == Handled
           e == Current
<1>2. /\ Handled' = h \cup {e} /\ e \notin h /\ e \in Positions
      /\ \A x \in h : Before(x, e)
  BY <1>1, HandledOne, Named, NamedNext DEF Current
<1>3. Positions' = Positions /\ Answered' = Answered /\ PageLength' = PageLength
        /\ Current' # Current
  BY <1>1, Named, NamedNext DEF PageLength, Current
<1>4. h \subseteq Positions
  BY DEF Handled, Answered
<1>5. \A x : IsMalformed(x)' <=> IsMalformed(x)
  BY DEF IsMalformed
<1>6. results' \in Seq(Positions) /\ dropped' \subseteq Positions
  BY <1>2 DEF TypeOK
<1>7. TypeOK'
  BY <1>1, <1>3, <1>6 DEF TypeOK, FetchPositions
<1>8. IsFiniteSet(Answered)'
  BY <1>3
<1>9. Where'
  BY DEF Where
<1>10. Skipped'
  BY <1>2 DEF Skipped
<1>11. InOrderBarSkipped'
  <2>1. /\ Range(results) = {x \in h : ~IsMalformed(x)} \ dropped
        /\ \A j, k \in DOMAIN results : j < k => Before(results[j], results[k])
        /\ dropped \subseteq h /\ results \in Seq(Positions)
    BY DEF InOrderBarSkipped, Skipped, TypeOK
  <2>2. {x \in Handled' : ~IsMalformed(x)'} = {x \in h \cup {e} : ~IsMalformed(x)}
    BY <1>2, <1>5
  <2> SUFFICES
        /\ Range(results') = {x \in h \cup {e} : ~IsMalformed(x)} \ dropped'
        /\ \A j, k \in DOMAIN results' : j < k => Before(results'[j], results'[k])
    BY <2>2 DEF InOrderBarSkipped, Before
  <2> HIDE DEF h, e
  <2>3. CASE IsMalformed(e) /\ UNCHANGED <<results, dropped>>
    BY <2>1, <2>3
  <2>4. CASE dropped' = dropped \cup {e} /\ UNCHANGED results
    BY <1>2, <2>1, <2>4
  <2>5. CASE ~IsMalformed(e) /\ results' = Append(results, e) /\ UNCHANGED dropped
    <3>1. /\ Len(results) \in Nat /\ DOMAIN results = 1 .. Len(results)
          /\ DOMAIN results' = 1 .. Len(results) + 1
          /\ results'[Len(results) + 1] = e
          /\ \A k \in 1 .. Len(results) : results'[k] = results[k]
      BY <1>2, <2>1, <2>5
    <3>2. Range(results') = Range(results) \cup {e}
      BY <3>1 DEF Range
    <3>3. Range(results') = {x \in h \cup {e} : ~IsMalformed(x)} \ dropped'
      BY <1>2, <2>1, <2>5, <3>2
    <3>4. \A k \in DOMAIN results : results[k] \in h
      BY <2>1 DEF Range
    <3> SUFFICES ASSUME NEW j \in DOMAIN results', NEW k \in DOMAIN results', j < k
                 PROVE  Before(results'[j], results'[k])
      BY <3>3
    <3>5. j \in 1 .. Len(results) /\ results'[j] = results[j]
      BY <3>1
    <3>6. CASE k \in 1 .. Len(results)
      BY <2>1, <3>1, <3>5, <3>6
    <3>7. CASE k = Len(results) + 1
      BY <1>2, <3>1, <3>4, <3>5, <3>7
    <3> QED BY <3>1, <3>6, <3>7
  <2> QED BY <2>3, <2>4, <2>5 DEF e
<1>12. Told'
  <2> SUFFICES ASSUME consumer = "ReadChannels", firstError' = "none"
               PROVE  /\ \A x \in Handled' : ~IsMalformed(x)'
                      /\ rpc' # "returned"
    BY DEF Told
  <2>1. firstError = "none" /\ ~IsMalformed(e)
    OBVIOUS
  <2>2. \A x \in h : ~IsMalformed(x)
    BY <2>1 DEF Told
  <2>3. rpc # "returned"
    BY <2>1 DEF Told, ErrChanClosed
  <2> QED BY <1>2, <1>5, <2>1, <2>2, <2>3
<1> QED BY <1>7, <1>8, <1>9, <1>10, <1>11, <1>12

-----------------------------------------------------------------------------

\* The initial states satisfy the inductive invariant.
THEOREM Initially == Init => IInv
<1> SUFFICES ASSUME Init PROVE IInv
  OBVIOUS
<1> USE DEF Init
<1>1. /\ trail \in Trails /\ Len(trail) \in Nat \ {0} /\ PageLength = 0
      /\ MaxPageErrors \in Nat
  BY TrailType, EventStreamAssumption DEF PageLength
<1>2. Answered = {}
  BY TrailType, PlacesAre, Named DEF PlacesAnswered
<1>3. IsFiniteSet(Answered) /\ Cardinality(Answered) = 0 /\ Handled = {}
  BY <1>2, FS_EmptySet DEF Handled
<1>4. TypeOK
  BY <1>1, <1>3 DEF TypeOK, FetchPositions, ListenPositions
<1>5. Where
  BY <1>1 DEF Where, PageDone
<1>6. Skipped /\ InOrderBarSkipped /\ Told
  BY <1>3 DEF Skipped, InOrderBarSkipped, Told, Range
<1> QED BY <1>3, <1>4, <1>5, <1>6 DEF IInv

\* What the receiver of an error does.
LEMMA TakenError ==
  ASSUME IInv, NEW k \in {"page", "parse"}, TakeError(k)
  PROVE  /\ results' = results
         /\ rpc' \in {rpc, "busy"} /\ lpc' \in ListenPositions
         /\ firstError' \in {"none", "page", "parse", "ctx"}
         /\ consumer = "ReadChannels" => firstError' # "none"
BY DEF IInv, TypeOK, TakeError, readVars, ListenPositions

\* A page's answer.
LEMMA NextPageStep ==
  ASSUME IInv, NextPage
  PROVE  IInv'
<1> USE DEF IInv, fixed, readVars
<1>1. /\ fpc = "next" /\ PageDone /\ HasMorePages
      /\ UNCHANGED <<trail, maxResults, consumer, dropped, ctx, rpc, results,
                     firstError, lpc>>
  BY DEF NextPage, Where
<1>2. CASE /\ ctx = "live" /\ at' = 1 /\ fetched' = fetched + Len(trail[next])
           /\ next' = next + 1 /\ fpc' = "event" /\ UNCHANGED pageErrors
  <2>1. /\ trail \in Trails /\ next \in 1 .. Len(trail) /\ next \in Nat
        /\ Len(trail) \in Nat /\ at \in Nat
    <3>1. trail \in Trails /\ next \in 1 .. Len(trail) + 1
            /\ at \in 1 .. PageLength + 1
      BY DEF TypeOK
    <3>2. Len(trail) \in Nat
      BY <3>1, TrailType
    <3> QED BY <1>1, <3>1, <3>2 DEF HasMorePages
  <2>2. Handled = Answered
    <3>1. next # 1 => at > Len(trail[next - 1])
      BY <1>1 DEF PageDone, PageLength
    <3> QED BY <2>1, <3>1, HandledDone, Named
  <2>3. /\ Handled' = Answered /\ Positions' = Positions
        /\ IsFiniteSet(Answered') /\ fetched' = Cardinality(Answered')
    BY <1>1, <1>2, <2>1, HandledNext, AnsweredOne, Named, NamedNext DEF TypeOK
  <2>4. PageLength' \in Nat
    BY <1>1, <1>2, <2>1, TrailType DEF PageLength
  <2>5. TypeOK'
    <3>1. next' \in 1 .. Len(trail') + 1
      BY <1>1, <1>2, <2>1
    <3>2. at' \in 1 .. PageLength' + 1
      <4>1. \A k \in Nat : 1 \in 1 .. k + 1
        OBVIOUS
      <4> QED BY <1>2, <2>4, <4>1
    <3>3. results' \in Seq(Positions') /\ dropped' \subseteq Positions'
      BY <1>1, <2>3 DEF TypeOK
    <3> QED BY <1>1, <1>2, <2>3, <3>1, <3>2, <3>3 DEF TypeOK, FetchPositions
  <2>6. Where' /\ Skipped'
    BY <1>1, <1>2, <2>2, <2>3 DEF Where, Skipped
  <2>7. InOrderBarSkipped'
    BY <1>1, <2>2, <2>3 DEF InOrderBarSkipped, IsMalformed
  <2>8. Told'
    BY <1>1, <1>2, <2>2, <2>3 DEF Told, IsMalformed, ErrChanClosed
  <2> QED BY <2>3, <2>5, <2>6, <2>7, <2>8
<1>3. CASE /\ fpc' = "report" /\ UNCHANGED <<at, fetched, next>>
           /\ \/ pageErrors < MaxPageErrors /\ pageErrors' = pageErrors + 1
              \/ UNCHANGED pageErrors
  <2>1. pageErrors' \in 0 .. MaxPageErrors
    BY <1>3, EventStreamAssumption DEF TypeOK
  <2>2. Where'
    BY <1>1, <1>3 DEF Where, PageDone, PageLength
  <2> QED BY <1>1, <1>3, <2>1, <2>2, StillStep
               DEF TypeOK, FetchPositions, Told, ErrChanClosed
<1> QED BY <1>2, <1>3 DEF NextPage

\* The steps of the fetching goroutine between pages and events.
LEMMA LoopStep ==
  ASSUME IInv, Loop \/ ReportPageError \/ CloseErrChan \/ CloseSource
  PROVE  IInv'
<1> USE DEF IInv, fixed, readVars
<1>1. UNCHANGED <<fixed, next, at, fetched, pageErrors, dropped, ctx, results>>
  BY TakenError DEF Loop, ReportPageError, CloseErrChan, CloseSource
<1>2. CASE Loop
  <2>0. fetched \in Nat /\ maxResults \in Nat \cup {NoLimit}
    BY FS_CardinalityType, EventStreamAssumption DEF TypeOK
  <2>1. Where'
    <3>1. PageDone' /\ (HasMorePages' <=> HasMorePages)
      BY <1>1, <1>2 DEF Loop, Where, PageDone, PageLength, HasMorePages
    <3>2. fpc' \in {"next", "closeErr"} /\ (fpc' = "next" => HasMorePages)
            /\ (fpc' = "closeErr" /\ HasMorePages =>
                  maxResults # NoLimit /\ ~(fetched < maxResults))
      BY <1>2 DEF Loop
    <3>3. maxResults # NoLimit /\ ~(fetched < maxResults) => fetched >= maxResults
      BY <2>0
    <3> QED BY <1>1, <3>1, <3>2, <3>3 DEF Where
  <2> QED BY <1>1, <1>2, <2>1, StillStep
               DEF Loop, TypeOK, FetchPositions, Told, ErrChanClosed
<1>3. CASE ReportPageError
  <2>1. Where'
    BY <1>1, <1>3 DEF ReportPageError, Where, PageDone, PageLength, HasMorePages
  <2>2. /\ rpc' \in {rpc, "busy"} /\ lpc' \in ListenPositions
        /\ firstError' \in {"none", "page", "parse", "ctx"}
        /\ consumer = "ReadChannels" /\ firstError' = "none" =>
             firstError = "none" /\ rpc' = rpc
    BY <1>3, TakenError DEF ReportPageError, TypeOK
  <2> QED BY <1>1, <1>3, <2>1, <2>2, StillStep
               DEF ReportPageError, TypeOK, FetchPositions, Told, ErrChanClosed
<1>4. CASE CloseErrChan \/ CloseSource
  <2>1. Where'
    BY <1>1, <1>4
    DEF CloseErrChan, CloseSource, Where, PageDone, PageLength, HasMorePages
  <2> QED BY <1>1, <1>4, <2>1, StillStep
               DEF CloseErrChan, CloseSource, TypeOK, FetchPositions, Told,
                   ErrChanClosed
<1> QED BY <1>2, <1>3, <1>4

\* The steps of the fetching goroutine over a response's events.
LEMMA EventStep ==
  ASSUME IInv, NextEvent \/ SendParseError \/ SendEvent
  PROVE  IInv'
<1> USE DEF IInv, fixed, readVars
<1>1. rpc \in {"busy", "waiting", "returned"} /\ lpc \in ListenPositions
        /\ firstError \in {"none", "page", "parse", "ctx"}
  BY DEF TypeOK
<1>2. CASE NextEvent
  <2>1. fpc = "event"
          /\ UNCHANGED <<fixed, next, fetched, pageErrors, ctx, rpc, results,
                         firstError, lpc>>
    BY <1>2 DEF NextEvent
  <2>2. CASE /\ UNCHANGED <<at, dropped>>
             /\ \/ PageDone /\ fpc' = "loop"
                \/ ~PageDone /\ IsMalformed(Current) /\ fpc' = "parseError"
                \/ ~PageDone /\ ~IsMalformed(Current) /\ fpc' = "send"
    <3>1. Where'
      BY <2>1, <2>2 DEF Where, PageDone, PageLength, HasMorePages, IsMalformed,
                        Current
    <3> QED BY <1>1, <2>1, <2>2, <3>1, StillStep
                 DEF TypeOK, FetchPositions, Told, ErrChanClosed
  <2>3. CASE /\ ~PageDone /\ ~IsMalformed(Current) /\ at' = at + 1
             /\ dropped' = dropped \cup {Current} /\ UNCHANGED fpc
    BY <1>1, <2>1, <2>3, HandleStep
  <2> QED BY <1>2, <2>2, <2>3 DEF NextEvent
<1>3. CASE SendParseError
  BY <1>3, TakenError, HandleStep DEF SendParseError, Where
<1>4. CASE SendEvent
  <2>1. /\ fpc = "send" /\ ~PageDone /\ ~IsMalformed(Current)
        /\ at' = at + 1 /\ fpc' = "event"
        /\ UNCHANGED <<fixed, next, fetched, pageErrors, ctx, firstError, lpc>>
        /\ rpc' \in {rpc, "busy"}
    BY <1>4 DEF SendEvent, TakeEvent, Where
  <2>2. \/ results' = Append(results, Current) /\ UNCHANGED dropped
        \/ dropped' = dropped \cup {Current} /\ UNCHANGED results
    BY <1>4 DEF SendEvent, TakeEvent
  <2> QED BY <1>1, <2>1, <2>2, HandleStep
<1> QED BY <1>2, <1>3, <1>4

\* The steps of the consumers, and a cancellation.
LEMMA ReadStep ==
  ASSUME IInv, Read \/ CancelContextOnError \/ Cancel
  PROVE  IInv'
<1> USE DEF IInv, fixed, fetchVars, readVars
<1>1. UNCHANGED <<fixed, fetchVars, results>>
  BY DEF Read, Wait, SeeClosed, SeeCancelled, CancelContextOnError, Listen,
         CancelOnError, ListenEnd, Cancel
<1>2. Where'
  BY <1>1 DEF Where, PageDone, PageLength, HasMorePages, IsMalformed, Current
<1>3. /\ ctx' \in {"live", "done"} /\ rpc' \in {"busy", "waiting", "returned"}
      /\ lpc' \in ListenPositions
      /\ firstError' \in {"none", "page", "parse", "ctx"}
  BY DEF TypeOK, ListenPositions, Read, Wait, SeeClosed, SeeCancelled,
         CancelContextOnError, Listen, CancelOnError, ListenEnd, Cancel
<1>4. consumer = "ReadChannels" /\ firstError' = "none" =>
        firstError = "none" /\ (rpc' = "returned" => ErrChanClosed)
  BY DEF Told, Read, Wait, SeeClosed, SeeCancelled, SourceClosed, ErrChanClosed,
         CancelContextOnError, Listen, CancelOnError, ListenEnd, Cancel
<1>5. ErrChanClosed' = ErrChanClosed
  BY <1>1 DEF ErrChanClosed
<1>6. fpc' \in FetchPositions /\ pageErrors' \in 0 .. MaxPageErrors
  BY <1>1 DEF TypeOK
<1> QED BY <1>1, <1>2, <1>3, <1>4, <1>5, <1>6, StillStep

\* Every step keeps the inductive invariant.
THEOREM Consecution == IInv /\ [Next]_vars => IInv'
<1> SUFFICES ASSUME IInv, [Next]_vars PROVE IInv'
  OBVIOUS
<1>1. CASE Fetch
  BY <1>1, LoopStep, NextPageStep, EventStep DEF Fetch
<1>2. CASE Read \/ CancelContextOnError \/ Cancel
  BY <1>2, ReadStep
<1>3. CASE UNCHANGED vars
  <2>1. UNCHANGED <<fixed, fetchVars, ctx, readVars, lpc>>
    BY <1>3 DEF vars
  <2>2. Where'
    BY <2>1 DEF IInv, Where, PageDone, PageLength, HasMorePages, IsMalformed,
                Current, fixed, fetchVars
  <2> QED BY <2>1, <2>2, StillStep
               DEF IInv, TypeOK, Told, ErrChanClosed, fixed, fetchVars, readVars
<1> QED BY <1>1, <1>2, <1>3 DEF Next

\* The inductive invariant holds in every reachable state.
THEOREM Invariance == Spec => []IInv
BY Initially, Consecution, PTL DEF Spec

\* Every variable has its type, and eventsFetchedCount is the number of events
\* of the responses so far.
THEOREM TypeCorrect == Spec => []TypeOK
<1>1. IInv => TypeOK
  BY DEF IInv
<1> QED BY <1>1, Invariance, PTL

\* The consumer receives what is handled, neither malformed nor skipped, once
\* and in CloudTrail's order, over any trail and any failures.
THEOREM InOrderBarSkippedHolds == Spec => []InOrderBarSkipped
<1>1. IInv => InOrderBarSkipped
  BY DEF IInv
<1> QED BY <1>1, Invariance, PTL

\* A ListEventsByInput without an error read to the end or to the limit, and
\* met no malformed event, over any trail and any failures.
THEOREM NilErrorMeansReadAllHolds == Spec => []NilErrorMeansReadAll
<1>1. IInv => NilErrorMeansReadAll
  BY DEF IInv, NilErrorMeansReadAll, NilError, Told, Where, ErrChanClosed
<1> QED BY <1>1, Invariance, PTL

=============================================================================
