---------------------------- MODULE EventStream ----------------------------
(***************************************************************************)
(* CloudTrailRepository.fetchEventsByInput                                  *)
(* (src/service/cloudtrail/events_repository.go) and its two consumers: the *)
(* synchronous ReadChannels (src/service/helper.go), and a loop over the    *)
(* events with a CancelContextOnError beside it (src/cmd/events/main.go).   *)
(*                                                                         *)
(* Both channels are unbuffered: a value passes only to a receiver that is  *)
(* already waiting.  WriteToChan gives up when there is none; a plain send  *)
(* waits for one.                                                           *)
(*                                                                         *)
(* An event is named by its place in the trail, <<page, index>>; all that   *)
(* matters of it besides is whether its JSON can be parsed.                 *)
(***************************************************************************)
EXTENDS Naturals, Sequences, FiniteSets, Functions

CONSTANTS Trails,         \* what LookupEvents may page through: pages of events
          Limits,         \* the values query.MaxResults may have
          NoLimit,        \* MaxResults is nil
          Consumers,      \* the consumers to look at
          MaxPageErrors   \* failures of LookupEvents while not cancelled (bound)

ASSUME EventStreamAssumption ==
  /\ Trails \subseteq Seq(Seq({"good", "malformed"})) \ {<<>>}
  /\ Limits \subseteq Nat \cup {NoLimit} /\ NoLimit \notin Nat
  /\ Consumers \subseteq {"ReadChannels", "RangeLoop"}
  /\ MaxPageErrors \in Nat

VARIABLES
  trail,       \* the pages LookupEvents has for this query
  maxResults,  \* query.MaxResults
  consumer,    \* who reads the channels
  fpc,         \* where the fetching goroutine is
  next,        \* the page the paginator is at
  at,          \* the index of the event of the last response to handle next
  fetched,     \* eventsFetchedCount
  pageErrors,  \* failures so far, while not cancelled
  ctx,         \* "live" or "done"
  rpc,         \* the consumer: "busy", "waiting" for a value, or "returned"
  lpc,         \* CancelContextOnError's goroutine
  results,     \* the events the consumer received
  firstError,  \* ReadChannels: firstError
  dropped      \* events skipped, for want of a waiting receiver or on cancel

fetchVars == <<fpc, next, at, fetched, pageErrors, dropped>>
readVars == <<rpc, results, firstError>>
fixed == <<trail, maxResults, consumer>>
vars == <<fixed, fetchVars, ctx, readVars, lpc>>

Init ==
  /\ trail \in Trails
  /\ maxResults \in Limits
  /\ consumer \in Consumers
  /\ fpc = "loop" /\ next = 1 /\ at = 1 /\ fetched = 0 /\ pageErrors = 0
  /\ ctx = "live"
  /\ rpc = "busy" /\ results = <<>> /\ firstError = "none"
  /\ lpc = IF consumer = "RangeLoop" THEN "starting" ELSE "absent"
  /\ dropped = {}

\* The response in hand: its length, whether all of it is handled, and the event
\* to handle next.
PageLength == IF next = 1 THEN 0 ELSE Len(trail[next - 1])
PageDone == at > PageLength
Current == <<next - 1, at>>

IsMalformed(x) == trail[x[1]][x[2]] = "malformed"

\* Deferred closes run last in, first out: errChan, then source.
ErrChanClosed == fpc \in {"closeSource", "ended"}
SourceClosed == fpc = "ended"

-----------------------------------------------------------------------------
(* Receivers. *)

\* A goroutine parked in a select on ctx.Done leaves it the moment the context
\* is cancelled, so none is then found waiting there.
SourceReady ==
  rpc = "waiting" /\ (consumer = "RangeLoop" \/ ctx = "live")

ErrChanReady ==
  /\ ctx = "live"
  /\ IF consumer = "ReadChannels" THEN rpc = "waiting" ELSE lpc = "listening"

\* Under a cancelled context a select that finds a sender blocked on errChan
\* may take its value, or return.
ErrChanArriving ==
  /\ ctx = "done"
  /\ IF consumer = "ReadChannels" THEN rpc = "busy" ELSE lpc = "starting"

\* The waiting consumer takes event e.
TakeEvent(e) ==
  /\ results' = Append(results, e)
  /\ rpc' = "busy"
  /\ UNCHANGED <<firstError, lpc>>

\* mutant: ReadChannels returns on the first error
TakeErrorReturns(k) ==
  IF consumer = "ReadChannels"
  THEN /\ firstError' = k
       /\ rpc' = "returned"
       /\ UNCHANGED <<results, lpc>>
  ELSE lpc' = "cancelling" /\ UNCHANGED readVars

\* The waiting receiver of errChan takes an error of kind k: ReadChannels keeps
\* the first, the other goroutine goes on to cancel and reads no more.
TakeError(k) ==
  IF consumer = "ReadChannels"
  THEN /\ firstError' = IF firstError = "none" THEN k ELSE firstError
       /\ rpc' = "busy"
       /\ UNCHANGED <<results, lpc>>
  ELSE lpc' = "cancelling" /\ UNCHANGED readVars

-----------------------------------------------------------------------------
(* fetchEventsByInput. *)

HasMorePages == next <= Len(trail)

\* The loop's condition.  The select on ctx.Done that follows breaks out of the
\* select only, so it decides nothing.
Loop ==
  /\ fpc = "loop"
  /\ fpc' = IF HasMorePages /\ (maxResults = NoLimit \/ fetched < maxResults)
            THEN "next" ELSE "closeErr"
  /\ UNCHANGED <<fixed, next, at, fetched, pageErrors, dropped, ctx, readVars,
                 lpc>>

\* mutant: a failed page is passed over
NextPageSkips ==
  /\ fpc = "next"
  /\ next' = next + 1
  /\ \/ /\ ctx = "live"
        /\ at' = 1
        /\ fetched' = fetched + Len(trail[next])
        /\ fpc' = "event"
        /\ UNCHANGED pageErrors
     \/ /\ ctx = "done" \/ pageErrors < MaxPageErrors
        /\ pageErrors' = IF ctx = "live" THEN pageErrors + 1 ELSE pageErrors
        /\ at' = Len(trail[next]) + 1
        /\ fpc' = "report"
        /\ UNCHANGED fetched
  /\ UNCHANGED <<fixed, dropped, ctx, readVars, lpc>>

\* mutant: pages are counted for events
NextPageCountsPages ==
  /\ fpc = "next"
  /\ \/ /\ ctx = "live"
        /\ at' = 1
        /\ fetched' = fetched + 1
        /\ next' = next + 1
        /\ fpc' = "event"
        /\ UNCHANGED pageErrors
     \/ /\ ctx = "done" \/ pageErrors < MaxPageErrors
        /\ pageErrors' = IF ctx = "live" THEN pageErrors + 1 ELSE pageErrors
        /\ fpc' = "report"
        /\ UNCHANGED <<at, fetched, next>>
  /\ UNCHANGED <<fixed, dropped, ctx, readVars, lpc>>

\* NextPage answers, or fails and leaves the paginator where it is.  Under a
\* cancelled context it can only fail.
NextPage ==
  /\ fpc = "next"
  /\ \/ /\ ctx = "live"
        /\ at' = 1
        /\ fetched' = fetched + Len(trail[next])
        /\ next' = next + 1
        /\ fpc' = "event"
        /\ UNCHANGED pageErrors
     \/ /\ ctx = "live" /\ pageErrors < MaxPageErrors
        /\ pageErrors' = pageErrors + 1
        /\ fpc' = "report"
        /\ UNCHANGED <<at, fetched, next>>
     \/ /\ ctx = "done"
        /\ fpc' = "report"
        /\ UNCHANGED <<at, fetched, next, pageErrors>>
  /\ UNCHANGED <<fixed, dropped, ctx, readVars, lpc>>

\* mutant: a failed page ends the loop
ReportPageErrorBreaks ==
  /\ fpc = "report"
  /\ IF ErrChanReady THEN TakeError("page") ELSE UNCHANGED <<readVars, lpc>>
  /\ fpc' = "closeErr"
  /\ UNCHANGED <<fixed, next, at, fetched, pageErrors, dropped, ctx>>

\* WriteToChan(errChan, err), and around the loop again.
ReportPageError ==
  /\ fpc = "report"
  /\ IF ErrChanReady THEN TakeError("page") ELSE UNCHANGED <<readVars, lpc>>
  /\ fpc' = "loop"
  /\ UNCHANGED <<fixed, next, at, fetched, pageErrors, dropped, ctx>>

\* The next event of the page: parse it, and look whether to send it.
NextEvent ==
  /\ fpc = "event"
  /\ \/ /\ PageDone
        /\ fpc' = "loop"
        /\ UNCHANGED <<at, dropped>>
     \/ /\ ~PageDone /\ IsMalformed(Current)
        /\ fpc' = "parseError"
        /\ UNCHANGED <<at, dropped>>
     \/ /\ ~PageDone /\ ~IsMalformed(Current) /\ ctx = "live"
        /\ fpc' = "send"
        /\ UNCHANGED <<at, dropped>>
     \/ /\ ~PageDone /\ ~IsMalformed(Current) /\ ctx = "done"
        /\ at' = at + 1
        /\ dropped' = dropped \cup {Current}
        /\ UNCHANGED fpc
  /\ UNCHANGED <<fixed, next, fetched, pageErrors, ctx, readVars, lpc>>

\* errChan <- err: wait for a receiver.
SendParseError ==
  /\ fpc = "parseError"
  /\ ErrChanReady \/ ErrChanArriving
  /\ TakeError("parse")
  /\ at' = at + 1
  /\ fpc' = "event"
  /\ UNCHANGED <<fixed, next, fetched, pageErrors, dropped, ctx>>

\* WriteToChan(source, event).
SendEvent ==
  /\ fpc = "send"
  /\ IF SourceReady
     THEN TakeEvent(Current) /\ UNCHANGED dropped
     ELSE dropped' = dropped \cup {Current} /\ UNCHANGED <<readVars, lpc>>
  /\ at' = at + 1
  /\ fpc' = "event"
  /\ UNCHANGED <<fixed, next, fetched, pageErrors, ctx>>

CloseErrChan ==
  /\ fpc = "closeErr"
  /\ fpc' = "closeSource"
  /\ UNCHANGED <<fixed, next, at, fetched, pageErrors, dropped, ctx, readVars,
                 lpc>>

CloseSource ==
  /\ fpc = "closeSource"
  /\ fpc' = "ended"
  /\ UNCHANGED <<fixed, next, at, fetched, pageErrors, dropped, ctx, readVars,
                 lpc>>

Fetch ==
  \/ Loop
  \/ NextPage
  \/ ReportPageError
  \/ NextEvent
  \/ SendParseError
  \/ SendEvent
  \/ CloseErrChan
  \/ CloseSource

-----------------------------------------------------------------------------
(* The consumers. *)

\* Come to the select, or to the head of the range loop, and wait there.
Wait ==
  /\ rpc = "busy"
  /\ consumer = "ReadChannels" => ctx = "live"
  /\ rpc' = "waiting"
  /\ UNCHANGED <<fixed, fetchVars, ctx, results, firstError, lpc>>

\* A closed channel ends the consumer: either of them ends ReadChannels.
SeeClosed ==
  /\ rpc # "returned"
  /\ SourceClosed \/ (consumer = "ReadChannels" /\ ErrChanClosed)
  /\ rpc' = "returned"
  /\ UNCHANGED <<fixed, fetchVars, ctx, results, firstError, lpc>>

\* mutant: the cancellation is noted but the loop goes on
SeeCancelledGoesOn ==
  /\ consumer = "ReadChannels" /\ rpc # "returned" /\ ctx = "done"
  /\ firstError' = IF firstError = "none" THEN "ctx" ELSE firstError
  /\ rpc' = "busy"
  /\ UNCHANGED <<fixed, fetchVars, ctx, results, lpc>>

\* ReadChannels: case <-ctx.Done().
SeeCancelled ==
  /\ consumer = "ReadChannels" /\ rpc # "returned" /\ ctx = "done"
  /\ firstError' = IF firstError = "none" THEN "ctx" ELSE firstError
  /\ rpc' = "returned"
  /\ UNCHANGED <<fixed, fetchVars, ctx, results, lpc>>

Read == Wait \/ SeeClosed \/ SeeCancelled

Listen ==
  /\ lpc = "starting" /\ ctx = "live"
  /\ lpc' = "listening"
  /\ UNCHANGED <<fixed, fetchVars, ctx, readVars>>

CancelOnError ==
  /\ lpc = "cancelling"
  /\ ctx' = "done"
  /\ lpc' = "ended"
  /\ UNCHANGED <<fixed, fetchVars, readVars>>

\* errChan is closed, or the context is done: nothing more to listen for.
ListenEnd ==
  /\ lpc \in {"starting", "listening"}
  /\ ErrChanClosed \/ ctx = "done"
  /\ lpc' = "ended"
  /\ UNCHANGED <<fixed, fetchVars, ctx, readVars>>

CancelContextOnError == Listen \/ CancelOnError \/ ListenEnd

\* The owner of the context cancels it.
Cancel ==
  /\ ctx = "live"
  /\ ctx' = "done"
  /\ UNCHANGED <<fixed, fetchVars, readVars, lpc>>

Next == Fetch \/ Read \/ CancelContextOnError \/ Cancel

Spec == Init /\ [][Next]_vars

\* The three goroutines are scheduled, and LookupEvents answers.
FairSpec ==
  /\ Spec
  /\ WF_vars(Fetch)
  /\ WF_vars(Read)
  /\ WF_vars(CancelContextOnError)

-----------------------------------------------------------------------------
(* Properties. *)

FetchPositions == {"loop", "next", "report", "event", "send", "parseError",
                   "closeErr", "closeSource", "ended"}
ListenPositions == {"absent", "starting", "listening", "cancelling", "ended"}

Positions == UNION {{p} \X DOMAIN trail[p] : p \in DOMAIN trail}

\* The events of the responses so far, and those the goroutine is done with.
Answered == {x \in Positions : x[1] < next}
Handled == {x \in Answered : x[1] < next - 1 \/ x[2] < at}

\* Among the types: MaxResults is compared with the number of events, over all
\* responses, not of pages or of events delivered (events_repository.go:72).
TypeOK ==
  /\ trail \in Trails /\ maxResults \in Limits /\ consumer \in Consumers
  /\ fpc \in FetchPositions
  /\ next \in 1 .. Len(trail) + 1
  /\ at \in 1 .. PageLength + 1
  /\ fetched = Cardinality(Answered)
  /\ pageErrors \in 0 .. MaxPageErrors
  /\ ctx \in {"live", "done"}
  /\ rpc \in {"busy", "waiting", "returned"}
  /\ lpc \in ListenPositions
  /\ results \in Seq(Positions)
  /\ firstError \in {"none", "page", "parse", "ctx"}
  /\ dropped \subseteq Positions

Before(x, y) == x[1] < y[1] \/ (x[1] = y[1] /\ x[2] < y[2])

\* helper.go:90-96, "skipping event": across page failures, retries and a
\* cancellation at any point, the consumer receives every event but the
\* malformed and the skipped ones, once, and in CloudTrail's order.
InOrderBarSkipped ==
  /\ Range(results) = {x \in Handled : ~IsMalformed(x)} \ dropped
  /\ \A j, k \in DOMAIN results : j < k => Before(results[j], results[k])

NilError == rpc = "returned" /\ consumer = "ReadChannels" /\ firstError = "none"

\* "Reach end of pages or max results" (events_repository.go:47): a page that
\* failed is fetched again and a malformed event is reported by a send that
\* waits, so a ListEventsByInput that returns no error has read to the end of
\* the trail or to the limit, and no event it read was malformed, even when a
\* failure was reported while nobody was waiting for it.
NilErrorMeansReadAll ==
  NilError => /\ PageDone
              /\ HasMorePages => maxResults # NoLimit /\ fetched >= maxResults
              /\ \A x \in Handled : ~IsMalformed(x)

\* ListEventsByInput returns, cancelled or not, when LookupEvents fails only
\* so often.
ReadReturns == consumer = "ReadChannels" => <>(rpc = "returned")

\* Unless it is cancelled, ListEventsByInput leaves no goroutine behind: the
\* reader stays with the channels until the fetching goroutine closes them.
FetchEnds == consumer = "ReadChannels" => <>(fpc = "ended" \/ ctx = "done")

\* "Read from the error channel and cancel the context on error"
\* (helper.go:98) is there to stop the fetch: refuted, a second malformed event
\* blocks the goroutine, and NextPage under a cancelled context fails and is
\* tried again without end.
CancelStopsFetch == (ctx = "done") ~> (fpc = "ended")

=============================================================================
