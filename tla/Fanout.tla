------------------------------- MODULE Fanout -------------------------------
(***************************************************************************)
(* One run of resources.Provider together with the resources.ResourceReader *)
(* it returns (src/resources/provider.go, src/resources/reader.go).         *)
(*                                                                         *)
(* Run makes two buffered channels, starts the two goroutines of the        *)
(* reader and the goroutine findResources.  findResources starts one        *)
(* worker per proxy (findResourcesInRegion), waits for all of them and      *)
(* closes the channels.  Each worker starts one goroutine that calls        *)
(* FindAll, and selects between its answer and a timer.  The goroutine of   *)
(* the call outlives the worker when the timer wins.                        *)
(*                                                                         *)
(* A proxy is an index of the pool; a resource is a pair of the proxy that  *)
(* found it and its index in that proxy's answer.  FindAll may return any   *)
(* number of resources up to MaxFound, with or without an error, or never.  *)
(***************************************************************************)
EXTENDS Naturals, Sequences, FiniteSets, Functions

CONSTANTS Proxies,         \* the proxies of the pool
          MaxFound,        \* most resources one FindAll returns (bound)
          ResourceBusSize  \* capacity of the resource channel

ASSUME ProxiesAssumption == IsFiniteSet(Proxies)
ASSUME BoundsAssumption == MaxFound \in Nat /\ ResourceBusSize \in Nat \ {0}

VARIABLES
  launcher,        \* control of Run and then of findResources
  wg,              \* findResources' WaitGroup: the workers added and not done
  worker,          \* worker[p]: control of findResourcesInRegion for p
  verdict,         \* verdict[p]: how the worker's select ended
  sent,            \* sent[p]: resources of p that flush went through
  call,            \* call[p]: control of the goroutine that calls FindAll
  answer,          \* answer[p]: what FindAll returned to that goroutine
  done,            \* done[p]: the answers in p's channel done
  stream,          \* the resource channel
  failures,        \* the failure channel
  closed,          \* which of the two channels are closed
  readerWg,        \* the reader's WaitGroup: its goroutines not yet done
  values,          \* ResourceReader.values
  reported,        \* ResourceReader.failures
  returned,        \* which of the calls Read and Failures have returned
  read,            \* the copy Read returned
  failed,          \* the copy Failures returned
  discarded        \* resources flush gave up on (AwsObserverResourceQueueFull)

launchVars == <<launcher, wg>>
workVars   == <<worker, verdict, sent>>
callVars   == <<call, answer, done>>
chanVars   == <<stream, failures, closed>>
readVars   == <<readerWg, values, reported>>
resultVars == <<returned, read, failed>>

vars == <<launcher, wg, worker, verdict, sent, call, answer, done, stream,
          failures, closed, readerWg, values, reported, returned, read,
          failed, discarded>>

-----------------------------------------------------------------------------
(* Data. *)

Answer == [count : 0 .. MaxFound, err : BOOLEAN]

\* The zero answer a goroutine holds before FindAll has returned.
NoAnswer == [count |-> 0, err |-> FALSE]

Resource == Proxies \X (1 .. MaxFound)

\* ProxyFailure: the proxy and whether its call failed or its timer fired.
Failure == Proxies \X {"error", "timeout"}

DoneCap == 1

FailuresCapOne == 1      \* mutant: room for one failure only
FailuresCap == Cardinality(Proxies) + 1

\* What proxy p's answer holds once its worker has accepted it.
Found(p) == IF verdict[p] = "ok" THEN {p} \X (1 .. answer[p].count) ELSE {}

Resolved(p) == worker[p] \in {"returned", "exited"}

-----------------------------------------------------------------------------

Init ==
  /\ launcher = "created"
  /\ wg = {}
  /\ worker = [p \in Proxies |-> "idle"]
  /\ verdict = [p \in Proxies |-> "none"]
  /\ sent = [p \in Proxies |-> 0]
  /\ call = [p \in Proxies |-> "idle"]
  /\ answer = [p \in Proxies |-> NoAnswer]
  /\ done = [p \in Proxies |-> <<>>]
  /\ stream = <<>>
  /\ failures = <<>>
  /\ closed = {}
  /\ readerWg = {}
  /\ values = <<>>
  /\ reported = <<>>
  /\ returned = {}
  /\ read = <<>>
  /\ failed = <<>>
  /\ discarded = {}

(***************************************************************************)
(* Run and findResources.                                                   *)
(***************************************************************************)

\* Run: make the channels, NewResourceReader (which starts both its
\* goroutines), go findResources.
Run ==
  /\ launcher = "created"
  /\ launcher' = "launching"
  /\ readerWg' = {"await", "awaitFailures"}
  /\ UNCHANGED <<wg, workVars, callVars, chanVars, values, reported,
                 resultVars, discarded>>

\* mutant: wg.Add moved into the started goroutine, after the loop may end
LaunchAddLate(p) ==
  /\ launcher = "launching"
  /\ worker[p] = "idle"
  /\ worker' = [worker EXCEPT ![p] = "started"]
  /\ UNCHANGED <<launchVars, verdict, sent, callVars, chanVars, readVars,
                 resultVars, discarded>>

\* One iteration of the loop: wg.Add(1) and go.  The pool is taken in any
\* order.  The 100 ms pause that follows orders nothing, so it is not a step.
Launch(p) ==
  /\ launcher = "launching"
  /\ worker[p] = "idle"
  /\ wg' = wg \cup {p}
  /\ worker' = [worker EXCEPT ![p] = "started"]
  /\ UNCHANGED <<launcher, verdict, sent, callVars, chanVars, readVars,
                 resultVars, discarded>>

\* The loop is over and wg.Wait returns; deferred calls run last in, first
\* out, so the failure channel is closed first.
CloseFailures ==
  /\ launcher = "launching"
  /\ \A p \in Proxies : worker[p] # "idle"
  /\ wg = {}
  /\ launcher' = "closing"
  /\ closed' = closed \cup {"failures"}
  /\ UNCHANGED <<wg, workVars, callVars, stream, failures, readVars,
                 resultVars, discarded>>

CloseStream ==
  /\ launcher = "closing"
  /\ launcher' = "closed"
  /\ closed' = closed \cup {"stream"}
  /\ UNCHANGED <<wg, workVars, callVars, stream, failures, readVars,
                 resultVars, discarded>>

(***************************************************************************)
(* The goroutine that calls FindAll.                                        *)
(***************************************************************************)

\* FindAll returns: resources, an error, or both.  A region whose endpoint
\* does not route never takes this step.
FindAllReturns(p) ==
  /\ call[p] = "running"
  /\ \E a \in Answer : answer' = [answer EXCEPT ![p] = a]
  /\ call' = [call EXCEPT ![p] = "answering"]
  /\ UNCHANGED <<launchVars, workVars, done, chanVars, readVars, resultVars,
                 discarded>>

\* mutant: done is unbuffered, the send needs the worker at its select
SendAnswerUnbuffered(p) ==
  /\ call[p] = "answering"
  /\ worker[p] = "select"
  /\ done' = [done EXCEPT ![p] = Append(@, answer[p])]
  /\ call' = [call EXCEPT ![p] = "exited"]
  /\ UNCHANGED <<launchVars, workVars, answer, chanVars, readVars, resultVars,
                 discarded>>

\* done <- answer{...}, then the goroutine ends.
SendAnswer(p) ==
  /\ call[p] = "answering"
  /\ Len(done[p]) < DoneCap
  /\ done' = [done EXCEPT ![p] = Append(@, answer[p])]
  /\ call' = [call EXCEPT ![p] = "exited"]
  /\ UNCHANGED <<launchVars, workVars, answer, chanVars, readVars, resultVars,
                 discarded>>

(***************************************************************************)
(* findResourcesInRegion, one worker per proxy.                             *)
(***************************************************************************)

\* Make done, start the call's goroutine and the timer, reach the select.
StartCall(p) ==
  /\ worker[p] = "started"
  /\ worker' = [worker EXCEPT ![p] = "select"]
  /\ call' = [call EXCEPT ![p] = "running"]
  /\ UNCHANGED <<launchVars, verdict, sent, answer, done, chanVars, readVars,
                 resultVars, discarded>>

\* case got := <-done: an error is to be reported, else flush starts.
SelectAnswer(p) ==
  /\ worker[p] = "select"
  /\ done[p] # <<>>
  /\ done' = [done EXCEPT ![p] = Tail(@)]
  /\ IF Head(done[p]).err
     THEN /\ worker' = [worker EXCEPT ![p] = "report"]
          /\ verdict' = [verdict EXCEPT ![p] = "error"]
     ELSE /\ worker' = [worker EXCEPT ![p] = "flush"]
          /\ verdict' = [verdict EXCEPT ![p] = "ok"]
  /\ UNCHANGED <<launchVars, sent, call, answer, chanVars, readVars,
                 resultVars, discarded>>

\* mutant: no timer, the worker waits for the answer only
SelectTimeoutNever(p) == FALSE /\ UNCHANGED vars

\* mutant: a timed-out proxy is logged and dropped, as it used to be
SelectTimeoutSilent(p) ==
  /\ worker[p] = "select"
  /\ worker' = [worker EXCEPT ![p] = "returned"]
  /\ verdict' = [verdict EXCEPT ![p] = "timeout"]
  /\ UNCHANGED <<launchVars, sent, callVars, chanVars, readVars, resultVars,
                 discarded>>

\* case <-timer.C.  When the answer is there too, select picks either.
SelectTimeout(p) ==
  /\ worker[p] = "select"
  /\ worker' = [worker EXCEPT ![p] = "report"]
  /\ verdict' = [verdict EXCEPT ![p] = "timeout"]
  /\ UNCHANGED <<launchVars, sent, callVars, chanVars, readVars, resultVars,
                 discarded>>

\* failures <- ProxyFailure{...}: a blocking send.
Report(p) ==
  /\ worker[p] = "report"
  /\ Len(failures) < FailuresCap
  /\ failures' = Append(failures, <<p, verdict[p]>>)
  /\ worker' = [worker EXCEPT ![p] = "returned"]
  /\ UNCHANGED <<launchVars, verdict, sent, callVars, stream, closed,
                 readVars, resultVars, discarded>>

\* mutant: the loop bound is off by one
FlushOneMore(p) ==
  /\ worker[p] = "flush"
  /\ sent[p] <= answer[p].count
  /\ sent' = [sent EXCEPT ![p] = @ + 1]
  /\ stream' = Append(stream, <<p, sent[p] + 1>>)
  /\ UNCHANGED <<launchVars, worker, verdict, callVars, failures, closed,
                 readVars, resultVars, discarded>>

\* mutant: the channel counts as full one element too early
FlushFullTooEarly(p) ==
  /\ worker[p] = "flush"
  /\ sent[p] < answer[p].count
  /\ sent' = [sent EXCEPT ![p] = @ + 1]
  /\ LET r == <<p, sent[p] + 1>> IN
       IF Len(stream) + 1 < ResourceBusSize
       THEN stream' = Append(stream, r) /\ UNCHANGED discarded
       ELSE discarded' = discarded \cup {r} /\ UNCHANGED stream
  /\ UNCHANGED <<launchVars, worker, verdict, callVars, failures, closed,
                 readVars, resultVars>>

\* One iteration of flush: a send that gives up when the channel is full.
Flush(p) ==
  /\ worker[p] = "flush"
  /\ sent[p] < answer[p].count
  /\ sent' = [sent EXCEPT ![p] = @ + 1]
  /\ LET r == <<p, sent[p] + 1>> IN
       \/ /\ Len(stream) < ResourceBusSize
          /\ stream' = Append(stream, r)
          /\ UNCHANGED discarded
       \/ /\ Len(stream) = ResourceBusSize
          /\ discarded' = discarded \cup {r}
          /\ UNCHANGED stream
  /\ UNCHANGED <<launchVars, worker, verdict, callVars, failures, closed,
                 readVars, resultVars>>

FlushEnd(p) ==
  /\ worker[p] = "flush"
  /\ sent[p] = answer[p].count
  /\ worker' = [worker EXCEPT ![p] = "returned"]
  /\ UNCHANGED <<launchVars, verdict, sent, callVars, chanVars, readVars,
                 resultVars, discarded>>

\* wg.Done(), after findResourcesInRegion returned.
WorkerDone(p) ==
  /\ worker[p] = "returned"
  /\ worker' = [worker EXCEPT ![p] = "exited"]
  /\ wg' = wg \ {p}
  /\ UNCHANGED <<launcher, verdict, sent, callVars, chanVars, readVars,
                 resultVars, discarded>>

(***************************************************************************)
(* The goroutines of the reader.                                            *)
(***************************************************************************)

Await ==
  /\ "await" \in readerWg
  /\ stream # <<>>
  /\ values' = Append(values, Head(stream))
  /\ stream' = Tail(stream)
  /\ UNCHANGED <<launchVars, workVars, callVars, failures, closed, readerWg,
                 reported, resultVars, discarded>>

\* A range over a channel ends once it is closed and empty.
AwaitEnd ==
  /\ "await" \in readerWg
  /\ stream = <<>>
  /\ "stream" \in closed
  /\ readerWg' = readerWg \ {"await"}
  /\ UNCHANGED <<launchVars, workVars, callVars, chanVars, values, reported,
                 resultVars, discarded>>

AwaitFailures ==
  /\ "awaitFailures" \in readerWg
  /\ failures # <<>>
  /\ reported' = Append(reported, Head(failures))
  /\ failures' = Tail(failures)
  /\ UNCHANGED <<launchVars, workVars, callVars, stream, closed, readerWg,
                 values, resultVars, discarded>>

AwaitFailuresEnd ==
  /\ "awaitFailures" \in readerWg
  /\ failures = <<>>
  /\ "failures" \in closed
  /\ readerWg' = readerWg \ {"awaitFailures"}
  /\ UNCHANGED <<launchVars, workVars, callVars, chanVars, values, reported,
                 resultVars, discarded>>

(***************************************************************************)
(* The caller, who has the reader once Run returned.                        *)
(***************************************************************************)

Read ==
  /\ launcher # "created"
  /\ "Read" \notin returned
  /\ readerWg = {}
  /\ returned' = returned \cup {"Read"}
  /\ read' = values
  /\ UNCHANGED <<launchVars, workVars, callVars, chanVars, readVars, failed,
                 discarded>>

Failures ==
  /\ launcher # "created"
  /\ "Failures" \notin returned
  /\ readerWg = {}
  /\ returned' = returned \cup {"Failures"}
  /\ failed' = reported
  /\ UNCHANGED <<launchVars, workVars, callVars, chanVars, readVars, read,
                 discarded>>

-----------------------------------------------------------------------------

Worker(p) ==
  \/ StartCall(p)
  \/ SelectAnswer(p)
  \/ SelectTimeout(p)
  \/ Report(p)
  \/ Flush(p)
  \/ FlushEnd(p)
  \/ WorkerDone(p)

Reader == Await \/ AwaitEnd \/ AwaitFailures \/ AwaitFailuresEnd

Next ==
  \/ Run
  \/ \E p \in Proxies : Launch(p) \/ Worker(p)
  \/ CloseFailures
  \/ CloseStream
  \/ \E p \in Proxies : FindAllReturns(p) \/ SendAnswer(p)
  \/ Reader
  \/ Read
  \/ Failures

Spec == Init /\ [][Next]_vars

(***************************************************************************)
(* Every goroutine is scheduled again as long as it can run, and a timer    *)
(* fires.  Nothing makes FindAll return.                                    *)
(***************************************************************************)
Fairness ==
  /\ WF_vars(Run)
  /\ WF_vars(\E p \in Proxies : Launch(p))
  /\ WF_vars(CloseFailures \/ CloseStream)
  /\ \A p \in Proxies : WF_vars(Worker(p)) /\ WF_vars(SendAnswer(p))
  /\ WF_vars(Await \/ AwaitEnd)
  /\ WF_vars(AwaitFailures \/ AwaitFailuresEnd)
  /\ WF_vars(Read)
  /\ WF_vars(Failures)

FairSpec == Spec /\ Fairness

-----------------------------------------------------------------------------
(* Properties. *)

TypeOK ==
  /\ launcher \in {"created", "launching", "closing", "closed"}
  /\ wg \in SUBSET Proxies
  /\ worker \in [Proxies -> {"idle", "started", "select", "report", "flush",
                             "returned", "exited"}]
  /\ verdict \in [Proxies -> {"none", "ok", "error", "timeout"}]
  /\ sent \in [Proxies -> 0 .. MaxFound]
  /\ call \in [Proxies -> {"idle", "running", "answering", "exited"}]
  /\ answer \in [Proxies -> Answer]
  /\ done \in [Proxies -> Seq(Answer)]
  /\ stream \in Seq(Resource)
  /\ failures \in Seq(Failure)
  /\ closed \in SUBSET {"stream", "failures"}
  /\ readerWg \in SUBSET {"await", "awaitFailures"}
  /\ values \in Seq(Resource)
  /\ reported \in Seq(Failure)
  /\ returned \in SUBSET {"Read", "Failures"}
  /\ read \in Seq(Resource)
  /\ failed \in Seq(Failure)
  /\ discarded \in SUBSET Resource

\* Both channels stay open while any worker may still send on them, although
\* the goroutine that closes them runs beside the workers: no send on a
\* closed channel, which would panic (provider.go:96-117, 155, 173, 180).
NoSendOnClosed ==
  \A p \in Proxies :
    worker[p] \in {"idle", "started", "select", "report", "flush"} =>
      closed = {}

\* "Reporting one can never block the proxy goroutine even before the reader
\* starts draining" (provider.go:82-84): whenever a worker stands at its
\* blocking send, the failure channel has room.
ReportNeverBlocks ==
  \A p \in Proxies : worker[p] = "report" => Len(failures) < FailuresCap

AllFound == UNION {Found(p) : p \in Proxies}

\* flush gives a resource up only when the accepted answers together exceed
\* the bus, however slowly the reader drains it (provider.go:177-190).
DiscardsOnlyBeyondBus ==
  discarded # {} => Cardinality(AllFound) > ResourceBusSize

\* What the caller gets: Read and Failures return only when every proxy is
\* settled; Read lists every resource of every proxy that answered in time
\* exactly once, save those discarded; Failures names every other proxy
\* exactly once; a late answer changes neither (reader.go:68-87).
Contract == INSTANCE FanoutContract
  WITH outcome <- verdict,
       size <- [p \in Proxies |->
                  IF verdict[p] = "ok" THEN answer[p].count ELSE 0],
       lost <- discarded

ImplementsContract == Contract!Spec

\* "Without a bound, Read() waits on every proxy indefinitely" (provider.go:
\* 19-27): with it, Read and Failures both return even if no FindAll does.
ReadTerminates == <>(returned = {"Read", "Failures"})

\* The goroutine of a call that outlives its timeout completes its send into
\* done and exits once FindAll returns, rather than leak (provider.go:134-138).
AbandonedCallExits ==
  \A p \in Proxies : call[p] = "answering" ~> call[p] = "exited"

=============================================================================
