---------------------------- MODULE FanoutProofs ----------------------------
(***************************************************************************)
(* Proofs about Fanout, for every finite pool, bus size and answer size.    *)
(* The inductive invariant is built in layers: types, control, then the     *)
(* two accounts of what went through the channels.                          *)
(***************************************************************************)
EXTENDS Fanout, FiniteSetTheorems, FunctionTheorems, SequenceTheorems, TLAPS

-----------------------------------------------------------------------------
(* Sequences without repetition, and a channel drained into a slice.        *)

\* Receiving from a channel into a slice leaves slice and channel together
\* the same sequence.
LEMMA ReceiveKeepsOrder ==
  ASSUME NEW S, NEW got \in Seq(S), NEW ch \in Seq(S), ch # <<>>
  PROVE  Append(got, Head(ch)) \o Tail(ch) = got \o ch
<1> DEFINE l == Append(got, Head(ch)) \o Tail(ch)
           r == got \o ch
<1>1. /\ Head(ch) \in S
      /\ Tail(ch) \in Seq(S)
      /\ Len(Tail(ch)) = Len(ch) - 1
      /\ \A i \in 1 .. Len(Tail(ch)) : Tail(ch)[i] = ch[i + 1]
      /\ Head(ch) = ch[1]
      /\ Len(ch) \in Nat \ {0}
      /\ Len(got) \in Nat
  BY HeadTailProperties, EmptySeq, LenProperties
<1>2. /\ Append(got, Head(ch)) \in Seq(S)
      /\ Len(Append(got, Head(ch))) = Len(got) + 1
      /\ \A i \in 1 .. Len(got) : Append(got, Head(ch))[i] = got[i]
      /\ Append(got, Head(ch))[Len(got) + 1] = Head(ch)
  BY <1>1, AppendProperties
<1>3. /\ l \in Seq(S)
      /\ Len(l) = Len(got) + Len(ch)
      /\ \A i \in 1 .. Len(l) :
           l[i] = IF i <= Len(got) + 1 THEN Append(got, Head(ch))[i]
                  ELSE Tail(ch)[i - (Len(got) + 1)]
  BY <1>1, <1>2, ConcatProperties
<1>4. /\ r \in Seq(S)
      /\ Len(r) = Len(got) + Len(ch)
      /\ \A i \in 1 .. Len(r) : r[i] = IF i <= Len(got) THEN got[i]
                                       ELSE ch[i - Len(got)]
  BY <1>1, ConcatProperties
<1> HIDE DEF l, r
<1>5. ASSUME NEW i \in 1 .. Len(l) PROVE l[i] = r[i]
  <2>1. CASE i <= Len(got)
    BY <2>1, <1>1, <1>2, <1>3, <1>4
  <2>2. CASE i = Len(got) + 1
    BY <2>2, <1>1, <1>2, <1>3, <1>4
  <2>3. CASE i > Len(got) + 1
    <3>1. /\ i - (Len(got) + 1) \in 1 .. Len(Tail(ch))
          /\ (i - (Len(got) + 1)) + 1 = i - Len(got)
      BY <2>3, <1>1, <1>3
    <3>2. Tail(ch)[i - (Len(got) + 1)] = ch[i - Len(got)]
      BY <3>1, <1>1
    <3> QED BY <2>3, <3>2, <1>1, <1>3, <1>4
  <2> QED BY <2>1, <2>2, <2>3, <1>1, <1>3
<1>6. l = r
  BY <1>3, <1>4, <1>5, SeqEqual
<1> QED BY <1>6 DEF l, r

\* Sending to a channel appends to slice and channel together.
LEMMA SendAppends ==
  ASSUME NEW S, NEW got \in Seq(S), NEW ch \in Seq(S), NEW e \in S
  PROVE  got \o Append(ch, e) = Append(got \o ch, e)
<1>1. /\ Append(ch, e) = ch \o <<e>>
      /\ <<e>> \in Seq(S)
      /\ got \o ch \in Seq(S)
      /\ Append(got \o ch, e) = (got \o ch) \o <<e>>
  BY AppendIsConcat, ConcatProperties
<1> QED BY <1>1, ConcatAssociative

\* Appending a new element keeps a sequence free of repetitions.
LEMMA AppendNew ==
  ASSUME NEW S, NEW s \in Seq(S), NEW e \in S
  PROVE  /\ Range(Append(s, e)) = Range(s) \cup {e}
         /\ IsInjective(s) /\ e \notin Range(s) => IsInjective(Append(s, e))
<1> DEFINE t == Append(s, e)
<1>1. /\ t \in Seq(S)
      /\ Len(t) = Len(s) + 1
      /\ \A i \in 1 .. Len(s) : t[i] = s[i]
      /\ t[Len(s) + 1] = e
      /\ Len(s) \in Nat
  BY AppendProperties, LenProperties
<1>2. DOMAIN t = 1 .. (Len(s) + 1) /\ DOMAIN s = 1 .. Len(s)
  BY <1>1, LenProperties
<1> HIDE DEF t
<1>3. Range(t) = Range(s) \cup {e}
  BY <1>1, <1>2 DEF Range
<1>4. ASSUME IsInjective(s), e \notin Range(s) PROVE IsInjective(t)
  BY <1>1, <1>2, <1>4 DEF IsInjective, Range
<1> QED BY <1>3, <1>4 DEF t

\* A sequence without repetitions is no longer than the set it draws from.
LEMMA InjectiveLen ==
  ASSUME NEW S, NEW s \in Seq(S), NEW T, IsFiniteSet(T),
         IsInjective(s), Range(s) \subseteq T
  PROVE  Len(s) <= Cardinality(T)
<1>1. /\ Len(s) \in Nat
      /\ s \in [1 .. Len(s) -> S]
      /\ DOMAIN s = 1 .. Len(s)
  BY LenProperties
<1>2. s \in Injection(1 .. Len(s), T)
  BY <1>1 DEF IsInjective, Range, Injection
<1>3. Cardinality(1 .. Len(s)) <= Cardinality(T)
  BY <1>2, FS_Injection
<1>4. Cardinality(1 .. Len(s)) = Len(s)
  BY <1>1, FS_Interval
<1> QED BY <1>3, <1>4

\* The part of a repetition-free sequence that is still in the channel.
LEMMA InjectiveSuffix ==
  ASSUME NEW S, NEW s \in Seq(S), NEW t \in Seq(S), IsInjective(s \o t)
  PROVE  /\ IsInjective(t)
         /\ Range(s \o t) = Range(s) \cup Range(t)
         /\ t = <<>> => IsInjective(s)
<1>1. /\ s \o t \in Seq(S)
      /\ Len(s \o t) = Len(s) + Len(t)
      /\ \A i \in 1 .. Len(s) + Len(t) :
           (s \o t)[i] = IF i <= Len(s) THEN s[i] ELSE t[i - Len(s)]
      /\ Len(s) \in Nat /\ Len(t) \in Nat
      /\ DOMAIN t = 1 .. Len(t)
      /\ DOMAIN (s \o t) = 1 .. (Len(s) + Len(t))
  BY ConcatProperties, LenProperties
<1>2. ASSUME NEW i \in 1 .. Len(t), NEW j \in 1 .. Len(t), t[i] = t[j]
      PROVE  i = j
  <2>1. /\ i + Len(s) \in 1 .. (Len(s) + Len(t))
        /\ j + Len(s) \in 1 .. (Len(s) + Len(t))
        /\ (i + Len(s)) - Len(s) = i /\ (j + Len(s)) - Len(s) = j
        /\ ~(i + Len(s) <= Len(s)) /\ ~(j + Len(s) <= Len(s))
    BY <1>1
  <2>2. (s \o t)[i + Len(s)] = t[i] /\ (s \o t)[j + Len(s)] = t[j]
    BY <1>1, <2>1
  <2>3. i + Len(s) = j + Len(s)
    BY <1>1, <1>2, <2>1, <2>2 DEF IsInjective
  <2> QED BY <1>1, <2>3
<1>3. IsInjective(t)
  BY <1>1, <1>2 DEF IsInjective
<1>4. Range(s \o t) = Range(s) \cup Range(t)
  BY RangeConcatenation
<1>5. t = <<>> => s \o t = s
  BY ConcatEmptySeq
<1> QED BY <1>3, <1>4, <1>5

-----------------------------------------------------------------------------
(* Control: who is where, and what that says of the channels' ends.         *)

\* What a worker's position says of its wait group, select and flush.
WorkerControl(p) ==
  /\ p \in wg <=> worker[p] \in {"started", "select", "report", "flush",
                                 "returned"}
  /\ verdict[p] = "none" <=> worker[p] \in {"idle", "started", "select"}
  /\ worker[p] = "report" => verdict[p] \in {"error", "timeout"}
  /\ worker[p] = "flush" => verdict[p] = "ok"
  /\ verdict[p] # "ok" => sent[p] = 0
  /\ verdict[p] = "ok" => sent[p] <= answer[p].count
  /\ verdict[p] = "ok" /\ Resolved(p) => sent[p] = answer[p].count

\* The goroutine of the call: its answer is in done once it has exited, and
\* an accepted answer is its answer.
CallControl(p) ==
  /\ worker[p] \in {"idle", "started"} => call[p] = "idle"
  /\ call[p] # "exited" => done[p] = <<>>
  /\ verdict[p] \in {"ok", "error"} => call[p] = "exited"
  /\ verdict[p] = "none" /\ call[p] = "exited" => done[p] = <<answer[p]>>

\* The launcher closes only after every worker has exited.
LauncherControl ==
  /\ launcher = "created" =>
       wg = {} /\ readerWg = {} /\ \A p \in Proxies : worker[p] = "idle"
  /\ "failures" \in closed <=> launcher \in {"closing", "closed"}
  /\ "stream" \in closed <=> launcher = "closed"
  /\ launcher \in {"closing", "closed"} =>
       \A p \in Proxies : worker[p] = "exited"

\* A reader goroutine that has ended saw its channel closed and empty, and a
\* call that has returned holds the final slices.
ReaderControl ==
  /\ launcher # "created" /\ "await" \notin readerWg =>
       "stream" \in closed /\ stream = <<>>
  /\ launcher # "created" /\ "awaitFailures" \notin readerWg =>
       "failures" \in closed /\ failures = <<>>
  /\ returned # {} => launcher # "created" /\ readerWg = {}
  /\ read = IF "Read" \in returned THEN values ELSE <<>>
  /\ failed = IF "Failures" \in returned THEN reported ELSE <<>>

Control ==
  /\ \A p \in Proxies : WorkerControl(p) /\ CallControl(p)
  /\ LauncherControl
  /\ ReaderControl

-----------------------------------------------------------------------------
(* The accounts: what flush and Report sent is in channel and slice, once.  *)

Flushed == {r \in Resource : r[2] <= sent[r[1]]}

\* The failures of the workers that have reported theirs.
Reported ==
  {<<p, verdict[p]>> : p \in {q \in Proxies : /\ Resolved(q)
                                              /\ verdict[q] # "ok"}}

ResourceAccount ==
  /\ Len(stream) <= ResourceBusSize
  /\ IsInjective(values \o stream)
  /\ Range(values \o stream) \cap discarded = {}
  /\ Range(values \o stream) \cup discarded = Flushed

FailureAccount ==
  /\ IsInjective(reported \o failures)
  /\ Range(reported \o failures) = Reported

IInv == TypeOK /\ Control /\ ResourceAccount /\ FailureAccount
          /\ DiscardsOnlyBeyondBus

-----------------------------------------------------------------------------
(* Types.                                                                   *)

LEMMA ActionNames ==
  ASSUME Next
  PROVE  \/ Run \/ CloseFailures \/ CloseStream \/ Await \/ AwaitEnd
         \/ AwaitFailures \/ AwaitFailuresEnd \/ Read \/ Failures
         \/ \E p \in Proxies :
              \/ Launch(p) \/ StartCall(p) \/ SelectAnswer(p)
              \/ SelectTimeout(p) \/ Report(p) \/ Flush(p) \/ FlushEnd(p)
              \/ WorkerDone(p) \/ FindAllReturns(p) \/ SendAnswer(p)
BY DEF Next, Worker, Reader

\* Every step keeps every variable in its type.
LEMMA TypeStep ==
  ASSUME TypeOK, Control, [Next]_vars
  PROVE  TypeOK'
<1> USE BoundsAssumption DEF TypeOK, launchVars, workVars, callVars, chanVars,
        readVars, resultVars
<1>1. CASE Run
  BY <1>1 DEF Run
<1>2. CASE CloseFailures
  BY <1>2 DEF CloseFailures
<1>3. CASE CloseStream
  BY <1>3 DEF CloseStream
<1>4. CASE Await
  <2>1. Head(stream) \in Resource /\ Tail(stream) \in Seq(Resource)
    BY <1>4, HeadTailProperties DEF Await
  <2>2. values' \in Seq(Resource) /\ stream' \in Seq(Resource)
    BY <1>4, <2>1, AppendProperties DEF Await
  <2> QED BY <1>4, <2>2 DEF Await
<1>5. CASE AwaitEnd
  BY <1>5 DEF AwaitEnd
<1>6. CASE AwaitFailures
  <2>1. Head(failures) \in Failure /\ Tail(failures) \in Seq(Failure)
    BY <1>6, HeadTailProperties DEF AwaitFailures
  <2>2. reported' \in Seq(Failure) /\ failures' \in Seq(Failure)
    BY <1>6, <2>1, AppendProperties DEF AwaitFailures
  <2> QED BY <1>6, <2>2 DEF AwaitFailures
<1>7. CASE AwaitFailuresEnd
  BY <1>7 DEF AwaitFailuresEnd
<1>8. CASE Read
  BY <1>8 DEF Read
<1>9. CASE Failures
  BY <1>9 DEF Failures
<1>10. ASSUME NEW p \in Proxies, Launch(p) PROVE TypeOK'
  BY <1>10 DEF Launch
<1>11. ASSUME NEW p \in Proxies, StartCall(p) PROVE TypeOK'
  BY <1>11 DEF StartCall
<1>12. ASSUME NEW p \in Proxies, SelectAnswer(p) PROVE TypeOK'
  <2>1. Tail(done[p]) \in Seq(Answer)
    BY <1>12, HeadTailProperties DEF SelectAnswer
  <2>2. done' \in [Proxies -> Seq(Answer)]
    BY <1>12, <2>1 DEF SelectAnswer
  <2> QED BY <1>12, <2>2 DEF SelectAnswer
<1>13. ASSUME NEW p \in Proxies, SelectTimeout(p) PROVE TypeOK'
  BY <1>13 DEF SelectTimeout
<1>14. ASSUME NEW p \in Proxies, Report(p) PROVE TypeOK'
  <2>1. <<p, verdict[p]>> \in Failure
    BY <1>14 DEF Report, Failure, Control, WorkerControl
  <2>2. failures' \in Seq(Failure)
    BY <1>14, <2>1, AppendProperties DEF Report
  <2> QED BY <1>14, <2>2 DEF Report
<1>15. ASSUME NEW p \in Proxies, Flush(p) PROVE TypeOK'
  <2>1. answer[p].count \in 0 .. MaxFound /\ sent[p] \in 0 .. MaxFound
    BY DEF Answer
  <2>2. sent[p] + 1 \in 1 .. MaxFound /\ sent[p] + 1 \in 0 .. MaxFound
    BY <1>15, <2>1 DEF Flush
  <2>3. <<p, sent[p] + 1>> \in Resource
    BY <2>2 DEF Resource
  <2>4. Append(stream, <<p, sent[p] + 1>>) \in Seq(Resource)
    BY <2>3, AppendProperties
  <2>5. stream' \in Seq(Resource) /\ discarded' \in SUBSET Resource
    BY <1>15, <2>3, <2>4 DEF Flush
  <2> QED BY <1>15, <2>2, <2>5 DEF Flush
<1>16. ASSUME NEW p \in Proxies, FlushEnd(p) PROVE TypeOK'
  BY <1>16 DEF FlushEnd
<1>17. ASSUME NEW p \in Proxies, WorkerDone(p) PROVE TypeOK'
  BY <1>17 DEF WorkerDone
<1>18. ASSUME NEW p \in Proxies, FindAllReturns(p) PROVE TypeOK'
  BY <1>18 DEF FindAllReturns
<1>19. ASSUME NEW p \in Proxies, SendAnswer(p) PROVE TypeOK'
  <2>1. Append(done[p], answer[p]) \in Seq(Answer)
    BY AppendProperties
  <2>2. done' \in [Proxies -> Seq(Answer)]
    BY <1>19, <2>1 DEF SendAnswer
  <2> QED BY <1>19, <2>2 DEF SendAnswer
<1>20. CASE UNCHANGED vars
  BY <1>20 DEF vars
<1> QED
  BY <1>1, <1>2, <1>3, <1>4, <1>5, <1>6, <1>7, <1>8, <1>9, <1>10, <1>11,
     <1>12, <1>13, <1>14, <1>15, <1>16, <1>17, <1>18, <1>19, <1>20,
     ActionNames

-----------------------------------------------------------------------------

\* Every step keeps Control.
LEMMA ControlStep ==
  ASSUME TypeOK, Control, [Next]_vars
  PROVE  Control'
<1> USE DEF TypeOK, Control, WorkerControl, CallControl, LauncherControl,
        ReaderControl, Resolved, launchVars, workVars, callVars, chanVars,
        readVars, resultVars
<1>1. CASE Run
  BY <1>1 DEF Run
<1>2. CASE CloseFailures
  BY <1>2 DEF CloseFailures
<1>3. CASE CloseStream
  BY <1>3 DEF CloseStream
<1>4. CASE Await
  BY <1>4 DEF Await
<1>5. CASE AwaitEnd
  BY <1>5 DEF AwaitEnd
<1>6. CASE AwaitFailures
  BY <1>6 DEF AwaitFailures
<1>7. CASE AwaitFailuresEnd
  BY <1>7 DEF AwaitFailuresEnd
<1>8. CASE Read
  BY <1>8 DEF Read
<1>9. CASE Failures
  BY <1>9 DEF Failures
<1>10. ASSUME NEW p \in Proxies, Launch(p) PROVE Control'
  BY <1>10 DEF Launch
<1>11. ASSUME NEW p \in Proxies, StartCall(p) PROVE Control'
  BY <1>11 DEF StartCall
<1>12. ASSUME NEW p \in Proxies, SelectAnswer(p) PROVE Control'
  <2>1. /\ worker[p] = "select" /\ verdict[p] = "none"
        /\ call[p] = "exited" /\ done[p] = <<answer[p]>>
    BY <1>12 DEF SelectAnswer
  <2>2. Tail(done[p]) = <<>> /\ Head(done[p]) = answer[p]
    BY <2>1
  <2>3. sent[p] = 0 /\ answer[p].count \in Nat
    BY <2>1 DEF Answer
  <2>4. done' = [done EXCEPT ![p] = <<>>]
    BY <1>12, <2>2 DEF SelectAnswer
  <2>5. \E w \in {"report", "flush"}, v \in {"error", "ok"} :
          /\ worker' = [worker EXCEPT ![p] = w]
          /\ verdict' = [verdict EXCEPT ![p] = v]
          /\ w = "flush" <=> v = "ok"
    BY <1>12 DEF SelectAnswer
  <2>6. UNCHANGED <<launcher, wg, sent, call, answer, stream, failures, closed,
                    readerWg, values, reported, returned, read, failed>>
    BY <1>12 DEF SelectAnswer
  <2>7. \A q \in Proxies : WorkerControl(q)'
    BY <2>1, <2>3, <2>5, <2>6
  <2>8. \A q \in Proxies : CallControl(q)'
    BY <2>1, <2>4, <2>5, <2>6
  <2>9. LauncherControl' /\ ReaderControl'
    BY <2>1, <2>5, <2>6
  <2> QED BY <2>7, <2>8, <2>9
<1>13. ASSUME NEW p \in Proxies, SelectTimeout(p) PROVE Control'
  BY <1>13 DEF SelectTimeout
<1>14. ASSUME NEW p \in Proxies, Report(p) PROVE Control'
  BY <1>14 DEF Report
<1>15. ASSUME NEW p \in Proxies, Flush(p) PROVE Control'
  <2>1. sent[p] \in Nat /\ answer[p].count \in Nat
    BY BoundsAssumption DEF Answer
  <2>2. /\ sent[p] + 1 <= answer[p].count
        /\ worker[p] = "flush" /\ verdict[p] = "ok"
        /\ launcher \notin {"created", "closing", "closed"}
        /\ sent' = [sent EXCEPT ![p] = sent[p] + 1]
        /\ UNCHANGED <<launcher, wg, worker, verdict, call, answer, done,
                       failures, closed, readerWg, values, reported, returned,
                       read, failed>>
    BY <1>15, <2>1 DEF Flush
  <2>3. \A q \in Proxies : WorkerControl(q)' /\ CallControl(q)'
    BY <2>1, <2>2
  <2>4. LauncherControl' /\ ReaderControl'
    BY <2>2
  <2> QED BY <2>3, <2>4
<1>16. ASSUME NEW p \in Proxies, FlushEnd(p) PROVE Control'
  BY <1>16 DEF FlushEnd
<1>17. ASSUME NEW p \in Proxies, WorkerDone(p) PROVE Control'
  BY <1>17 DEF WorkerDone
<1>18. ASSUME NEW p \in Proxies, FindAllReturns(p) PROVE Control'
  BY <1>18 DEF FindAllReturns
<1>19. ASSUME NEW p \in Proxies, SendAnswer(p) PROVE Control'
  <2>1. call[p] = "answering" /\ done[p] = <<>>
    BY <1>19 DEF SendAnswer
  <2>2. Append(done[p], answer[p]) = <<answer[p]>>
    BY <2>1
  <2>3. done' = [done EXCEPT ![p] = <<answer[p]>>]
    BY <1>19, <2>2 DEF SendAnswer
  <2>4. /\ call' = [call EXCEPT ![p] = "exited"]
        /\ UNCHANGED <<launcher, wg, worker, verdict, sent, answer, stream,
                       failures, closed, readerWg, values, reported, returned,
                       read, failed>>
    BY <1>19 DEF SendAnswer
  <2>5. \A q \in Proxies : WorkerControl(q)' /\ CallControl(q)'
    BY <2>1, <2>3, <2>4
  <2>6. LauncherControl' /\ ReaderControl'
    BY <2>4
  <2> QED BY <2>5, <2>6
<1>20. CASE UNCHANGED vars
  BY <1>20 DEF vars
<1> QED
  BY <1>1, <1>2, <1>3, <1>4, <1>5, <1>6, <1>7, <1>8, <1>9, <1>10, <1>11,
     <1>12, <1>13, <1>14, <1>15, <1>16, <1>17, <1>18, <1>19, <1>20,
     ActionNames

\* Every step but a flush or a receive leaves the resource account alone.
LEMMA ResourceStep ==
  ASSUME TypeOK, Control, ResourceAccount, [Next]_vars
  PROVE  ResourceAccount'
<1> USE DEF launchVars, workVars, callVars, chanVars, readVars, resultVars
<1>1. ASSUME UNCHANGED <<stream, values, sent, discarded>>
      PROVE  ResourceAccount'
  BY <1>1 DEF ResourceAccount, Flushed
<1>2. CASE Await
  <2>1. /\ stream # <<>>
        /\ values' \o stream' = values \o stream
        /\ UNCHANGED <<sent, discarded>>
    BY <1>2, ReceiveKeepsOrder DEF Await, TypeOK
  <2>2. Len(stream') <= ResourceBusSize
    <3>1. Len(stream') = Len(stream) - 1 /\ Len(stream) \in Nat
      BY <1>2, HeadTailProperties, LenProperties DEF Await, TypeOK
    <3> QED BY <3>1, BoundsAssumption DEF ResourceAccount
  <2> QED BY <2>1, <2>2 DEF ResourceAccount, Flushed
<1>3. ASSUME NEW p \in Proxies, Flush(p) PROVE ResourceAccount'
  <2> DEFINE r == <<p, sent[p] + 1>>
             all == values \o stream
  <2>1. /\ sent[p] \in Nat
        /\ sent[p] + 1 <= answer[p].count
        /\ answer[p].count \in 0 .. MaxFound
    BY <1>3, BoundsAssumption DEF Flush, TypeOK, Answer
  <2>2. r \in Resource /\ r \notin Flushed
    BY <2>1, BoundsAssumption DEF Resource, Flushed
  <2>3. Flushed' = Flushed \cup {r}
    <3>1. sent' = [sent EXCEPT ![p] = sent[p] + 1]
      BY <1>3 DEF Flush
    <3>2. ASSUME NEW x \in Resource
          PROVE  x[2] <= sent'[x[1]] <=> x[2] <= sent[x[1]] \/ x = r
      <4>1. /\ x[1] \in Proxies /\ x[2] \in Nat /\ x = <<x[1], x[2]>>
            /\ sent[x[1]] \in Nat
        BY <3>2, BoundsAssumption DEF Resource, TypeOK
      <4>2. CASE x[1] = p
        BY <4>1, <4>2, <3>1, <2>1 DEF TypeOK
      <4>3. CASE x[1] # p
        BY <4>1, <4>3, <3>1, <2>1 DEF TypeOK
      <4> QED BY <4>2, <4>3
    <3> QED BY <3>2, <2>2 DEF Flushed
  <2>4. /\ all \in Seq(Resource) /\ r \notin Range(all) /\ r \notin discarded
        /\ IsInjective(all) /\ Range(all) \cap discarded = {}
        /\ Range(all) \cup discarded = Flushed
    BY <2>2, ConcatProperties DEF ResourceAccount, TypeOK
  <2>5. CASE stream' = Append(stream, r) /\ UNCHANGED discarded
               /\ Len(stream) < ResourceBusSize
    <3>1. values' \o stream' = Append(all, r)
      BY <1>3, <2>2, <2>5, SendAppends DEF Flush, TypeOK
    <3>2. Range(Append(all, r)) = Range(all) \cup {r}
      BY <2>2, <2>4, AppendNew
    <3>3. IsInjective(Append(all, r))
      BY <2>2, <2>4, AppendNew
    <3>4. Len(stream') <= ResourceBusSize
      <4>1. Len(stream') = Len(stream) + 1 /\ Len(stream) \in Nat
        BY <2>2, <2>5, AppendProperties, LenProperties DEF TypeOK
      <4> QED BY <4>1, <2>5, BoundsAssumption
    <3> HIDE DEF r, all
    <3> QED BY <2>3, <2>4, <2>5, <3>1, <3>2, <3>3, <3>4
            DEF ResourceAccount
  <2>6. CASE discarded' = discarded \cup {r} /\ UNCHANGED stream
    <3>1. values' \o stream' = all
      BY <1>3, <2>6 DEF Flush
    <3> HIDE DEF r, all
    <3> QED BY <2>3, <2>4, <2>6, <3>1 DEF ResourceAccount
  <2> QED BY <1>3, <2>5, <2>6 DEF Flush
<1>4. ASSUME ~Await, \A p \in Proxies : ~Flush(p)
      PROVE  UNCHANGED <<stream, values, sent, discarded>>
  <2>1. CASE UNCHANGED vars
    BY <2>1 DEF vars
  <2>2. ASSUME NEW p \in Proxies,
               \/ Launch(p) \/ StartCall(p) \/ SelectAnswer(p)
               \/ SelectTimeout(p) \/ Report(p) \/ FlushEnd(p)
               \/ WorkerDone(p) \/ FindAllReturns(p) \/ SendAnswer(p)
        PROVE  UNCHANGED <<stream, values, sent, discarded>>
    BY <2>2 DEF Launch, StartCall, SelectAnswer, SelectTimeout, Report,
       FlushEnd, WorkerDone, FindAllReturns, SendAnswer
  <2>3. CASE Run \/ CloseFailures \/ CloseStream \/ AwaitEnd
             \/ AwaitFailures \/ AwaitFailuresEnd \/ Read \/ Failures
    BY <2>3 DEF Run, CloseFailures, CloseStream, AwaitEnd, AwaitFailures,
       AwaitFailuresEnd, Read, Failures
  <2> QED BY <1>4, <2>1, <2>2, <2>3, ActionNames
<1> QED BY <1>1, <1>2, <1>3, <1>4

\* Only a report adds a failure, and only of a proxy that had none.
LEMMA FailureStep ==
  ASSUME TypeOK, Control, FailureAccount, [Next]_vars
  PROVE  FailureAccount'
<1> USE DEF launchVars, workVars, callVars, chanVars, readVars, resultVars
<1>1. ASSUME UNCHANGED <<failures, reported>>, Reported' = Reported
      PROVE  FailureAccount'
  BY <1>1 DEF FailureAccount
<1>2. ASSUME UNCHANGED <<worker, verdict>> PROVE Reported' = Reported
  BY <1>2 DEF Reported, Resolved
<1>3. CASE AwaitFailures
  <2>1. /\ failures # <<>>
        /\ reported' \o failures' = reported \o failures
    BY <1>3, ReceiveKeepsOrder DEF AwaitFailures, TypeOK
  <2>2. UNCHANGED <<worker, verdict>>
    BY <1>3 DEF AwaitFailures
  <2> QED BY <1>2, <2>1, <2>2 DEF FailureAccount
<1>4. ASSUME NEW p \in Proxies, Report(p) PROVE FailureAccount'
  <2> DEFINE f == <<p, verdict[p]>>
             all == reported \o failures
  <2>1. /\ worker[p] = "report" /\ verdict[p] \in {"error", "timeout"}
        /\ failures' = Append(failures, f)
        /\ worker' = [worker EXCEPT ![p] = "returned"]
        /\ UNCHANGED <<verdict, reported>>
    BY <1>4 DEF Report, Control, WorkerControl
  <2>2. f \in Failure /\ f \notin Reported
    BY <2>1 DEF Failure, Reported, Resolved
  <2>3. Reported' = Reported \cup {f}
    BY <2>1 DEF Reported, Resolved, TypeOK
  <2>4. /\ all \in Seq(Failure) /\ f \notin Range(all)
        /\ IsInjective(all) /\ Range(all) = Reported
    BY <2>2, ConcatProperties DEF FailureAccount, TypeOK
  <2>5. reported' \o failures' = Append(all, f)
    BY <2>1, <2>2, SendAppends DEF TypeOK
  <2>6. Range(Append(all, f)) = Range(all) \cup {f}
    BY <2>2, <2>4, AppendNew
  <2>7. IsInjective(Append(all, f))
    BY <2>2, <2>4, AppendNew
  <2> HIDE DEF f, all
  <2> QED BY <2>3, <2>4, <2>5, <2>6, <2>7 DEF FailureAccount
<1>5. ASSUME NEW p \in Proxies,
             \/ Launch(p) \/ StartCall(p) \/ SelectAnswer(p)
             \/ SelectTimeout(p) \/ FlushEnd(p) \/ WorkerDone(p)
      PROVE  Reported' = Reported /\ UNCHANGED <<failures, reported>>
  <2>1. /\ \A q \in Proxies \ {p} : worker'[q] = worker[q]
                                      /\ verdict'[q] = verdict[q]
        /\ UNCHANGED <<failures, reported>>
    BY <1>5 DEF TypeOK, Launch, StartCall, SelectAnswer, SelectTimeout,
       FlushEnd, WorkerDone
  <2>2. \/ ~Resolved(p) /\ ~Resolved(p)'
        \/ verdict[p] = "ok" /\ verdict'[p] = "ok"
        \/ Resolved(p) /\ Resolved(p)' /\ verdict'[p] = verdict[p]
    BY <1>5 DEF TypeOK, Control, WorkerControl, Resolved, Launch, StartCall,
       SelectAnswer, SelectTimeout, FlushEnd, WorkerDone
  <2> QED BY <2>1, <2>2 DEF Reported, Resolved
<1>6. ASSUME NEW p \in Proxies, Flush(p) \/ FindAllReturns(p) \/ SendAnswer(p)
      PROVE  UNCHANGED <<worker, verdict, failures, reported>>
  BY <1>6 DEF Flush, FindAllReturns, SendAnswer
<1>7. ASSUME \/ Run \/ CloseFailures \/ CloseStream \/ Await \/ AwaitEnd
             \/ AwaitFailuresEnd \/ Read \/ Failures \/ UNCHANGED vars
      PROVE  UNCHANGED <<worker, verdict, failures, reported>>
  BY <1>7 DEF Run, CloseFailures, CloseStream, Await, AwaitEnd,
     AwaitFailuresEnd, Read, Failures, vars
<1> QED BY <1>1, <1>2, <1>3, <1>4, <1>5, <1>6, <1>7, ActionNames

\* The resources of all accepted answers, pair by pair.
LEMMA AllFoundMembers ==
  TypeOK => AllFound = {r \in Resource : /\ verdict[r[1]] = "ok"
                                         /\ r[2] <= answer[r[1]].count}
<1> SUFFICES ASSUME TypeOK
             PROVE  AllFound = {r \in Resource :
                                  /\ verdict[r[1]] = "ok"
                                  /\ r[2] <= answer[r[1]].count}
  OBVIOUS
<1> DEFINE S == {r \in Resource : /\ verdict[r[1]] = "ok"
                                  /\ r[2] <= answer[r[1]].count}
<1>1. ASSUME NEW r \in AllFound PROVE r \in S
  <2>1. PICK p \in Proxies : r \in Found(p)
    BY <1>1 DEF AllFound
  <2>2. verdict[p] = "ok" /\ r \in {p} \X (1 .. answer[p].count)
    BY <2>1 DEF Found
  <2>3. PICK k \in 1 .. answer[p].count : r = <<p, k>>
    BY <2>2
  <2>4. answer[p].count \in 0 .. MaxFound
    BY DEF TypeOK, Answer
  <2>5. k \in 1 .. MaxFound /\ k <= answer[p].count
    BY <2>3, <2>4, BoundsAssumption
  <2> QED BY <2>2, <2>3, <2>5 DEF Resource
<1>2. ASSUME NEW r \in S PROVE r \in AllFound
  <2>1. PICK p \in Proxies, k \in 1 .. MaxFound : r = <<p, k>>
    BY <1>2 DEF Resource
  <2>2. verdict[p] = "ok" /\ k <= answer[p].count
    BY <1>2, <2>1
  <2>3. answer[p].count \in 0 .. MaxFound
    BY DEF TypeOK, Answer
  <2>4. k \in 1 .. answer[p].count
    BY <2>1, <2>2, <2>3, BoundsAssumption
  <2>5. r \in Found(p)
    BY <2>1, <2>2, <2>4 DEF Found
  <2> QED BY <2>5 DEF AllFound
<1> QED BY <1>1, <1>2

LEMMA ResourcesFinite == IsFiniteSet(Resource)
<1>1. IsFiniteSet(1 .. MaxFound)
  BY FS_Interval, BoundsAssumption
<1> QED BY <1>1, ProxiesAssumption, FS_Product DEF Resource

\* An accepted answer is final: verdicts and answers of answered proxies last.
LEMMA AnswersLast ==
  ASSUME TypeOK, Control, [Next]_vars, NEW p \in Proxies, verdict[p] = "ok"
  PROVE  verdict'[p] = "ok" /\ answer'[p] = answer[p]
<1> USE DEF launchVars, workVars, callVars, chanVars, readVars, resultVars
<1>1. call[p] = "exited" /\ worker[p] # "select"
  BY DEF Control, WorkerControl, CallControl
<1>2. CASE UNCHANGED vars
  BY <1>2 DEF vars
<1>3. CASE \/ Run \/ CloseFailures \/ CloseStream \/ Await \/ AwaitEnd
           \/ AwaitFailures \/ AwaitFailuresEnd \/ Read \/ Failures
  BY <1>3 DEF Run, CloseFailures, CloseStream, Await, AwaitEnd, AwaitFailures,
     AwaitFailuresEnd, Read, Failures
<1>4. ASSUME NEW q \in Proxies, SelectAnswer(q) \/ SelectTimeout(q)
      PROVE  verdict'[p] = "ok" /\ answer'[p] = answer[p]
  BY <1>1, <1>4 DEF SelectAnswer, SelectTimeout, TypeOK
<1>5. ASSUME NEW q \in Proxies, FindAllReturns(q)
      PROVE  verdict'[p] = "ok" /\ answer'[p] = answer[p]
  BY <1>1, <1>5 DEF FindAllReturns, TypeOK
<1>6. ASSUME NEW q \in Proxies,
             \/ Launch(q) \/ StartCall(q) \/ Report(q) \/ Flush(q)
             \/ FlushEnd(q) \/ WorkerDone(q) \/ SendAnswer(q)
      PROVE  verdict'[p] = "ok" /\ answer'[p] = answer[p]
  BY <1>6 DEF Launch, StartCall, Report, Flush, FlushEnd, WorkerDone,
     SendAnswer
<1> QED BY <1>2, <1>3, <1>4, <1>5, <1>6, ActionNames

\* At the moment of a discard the channel is full of other resources found.
LEMMA DiscardStep ==
  ASSUME TypeOK, TypeOK', Control, ResourceAccount, DiscardsOnlyBeyondBus,
         [Next]_vars
  PROVE  DiscardsOnlyBeyondBus'
<1> USE DEF launchVars, workVars, callVars, chanVars, readVars, resultVars
<1>1. AllFound' = {r \in Resource : /\ verdict'[r[1]] = "ok"
                                    /\ r[2] <= answer'[r[1]].count}
  <2>1. (TypeOK => AllFound = {r \in Resource :
                                 /\ verdict[r[1]] = "ok"
                                 /\ r[2] <= answer[r[1]].count})'
    BY AllFoundMembers, PTL
  <2> QED BY <2>1
<1>2. /\ IsFiniteSet(AllFound) /\ IsFiniteSet(AllFound')
      /\ Cardinality(AllFound) \in Nat /\ Cardinality(AllFound') \in Nat
  <2>1. AllFound \in SUBSET Resource /\ AllFound' \in SUBSET Resource
    BY <1>1, AllFoundMembers
  <2>2. IsFiniteSet(AllFound) /\ IsFiniteSet(AllFound')
    BY <2>1, ResourcesFinite, FS_Subset
  <2> QED BY <2>2, FS_CardinalityType
<1>3. Cardinality(AllFound) <= Cardinality(AllFound')
  <2>1. ASSUME NEW r \in AllFound PROVE r \in AllFound'
    <3>1. r \in Resource /\ r[1] \in Proxies /\ verdict[r[1]] = "ok"
            /\ r[2] <= answer[r[1]].count
      BY <2>1, AllFoundMembers DEF Resource
    <3>2. verdict'[r[1]] = "ok" /\ answer'[r[1]] = answer[r[1]]
      BY <3>1, AnswersLast
    <3> QED BY <1>1, <3>1, <3>2
  <2>2. AllFound \in SUBSET (AllFound')
    BY <2>1
  <2> QED BY <1>2, <2>2, FS_Subset
<1>4. CASE discarded' = discarded
  BY <1>2, <1>3, <1>4, BoundsAssumption DEF DiscardsOnlyBeyondBus
<1>5. ASSUME NEW p \in Proxies, Flush(p), Len(stream) = ResourceBusSize
      PROVE  DiscardsOnlyBeyondBus'
  <2> DEFINE r == <<p, sent[p] + 1>>
             full == Append(stream, r)
  <2>1. /\ sent[p] \in Nat /\ sent[p] + 1 <= answer[p].count
        /\ answer[p].count \in 0 .. MaxFound /\ verdict[p] = "ok"
    BY <1>5, BoundsAssumption DEF Flush, TypeOK, Answer, Control,
       WorkerControl
  <2>2. r \in Resource /\ r \in AllFound /\ r \notin Flushed
    <3>1. r \in Resource
      BY <2>1, BoundsAssumption DEF Resource
    <3> QED BY <3>1, <2>1, AllFoundMembers DEF Flushed
  <2>3. Flushed \subseteq AllFound
    <3>1. ASSUME NEW x \in Flushed PROVE x \in AllFound
      <4>1. /\ x \in Resource /\ x[1] \in Proxies
            /\ x[2] \in 1 .. MaxFound /\ x[2] <= sent[x[1]]
        BY <3>1 DEF Flushed, Resource
      <4>2. /\ sent[x[1]] \in 0 .. MaxFound
            /\ answer[x[1]].count \in 0 .. MaxFound
        BY <4>1 DEF TypeOK, Answer
      <4>3. /\ verdict[x[1]] # "ok" => sent[x[1]] = 0
            /\ verdict[x[1]] = "ok" => sent[x[1]] <= answer[x[1]].count
        BY <4>1 DEF Control, WorkerControl
      <4>4. verdict[x[1]] = "ok" /\ x[2] <= answer[x[1]].count
        BY <4>1, <4>2, <4>3, BoundsAssumption
      <4> QED BY <4>1, <4>4, AllFoundMembers
    <3> QED BY <3>1
  <2>4. IsInjective(stream) /\ Range(stream) \subseteq Flushed
    BY InjectiveSuffix DEF TypeOK, ResourceAccount
  <2>5. /\ full \in Seq(Resource)
        /\ Len(full) = ResourceBusSize + 1
        /\ IsInjective(full)
        /\ Range(full) \subseteq AllFound
    <3>1. stream \in Seq(Resource) /\ r \in Resource /\ r \notin Range(stream)
      BY <2>2, <2>4 DEF TypeOK
    <3>2. full \in Seq(Resource) /\ Len(full) = ResourceBusSize + 1
      BY <1>5, <3>1, AppendProperties
    <3>3. IsInjective(full) /\ Range(full) = Range(stream) \cup {r}
      BY <2>4, <3>1, AppendNew
    <3> HIDE DEF r, full
    <3> QED BY <2>2, <2>3, <2>4, <3>2, <3>3
  <2>6. ResourceBusSize + 1 <= Cardinality(AllFound)
    BY <1>2, <2>5, InjectiveLen
  <2> QED BY <1>2, <1>3, <2>6, BoundsAssumption DEF DiscardsOnlyBeyondBus
<1>6. ASSUME NEW p \in Proxies, Flush(p), Len(stream) < ResourceBusSize
      PROVE  discarded' = discarded
  <2>1. Len(stream) # ResourceBusSize
    BY <1>6, LenProperties, BoundsAssumption DEF TypeOK
  <2> QED BY <1>6, <2>1 DEF Flush
<1>7. ASSUME \A p \in Proxies : ~Flush(p) PROVE discarded' = discarded
  <2>1. CASE UNCHANGED vars
    BY <2>1 DEF vars
  <2>2. ASSUME NEW p \in Proxies,
               \/ Launch(p) \/ StartCall(p) \/ SelectAnswer(p)
               \/ SelectTimeout(p) \/ Report(p) \/ FlushEnd(p)
               \/ WorkerDone(p) \/ FindAllReturns(p) \/ SendAnswer(p)
        PROVE  discarded' = discarded
    BY <2>2 DEF Launch, StartCall, SelectAnswer, SelectTimeout, Report,
       FlushEnd, WorkerDone, FindAllReturns, SendAnswer
  <2>3. CASE \/ Run \/ CloseFailures \/ CloseStream \/ Await \/ AwaitEnd
             \/ AwaitFailures \/ AwaitFailuresEnd \/ Read \/ Failures
    BY <2>3 DEF Run, CloseFailures, CloseStream, Await, AwaitEnd,
       AwaitFailures, AwaitFailuresEnd, Read, Failures
  <2> QED BY <1>7, <2>1, <2>2, <2>3, ActionNames
<1> QED BY <1>4, <1>5, <1>6, <1>7 DEF Flush

-----------------------------------------------------------------------------
(* The theorems.                                                            *)

LEMMA InvariantInit == Init => IInv
<1> SUFFICES ASSUME Init PROVE IInv
  OBVIOUS
<1>1. TypeOK
  BY BoundsAssumption DEF Init, TypeOK, Answer, NoAnswer
<1>2. Control
  BY DEF Init, Control, WorkerControl, CallControl, LauncherControl,
     ReaderControl, Resolved
<1>3. <<>> \o <<>> = <<>> /\ IsInjective(<<>>) /\ Range(<<>>) = {}
        /\ Len(<<>>) = 0
  BY DEF IsInjective, Range
<1>4. Flushed = {}
  BY DEF Init, Flushed, Resource
<1>5. ResourceAccount
  BY <1>3, <1>4, BoundsAssumption DEF Init, ResourceAccount
<1>6. FailureAccount
  BY <1>3 DEF Init, FailureAccount, Reported, Resolved
<1>7. DiscardsOnlyBeyondBus
  BY DEF Init, DiscardsOnlyBeyondBus
<1> QED BY <1>1, <1>2, <1>5, <1>6, <1>7 DEF IInv

LEMMA InvariantStep == IInv /\ [Next]_vars => IInv'
BY TypeStep, ControlStep, ResourceStep, FailureStep, DiscardStep DEF IInv

\* The inductive invariant holds in every run of every pool.
THEOREM Invariance == Spec => []IInv
BY InvariantInit, InvariantStep, PTL DEF Spec

\* Every variable keeps its type.
THEOREM TypeCorrect == Spec => []TypeOK
BY Invariance, PTL DEF IInv

\* No worker ever sends on a closed channel: the launcher closes only when all
\* workers have exited (Control).
THEOREM NoSendOnClosedHolds == Spec => []NoSendOnClosed
<1>1. IInv => NoSendOnClosed
  BY DEF IInv, TypeOK, Control, LauncherControl, NoSendOnClosed
<1> QED BY <1>1, Invariance, PTL

\* A worker about to report is not among those that have, and each of those
\* accounts for one failure: so len(pool)+1 always leaves room.
THEOREM ReportNeverBlocksHolds == Spec => []ReportNeverBlocks
<1>1. IInv => ReportNeverBlocks
  <2> SUFFICES ASSUME IInv, NEW p \in Proxies, worker[p] = "report"
               PROVE  Len(failures) < FailuresCap
    BY DEF ReportNeverBlocks
  <2>1. IsInjective(failures) /\ Range(failures) \subseteq Reported
    BY InjectiveSuffix DEF IInv, TypeOK, FailureAccount
  <2> DEFINE who == [i \in 1 .. Len(failures) |-> failures[i][1]]
  <2>2. Len(failures) \in Nat /\ DOMAIN failures = 1 .. Len(failures)
    BY LenProperties DEF IInv, TypeOK
  <2>3. \A i \in 1 .. Len(failures) :
          failures[i][1] \in Proxies
            /\ failures[i] = <<failures[i][1], verdict[failures[i][1]]>>
    BY <2>1, <2>2 DEF Range, Reported
  <2>4. who \in Injection(1 .. Len(failures), Proxies)
    <3>1. who \in [1 .. Len(failures) -> Proxies]
      BY <2>3
    <3>2. \A i, j \in 1 .. Len(failures) : who[i] = who[j] => i = j
      BY <2>1, <2>2, <2>3 DEF IsInjective
    <3> QED BY <3>1, <3>2, Fun_IsInj
  <2>5. Cardinality(1 .. Len(failures)) <= Cardinality(Proxies)
    BY <2>4, ProxiesAssumption, FS_Injection
  <2>6. Len(failures) <= Cardinality(Proxies)
    BY <2>2, <2>5, FS_Interval
  <2> QED BY <2>2, <2>6, ProxiesAssumption, FS_CardinalityType
          DEF FailuresCap
<1> QED BY <1>1, Invariance, PTL

\* A resource is discarded only when the accepted answers exceed the bus.
THEOREM DiscardsOnlyBeyondBusHolds == Spec => []DiscardsOnlyBeyondBus
BY Invariance, PTL DEF IInv

-----------------------------------------------------------------------------
(* Fanout implements its contract.                                          *)

SizeOf == [p \in Proxies |-> IF verdict[p] = "ok" THEN answer[p].count ELSE 0]

\* The contract speaks of the same resources.
LEMMA AnsweredIsAllFound == TypeOK => Contract!Answered = AllFound
<1> SUFFICES ASSUME TypeOK PROVE Contract!Answered = AllFound
  OBVIOUS
<1>1. ASSUME NEW p \in Proxies
      PROVE  {p} \X (1 .. SizeOf[p]) = Found(p)
  BY DEF SizeOf, Found
<1>2. Contract!Answered = UNION {{p} \X (1 .. SizeOf[p]) : p \in Proxies}
  BY DEF Contract!Answered, SizeOf
<1> QED BY <1>1, <1>2 DEF AllFound

\* Once both reader goroutines have ended, the slices are the whole account.
LEMMA DrainedIsComplete ==
  ASSUME IInv, launcher # "created", readerWg = {}
  PROVE  /\ \A p \in Proxies : verdict[p] # "none"
         /\ IsInjective(values) /\ Range(values) = AllFound \ discarded
         /\ IsInjective(reported)
         /\ Range(reported) = {<<p, verdict[p]>> :
                                 p \in {q \in Proxies : verdict[q] # "ok"}}
<1>1. /\ stream = <<>> /\ failures = <<>>
      /\ \A p \in Proxies : worker[p] = "exited"
  BY DEF IInv, Control, ReaderControl, LauncherControl
<1>2. \A p \in Proxies : verdict[p] # "none"
  BY <1>1 DEF IInv, Control, WorkerControl
<1>3. values \o stream = values /\ reported \o failures = reported
  BY <1>1, ConcatEmptySeq DEF IInv, TypeOK
<1>4. Flushed = AllFound
  <2>1. ASSUME NEW r \in Resource
        PROVE  r[2] <= sent[r[1]] <=>
                 verdict[r[1]] = "ok" /\ r[2] <= answer[r[1]].count
    <3>1. r[1] \in Proxies /\ r[2] \in 1 .. MaxFound
      BY DEF Resource
    <3>2. sent[r[1]] = IF verdict[r[1]] = "ok" THEN answer[r[1]].count ELSE 0
      BY <1>1, <3>1 DEF IInv, Control, WorkerControl, Resolved
    <3> QED BY <3>1, <3>2, BoundsAssumption
  <2> QED BY <2>1, AllFoundMembers DEF IInv, Flushed
<1>5. Range(values) = AllFound \ discarded /\ IsInjective(values)
  BY <1>3, <1>4 DEF IInv, ResourceAccount
<1>6. Reported = {<<p, verdict[p]>> :
                    p \in {q \in Proxies : verdict[q] # "ok"}}
  BY <1>1 DEF Reported, Resolved
<1> QED BY <1>2, <1>3, <1>5, <1>6 DEF IInv, FailureAccount

LEMMA ContractInit == Init => Contract!Init
BY DEF Init, Contract!Init

\* The select's outcome is the contract's step; flush may lose a resource; the
\* two calls return the complete account; every other step is a stutter.
LEMMA ContractStep ==
  ASSUME IInv, TypeOK', [Next]_vars
  PROVE  [Contract!Next]_(Contract!vars)
<1> USE DEF launchVars, workVars, callVars, chanVars, readVars, resultVars
<1> DEFINE Same == UNCHANGED <<verdict, SizeOf, discarded, returned, read,
                               failed>>
<1>0. Same => UNCHANGED Contract!vars
  BY DEF Contract!vars, SizeOf
<1>a. UNCHANGED <<verdict, answer>> => UNCHANGED SizeOf
  BY DEF SizeOf
<1>1. CASE \/ Run \/ CloseFailures \/ CloseStream \/ Await \/ AwaitEnd
           \/ AwaitFailures \/ AwaitFailuresEnd
  <2>1. UNCHANGED <<verdict, answer, discarded, returned, read, failed>>
    BY <1>1 DEF Run, CloseFailures, CloseStream, Await, AwaitEnd,
       AwaitFailures, AwaitFailuresEnd
  <2> QED BY <1>0, <1>a, <2>1
<1>2. ASSUME NEW p \in Proxies,
             \/ Launch(p) \/ StartCall(p) \/ Report(p) \/ FlushEnd(p)
             \/ WorkerDone(p) \/ SendAnswer(p)
      PROVE  [Contract!Next]_(Contract!vars)
  <2>1. UNCHANGED <<verdict, answer, discarded, returned, read, failed>>
    BY <1>2 DEF Launch, StartCall, Report, FlushEnd, WorkerDone, SendAnswer
  <2> QED BY <1>0, <1>a, <2>1
<1>3. ASSUME NEW p \in Proxies, FindAllReturns(p)
      PROVE  [Contract!Next]_(Contract!vars)
  <2>1. verdict[p] # "ok"
    BY <1>3 DEF FindAllReturns, IInv, Control, CallControl
  <2>2. /\ UNCHANGED <<verdict, discarded, returned, read, failed>>
        /\ \A q \in Proxies \ {p} : answer'[q] = answer[q]
    BY <1>3 DEF FindAllReturns, IInv, TypeOK
  <2>3. UNCHANGED SizeOf
    BY <2>1, <2>2 DEF SizeOf
  <2> QED BY <1>0, <2>2, <2>3
<1>4. ASSUME NEW p \in Proxies, SelectAnswer(p) \/ SelectTimeout(p)
      PROVE  [Contract!Next]_(Contract!vars)
  <2>1. /\ verdict[p] = "none"
        /\ UNCHANGED <<answer, discarded, returned, read, failed>>
        /\ \E v \in {"ok", "error", "timeout"} :
             verdict' = [verdict EXCEPT ![p] = v]
        /\ verdict \in [Proxies -> {"none", "ok", "error", "timeout"}]
        /\ answer \in [Proxies -> Answer]
    BY <1>4 DEF SelectAnswer, SelectTimeout, IInv, TypeOK, Control,
       WorkerControl
  <2>2. CASE verdict' = [verdict EXCEPT ![p] = "ok"]
    <3>1. SizeOf' = [SizeOf EXCEPT ![p] = SizeOf'[p]]
      BY <2>1, <2>2 DEF SizeOf
    <3>2. SizeOf'[p] \in Nat
      BY <2>1, <2>2, BoundsAssumption DEF SizeOf, Answer
    <3>3. Contract!Answer(p)
      BY <2>1, <2>2, <3>1, <3>2 DEF Contract!Answer, SizeOf
    <3> QED BY <3>3 DEF Contract!Next
  <2>3. ASSUME NEW v \in {"error", "timeout"},
               verdict' = [verdict EXCEPT ![p] = v]
        PROVE  [Contract!Next]_(Contract!vars)
    <3>1. SizeOf' = SizeOf
      BY <2>1, <2>3 DEF SizeOf
    <3>2. Contract!Fail(p)
      BY <2>1, <2>3, <3>1 DEF Contract!Fail, SizeOf
    <3> QED BY <3>2 DEF Contract!Next
  <2> QED BY <2>1, <2>2, <2>3
<1>5. ASSUME NEW p \in Proxies, Flush(p) PROVE [Contract!Next]_(Contract!vars)
  <2> DEFINE r == <<p, sent[p] + 1>>
  <2>1. UNCHANGED <<verdict, answer, returned, read, failed>>
    BY <1>5 DEF Flush
  <2>2. CASE discarded' = discarded
    BY <1>0, <1>a, <2>1, <2>2
  <2>3. CASE discarded' = discarded \cup {r}
    <3>1. /\ sent[p] \in Nat /\ sent[p] + 1 <= answer[p].count
          /\ answer[p].count \in 0 .. MaxFound /\ verdict[p] = "ok"
      BY <1>5, BoundsAssumption DEF Flush, IInv, TypeOK, Answer, Control,
         WorkerControl
    <3>2. r \in AllFound
      BY <3>1, BoundsAssumption, AllFoundMembers DEF IInv, Resource
    <3>3. r \in Contract!Answered
      BY <3>2, AnsweredIsAllFound DEF IInv
    <3>4. returned = {}
      <4>1. launcher \notin {"closing", "closed"}
        BY <1>5 DEF Flush, IInv, Control, LauncherControl
      <4> QED BY <4>1 DEF IInv, Control, LauncherControl, ReaderControl
    <3>5. Contract!Lose(r)
      BY <2>1, <2>3, <3>3, <3>4, <1>a DEF Contract!Lose, SizeOf
    <3> QED BY <3>3, <3>5 DEF Contract!Next
  <2> QED BY <1>5, <2>2, <2>3 DEF Flush
<1>6. CASE Read
  <2>1. /\ \A p \in Proxies : verdict[p] # "none"
        /\ IsInjective(values) /\ Range(values) = AllFound \ discarded
    BY <1>6, DrainedIsComplete DEF Read
  <2>2. /\ UNCHANGED <<verdict, answer, discarded, failed>>
        /\ read' = values /\ "Read" \notin returned
        /\ returned' = returned \cup {"Read"}
    BY <1>6 DEF Read
  <2>3. Contract!Settled /\ Contract!Lists(read', Contract!Answered \ discarded)
    BY <2>1, <2>2, AnsweredIsAllFound
    DEF IInv, Contract!Settled, Contract!Lists, Contract!Range, Range,
        Contract!IsInjective, IsInjective
  <2>4. Contract!Read
    BY <2>2, <2>3, <1>a DEF Contract!Read, SizeOf
  <2> QED BY <2>4 DEF Contract!Next
<1>7. CASE Failures
  <2>1. /\ \A p \in Proxies : verdict[p] # "none"
        /\ IsInjective(reported)
        /\ Range(reported) = {<<p, verdict[p]>> :
                                p \in {q \in Proxies : verdict[q] # "ok"}}
    BY <1>7, DrainedIsComplete DEF Failures
  <2>2. /\ UNCHANGED <<verdict, answer, discarded, read>>
        /\ failed' = reported /\ "Failures" \notin returned
        /\ returned' = returned \cup {"Failures"}
    BY <1>7 DEF Failures
  <2>3. /\ Contract!Settled
        /\ Contract!Lists(failed', {<<p, verdict[p]>> :
                               p \in {q \in Proxies : verdict[q] # "ok"}})
    BY <2>1, <2>2 DEF Contract!Settled, Contract!Lists, Contract!Range, Range,
       Contract!IsInjective, IsInjective
  <2>4. Contract!Failures
    BY <2>2, <2>3, <1>a DEF Contract!Failures, SizeOf
  <2> QED BY <2>4 DEF Contract!Next
<1>8. CASE UNCHANGED vars
  BY <1>0, <1>a, <1>8 DEF vars
<1> QED
  BY <1>1, <1>2, <1>3, <1>4, <1>5, <1>6, <1>7, <1>8, ActionNames

\* Read and Failures return only settled, complete, duplicate-free accounts:
\* Fanout implements FanoutContract under the mapping of Fanout!Contract.
THEOREM ContractHolds == Spec => ImplementsContract
<1>1. IInv /\ IInv' /\ [Next]_vars => [Contract!Next]_(Contract!vars)
  BY ContractStep DEF IInv
<1> QED
  BY <1>1, ContractInit, Invariance, PTL
  DEF Spec, ImplementsContract, Contract!Spec

=============================================================================
