-------------------------- MODULE CachedRepository --------------------------
(***************************************************************************)
(* Calls of cached repositories over one DataCache                          *)
(* (src/service/*/cached_repository.go, src/cache/datacache.go,             *)
(* src/cache/handlers): read the handlers in order, on a miss ask AWS and   *)
(* write the answer to every handler.                                       *)
(*                                                                         *)
(* A handler's methods hold its mutex throughout, so each is one step.  The *)
(* file handler outlives the process and overwrites a file in place, so     *)
(* the bytes of earlier answers stay behind a shorter one, and behind what  *)
(* a write that fails, or that the process does not survive, got to.  Such  *)
(* torn bytes may decode or not; either way what they hold may get into the *)
(* variable of the caller, and into what a later handler decodes there.     *)
(* A whole answer of another service gob refuses before it decodes any of   *)
(* it, because the fields have other types.                                 *)
(***************************************************************************)
EXTENDS Naturals, Sequences, CachedMethods

CONSTANTS Callers,
          Calls,     \* the calls made
          Handlers,  \* the kinds of the handlers, in order
          NoArgs,    \* the arguments of a method without parameters
          None,      \* no entry, no call
          Rendering, \* Rendering[a]: arguments a as cache.Key writes and hashes them
          MaxFetch   \* answers of AWS (bound)

\* A call of a method in an account and region with certain arguments.
Call == [method : Methods, scope : {c.scope : c \in Calls},
         args : {c.args : c \in Calls}]

ASSUME CacheAssumption ==
  /\ \A c \in Calls : c \in Call
  /\ \A c \in Calls : c.method.name \in Parameterless <=> c.args = NoArgs
  /\ \A c \in Calls : c.args \in DOMAIN Rendering
  /\ Handlers \in Seq({"memory", "file"})
  /\ MaxFetch \in Nat

VARIABLES
  store,    \* store[h][k]: what handler h holds under key k
  expired,  \* the handlers and answers whose ttl has passed
  fetched,  \* complete answers of AWS so far
  pc,       \* pc[c]: where caller c is
  call,     \* call[c]: its call
  at,       \* at[c]: the handler it is to read or write next
  residue,  \* residue[c]: the calls whose answers torn bytes may have put in its variable
  hand,     \* hand[c]: what the repository returned
  result    \* result[c]: what the cached method returned

vars == <<store, expired, fetched, pc, call, at, residue, hand, result>>

Positions == DOMAIN Handlers

\* mutant: the account and region are not part of the key
KeyWithoutNamespace(c) == <<c.method.name, Rendering[c.args]>>

\* The namespace, the method and its arguments as they are rendered, which may be
\* alike where the arguments are not: not the service.
Key(c) == <<c.scope, c.method.name, Rendering[c.args]>>

Keys == {Key(c) : c \in Calls}

\* The n-th answer of AWS, to a certain call; a part of it, with an error; or a
\* nil pointer without one.
Answer == [call : Calls, n : 1 .. MaxFetch, kind : {"complete"}]
            \cup [call : Calls, n : {0}, kind : {"partial", "nil"}]

\* The last answer put in a handler, fresh until its ttl has passed.  After a write
\* that did not get to its end its bytes are torn, or the old ones under a new time.
\* "of" are the calls whose answers the bytes may be from, beyond the last one too.
Entry == [answer : Answer, fresh : BOOLEAN, bytes : {"written", "torn", "old"},
          of : (SUBSET Calls) \ {{}}]

ASSUME NoneAssumption == None \notin Calls \cup Answer \cup Entry

Init ==
  /\ store = [h \in Positions |-> [k \in Keys |-> None]]
  /\ expired = {}
  /\ fetched = 0
  /\ pc = [c \in Callers |-> "idle"]
  /\ call = [c \in Callers |-> None]
  /\ at = [c \in Callers |-> 1]
  /\ residue = [c \in Callers |-> {}]
  /\ hand = [c \in Callers |-> None]
  /\ result = [c \in Callers |-> None]

-----------------------------------------------------------------------------

Begin(c, m) ==
  /\ pc[c] \in {"idle", "returned"}
  /\ fetched < MaxFetch
  /\ pc' = [pc EXCEPT ![c] = "read"]
  /\ call' = [call EXCEPT ![c] = m]
  /\ at' = [at EXCEPT ![c] = 1]
  /\ residue' = [residue EXCEPT ![c] = {}]
  /\ hand' = [hand EXCEPT ![c] = None]
  /\ result' = [result EXCEPT ![c] = None]
  /\ UNCHANGED <<store, expired, fetched>>

Return(c, answer) ==
  /\ pc' = [pc EXCEPT ![c] = "returned"]
  /\ result' = [result EXCEPT ![c] = answer]

\* Whether gob decodes an entry into the answer type of a method: torn bytes it may.
Decodes(entry, m) ==
  IF entry.bytes = "torn" THEN BOOLEAN ELSE {entry.answer.call.method = m.method}

Live(entry) == entry # None /\ entry.fresh

\* What a handler that is read may say: that it has the answer, or that it has not.
Hits(entry, m) == IF Live(entry) THEN Decodes(entry, m) ELSE {FALSE}

\* What the decoding of an entry may leave in the variable, whatever comes of it.
Leaves(entry) == IF Live(entry) /\ entry.bytes = "torn" THEN entry.of ELSE {}

\* mutant: a hit of a later handler is copied to the ones before it
ReadHitPromotes(c) ==
  store' = [h \in Positions |->
              IF h < at[c]
                THEN [store[h] EXCEPT ![Key(call[c])] = store[at[c]][Key(call[c])]]
                ELSE store[h]]

ReadHit(c) == UNCHANGED store

\* The next handler decodes into what this one left in the variable.
Read(c) ==
  LET entry == store[at[c]][Key(call[c])] IN
  /\ pc[c] = "read" /\ at[c] \in Positions
  /\ \/ /\ TRUE \in Hits(entry, call[c])
        /\ Return(c, entry.answer)
        /\ ReadHit(c)
        /\ UNCHANGED at
     \/ /\ FALSE \in Hits(entry, call[c])
        /\ at' = [at EXCEPT ![c] = at[c] + 1]
        /\ UNCHANGED <<store, pc, result>>
  /\ residue' = [residue EXCEPT ![c] = @ \cup Leaves(entry)]
  /\ UNCHANGED <<expired, fetched, call, hand>>

\* mutant: an answer is written without a look at the error
WritesAny(answer) == answer.call.method \notin Unwritten

Writes(answer) ==
  answer.kind # "partial" /\ answer.call.method \notin Unwritten

\* The repository is asked, and its answer goes to a variable of its own; only what
\* comes without an error is written.
Fetch(c) ==
  /\ pc[c] = "read" /\ at[c] \notin Positions
  /\ \E answer \in Answer :
       /\ answer.call = call[c]
       /\ answer.kind = "complete" => fetched < MaxFetch /\ answer.n = fetched + 1
       /\ answer.kind = "nil" => call[c].method \in Nilable
       /\ answer.kind = "partial" => call[c].method \notin Unwritten
       /\ fetched' = IF answer.kind = "complete" THEN fetched + 1 ELSE fetched
       /\ hand' = [hand EXCEPT ![c] = answer]
       /\ residue' = [residue EXCEPT ![c] = {}]
       /\ IF Writes(answer)
            THEN /\ pc' = [pc EXCEPT ![c] = "write"]
                 /\ at' = [at EXCEPT ![c] = 1]
                 /\ UNCHANGED result
            ELSE Return(c, answer) /\ UNCHANGED at
  /\ UNCHANGED <<store, expired, call>>

\* gob panics on a nil pointer.  The others go on, as where the panic is recovered.
Panic(c) ==
  /\ pc[c] = "write" /\ at[c] \in Positions
  /\ hand[c].kind = "nil"
  /\ pc' = [pc EXCEPT ![c] = "panicked"]
  /\ UNCHANGED <<store, expired, fetched, call, at, residue, hand, result>>

\* The calls whose answers are in the bytes of a handler once an answer is written
\* there: a file keeps those of the earlier ones that it does not overwrite.
Overwritten(h, entry, answer) ==
  {answer.call} \cup IF Handlers[h] = "file" /\ entry # None THEN entry.of ELSE {}

\* The next handler is written whether or not this one could be.
Write(c) ==
  /\ pc[c] = "write" /\ at[c] \in Positions
  /\ hand[c].kind # "nil"
  /\ store' = [store EXCEPT ![at[c]][Key(call[c])] =
                 [answer |-> hand[c], fresh |-> TRUE, bytes |-> "written",
                  of |-> Overwritten(at[c], @, hand[c])]]
  /\ at' = [at EXCEPT ![c] = at[c] + 1]
  /\ UNCHANGED <<expired, fetched, pc, call, residue, hand, result>>

\* What a write that does not get to its end leaves: nothing yet, the old bytes
\* under a new time, or bytes of this answer before those of others.
Interrupted(h, entry, answer) ==
  {entry} \cup
    IF Handlers[h] # "file" THEN {}
    ELSE {[answer |-> answer, fresh |-> TRUE, bytes |-> "torn",
           of |-> Overwritten(h, entry, answer)]} \cup
         {[e EXCEPT !.fresh = TRUE, !.bytes = IF @ = "torn" THEN @ ELSE "old"] :
            e \in {entry} \ {None}}

\* mutant: an error of a handler is the error of the call
WriteFailedReturns(c) == Return(c, [hand[c] EXCEPT !.kind = "partial"])

WriteFailed(c) == UNCHANGED <<pc, result>>

WriteFails(c) ==
  /\ pc[c] = "write" /\ at[c] \in Positions
  /\ hand[c].kind # "nil"
  /\ \E entry \in Interrupted(at[c], store[at[c]][Key(call[c])], hand[c]) :
       store' = [store EXCEPT ![at[c]][Key(call[c])] = entry]
  /\ at' = [at EXCEPT ![c] = at[c] + 1]
  /\ WriteFailed(c)
  /\ UNCHANGED <<expired, fetched, call, residue, hand>>

WriteEnd(c) ==
  /\ pc[c] = "write" /\ at[c] \notin Positions
  /\ Return(c, hand[c])
  /\ UNCHANGED <<store, expired, fetched, call, at, residue, hand>>

\* The ttl of an entry passes: a file is too old, bigcache drops the entry.
Expire(h, k) ==
  /\ store[h][k] # None /\ store[h][k].fresh
  /\ store' = [store EXCEPT ![h][k] = IF Handlers[h] = "file"
                                        THEN [@ EXCEPT !.fresh = FALSE] ELSE None]
  /\ expired' = expired \cup {<<h, store[h][k].answer.n>>}
  /\ UNCHANGED <<fetched, pc, call, at, residue, hand, result>>

\* The process ends, perhaps within a write, and another starts: the files stay.
Restart ==
  /\ \/ store' = [h \in Positions |-> IF Handlers[h] = "file" THEN store[h]
                                      ELSE [k \in Keys |-> None]]
     \/ \E c \in Callers :
          /\ pc[c] = "write" /\ at[c] \in Positions /\ Handlers[at[c]] = "file"
          /\ hand[c].kind # "nil"
          /\ \E entry \in Interrupted(at[c], store[at[c]][Key(call[c])], hand[c]) :
               store' = [h \in Positions |->
                           IF Handlers[h] # "file" THEN [k \in Keys |-> None]
                           ELSE IF h # at[c] THEN store[h]
                           ELSE [store[h] EXCEPT ![Key(call[c])] = entry]]
  /\ pc' = [c \in Callers |-> "idle"]
  /\ call' = [c \in Callers |-> None]
  /\ at' = [c \in Callers |-> 1]
  /\ residue' = [c \in Callers |-> {}]
  /\ hand' = [c \in Callers |-> None]
  /\ result' = [c \in Callers |-> None]
  /\ UNCHANGED <<expired, fetched>>

Cached(c) ==
  \/ Read(c)
  \/ Fetch(c)
  \/ Panic(c)
  \/ Write(c)
  \/ WriteFails(c)
  \/ WriteEnd(c)

Next ==
  \/ \E c \in Callers : Cached(c) \/ \E m \in Calls : Begin(c, m)
  \/ \E h \in Positions, k \in Keys : Expire(h, k)
  \/ Restart

Spec == Init /\ [][Next]_vars

-----------------------------------------------------------------------------
(***************************************************************************)
(* Properties                                                              *)
(***************************************************************************)

TypeOK ==
  /\ store \in [Positions -> [Keys -> Entry \cup {None}]]
  /\ expired \subseteq Positions \X (0 .. MaxFetch)
  /\ fetched \in 0 .. MaxFetch
  /\ pc \in [Callers -> {"idle", "read", "write", "returned", "panicked"}]
  /\ call \in [Callers -> Calls \cup {None}]
  /\ at \in [Callers -> 1 .. Len(Handlers) + 1]
  /\ residue \in [Callers -> SUBSET Calls]
  /\ hand \in [Callers -> Answer \cup {None}]
  /\ result \in [Callers -> Answer \cup {None}]

\* Calls of one method name, account and region, with arguments rendered alike.
Alike(m, o) ==
  /\ m.scope = o.scope
  /\ m.method.name = o.method.name
  /\ Rendering[m.args] = Rendering[o.args]

\* Whatever the others write, a call returns an answer to itself, or to a call of the
\* same method whose arguments are rendered alike (datacache.go:81, key.go:71 cuts what
\* is nested deeper).  Where a write to a file broke off and the torn bytes got into
\* its variable (file.go:92), what it returns may be mixed with answers to calls of
\* its method name, account, region and arguments, of another service too: never more.
OwnAnswer ==
  \A c \in Callers :
    pc[c] = "returned" =>
      /\ \A m \in {result[c].call} \cup residue[c] : Alike(m, call[c])
      /\ residue[c] = {} => result[c].call.method = call[c].method

\* A part of an answer reaches only the call that got it from AWS, along with the
\* error: nobody else's hit returns it as if it were all
\* (cached_repository.go:36, `if r1 == nil`).
NoPartialHit ==
  \A c \in Callers :
    pc[c] = "returned" /\ result[c].kind = "partial" => hand[c] = result[c]

\* What a handler has dropped as too old it never has again as new, unless a
\* write to the file broke off before it got to the bytes (file.go:92).
TtlNotExtended ==
  \A h \in Positions, k \in Keys :
    LET entry == store[h][k] IN
    entry # None /\ entry.fresh /\ entry.bytes = "written"
      => <<h, entry.answer.n>> \notin expired

\* A call that asked AWS returns what AWS answered, whichever handlers fail
\* (cached_repository.go:37, the error of Write is dropped).
CacheFailureHarmless ==
  \A c \in Callers : pc[c] = "returned" /\ hand[c] # None => result[c] = hand[c]

=============================================================================
