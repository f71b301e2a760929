----------------------- MODULE CachedRepositoryProofs -----------------------
(***************************************************************************)
(* Proofs about CachedRepository, for every set of callers and calls, any   *)
(* list of handlers and any number of answers.                              *)
(***************************************************************************)
EXTENDS CachedRepository, TLAPS

-----------------------------------------------------------------------------
(* The inductive invariant. *)

\* What a handler holds is a complete answer to a call of the key it is under,
\* and no other key has the same answer.
Stored ==
  \A h \in Positions, k \in Keys :
    store[h][k] # None =>
      /\ Key(store[h][k].answer.call) = k
      /\ store[h][k].answer.kind = "complete"
      /\ store[h][k].answer.n <= fetched
      /\ \A l \in Keys :
           store[h][l] # None /\ store[h][l].answer.n = store[h][k].answer.n => l = k

\* Where a caller is tells what it has in hand and what it returned.
Asked ==
  \A c \in Callers :
    /\ pc[c] # "idle" => call[c] # None
    /\ pc[c] = "read" => hand[c] = None
    /\ pc[c] = "write" =>
         /\ hand[c] # None
         /\ hand[c].call = call[c]
         /\ hand[c].kind # "partial"
         /\ hand[c].n <= fetched
    /\ pc[c] = "returned" =>
         /\ result[c] # None
         /\ Key(result[c].call) = Key(call[c])
         /\ residue[c] = {} => result[c].call.method = call[c].method
         /\ hand[c] = None => result[c].kind = "complete"

\* The bytes of a handler, and what torn ones left in a variable, are of answers to
\* calls of the same key.
SameKey ==
  /\ \A h \in Positions, k \in Keys :
       store[h][k] # None => \A m \in store[h][k].of : Key(m) = k
  /\ \A c \in Callers : pc[c] # "idle" => \A m \in residue[c] : Key(m) = Key(call[c])

\* A caller that writes an answer is the only one that has it, and the handlers
\* still to be written have never had it.
Once ==
  \A c \in Callers :
    pc[c] = "write" /\ hand[c].kind = "complete" =>
      /\ \A d \in Callers : pc[d] = "write" /\ hand[d].n = hand[c].n => d = c
      /\ \A h \in Positions :
           h >= at[c] =>
             /\ <<h, hand[c].n>> \notin expired
             /\ \A k \in Keys : store[h][k] # None => store[h][k].answer.n # hand[c].n

\* No answer has expired before AWS gave it.
ExpiredWasFetched == \A x \in expired : x[2] <= fetched

IInv ==
  /\ TypeOK
  /\ Stored
  /\ Asked
  /\ SameKey
  /\ Once
  /\ ExpiredWasFetched
  /\ TtlNotExtended
  /\ CacheFailureHarmless

-----------------------------------------------------------------------------
(* Answers, entries and keys. *)

LEMMA AnswerFields ==
  ASSUME NEW a \in Answer
  PROVE  /\ a # None
         /\ a.call \in Calls
         /\ a.n \in 0 .. MaxFetch
         /\ a.kind \in {"complete", "partial", "nil"}
         /\ a.kind = "complete" <=> a.n # 0
BY CacheAssumption, NoneAssumption DEF Answer

LEMMA EntryFields ==
  ASSUME NEW e \in Entry
  PROVE  /\ e # None
         /\ e.answer \in Answer
         /\ e.fresh \in BOOLEAN
         /\ e.bytes \in {"written", "torn", "old"}
         /\ e.of \subseteq Calls /\ e.of # {}
BY NoneAssumption DEF Entry

LEMMA KeyIsKey ==
  ASSUME NEW m \in Calls
  PROVE  Key(m) \in Keys /\ m # None
BY NoneAssumption DEF Keys

\* Calls with the same key differ in their service, and in arguments that are
\* rendered alike, at most.
LEMMA KeyTellsAlike ==
  ASSUME NEW m \in Calls, NEW o \in Calls, Key(m) = Key(o)
  PROVE  Alike(m, o)
BY DEF Key, Alike

LEMMA PositionsAre ==
  /\ Len(Handlers) \in Nat
  /\ Positions = 1 .. Len(Handlers)
BY CacheAssumption DEF Positions

\* A write adds the call of the answer to those the bytes of a handler are of.
LEMMA OverwrittenOf ==
  ASSUME NEW h \in Positions, NEW old \in Entry \cup {None}, NEW a \in Answer
  PROVE  /\ Overwritten(h, old, a) \in (SUBSET Calls) \ {{}}
         /\ \A m \in Overwritten(h, old, a) :
              m = a.call \/ (old # None /\ m \in old.of)
BY EntryFields, AnswerFields DEF Overwritten

\* What a broken-off write leaves is an entry or nothing: the one that was there,
\* torn bytes of the answer, or the old answer under a new time; its bytes are of the
\* same calls as before, and perhaps of this one.
LEMMA InterruptedLeaves ==
  ASSUME NEW h \in Positions, NEW old \in Entry \cup {None}, NEW a \in Answer,
         NEW e \in Interrupted(h, old, a)
  PROVE  /\ e \in Entry \cup {None}
         /\ e # None => \/ e = old
                        \/ e.answer = a /\ e.bytes = "torn"
                        \/ old # None /\ e.answer = old.answer /\ e.bytes # "written"
         /\ e # None =>
              \A m \in e.of : m = a.call \/ (old # None /\ m \in old.of)
<1>1. CASE e = old
  BY <1>1
<1>2. CASE e = [answer |-> a, fresh |-> TRUE, bytes |-> "torn",
                of |-> Overwritten(h, old, a)]
  BY <1>2, OverwrittenOf DEF Entry
<1>3. CASE /\ old # None
           /\ e = [old EXCEPT !.fresh = TRUE,
                              !.bytes = IF @ = "torn" THEN @ ELSE "old"]
  BY <1>3 DEF Entry
<1> QED BY <1>1, <1>2, <1>3 DEF Interrupted

-----------------------------------------------------------------------------
(* Changes of the store. *)

\* Every answer that is held was held in the same place before, but perhaps one,
\* which is new to its handler.
LEMMA StoredKept ==
  ASSUME IInv, NEW g \in Positions, NEW j \in Keys, NEW a \in Answer,
         fetched' \in Nat, fetched <= fetched',
         Key(a.call) = j, a.kind = "complete", a.n <= fetched',
         \A k \in Keys : store[g][k] # None => store[g][k].answer.n # a.n,
         \A h \in Positions, k \in Keys :
           store'[h][k] # None =>
             \/ store[h][k] # None /\ store'[h][k].answer = store[h][k].answer
             \/ h = g /\ k = j /\ store'[h][k].answer = a
  PROVE  Stored'
<1>1. /\ fetched \in Nat
      /\ \A h \in Positions, k \in Keys :
           store[h][k] # None => store[h][k].answer.n \in Nat
  BY EntryFields, AnswerFields, CacheAssumption DEF IInv, TypeOK
<1> SUFFICES ASSUME NEW h \in Positions, NEW k \in Keys, store'[h][k] # None
             PROVE  /\ Key(store'[h][k].answer.call) = k
                    /\ store'[h][k].answer.kind = "complete"
                    /\ store'[h][k].answer.n <= fetched'
                    /\ \A l \in Keys :
                         store'[h][l] # None
                           /\ store'[h][l].answer.n = store'[h][k].answer.n => l = k
  BY DEF Stored
<1>2. /\ Key(store'[h][k].answer.call) = k
      /\ store'[h][k].answer.kind = "complete"
      /\ store'[h][k].answer.n <= fetched'
  BY <1>1 DEF IInv, Stored
<1>3. ASSUME NEW l \in Keys, store'[h][l] # None,
             store'[h][l].answer.n = store'[h][k].answer.n
      PROVE  l = k
  <2>1. CASE store'[h][k].answer = a /\ h = g /\ k = j
    BY <1>3, <2>1
  <2>2. CASE store'[h][l].answer = a /\ h = g /\ l = j
    BY <1>3, <2>2
  <2>3. CASE /\ store[h][k] # None /\ store'[h][k].answer = store[h][k].answer
             /\ store[h][l] # None /\ store'[h][l].answer = store[h][l].answer
    BY <1>3, <2>3 DEF IInv, Stored
  <2> QED BY <1>3, <2>1, <2>2, <2>3
<1> QED BY <1>2, <1>3

\* No handler gets an answer it has not had.
LEMMA StoredSame ==
  ASSUME IInv, fetched' \in Nat, fetched <= fetched',
         \A h \in Positions, k \in Keys :
           store'[h][k] # None =>
             store[h][k] # None /\ store'[h][k].answer = store[h][k].answer
  PROVE  Stored'
<1>1. /\ fetched \in Nat
      /\ \A h \in Positions, k \in Keys :
           store[h][k] # None => store[h][k].answer.n \in Nat
  BY EntryFields, AnswerFields, CacheAssumption DEF IInv, TypeOK
<1> QED BY <1>1 DEF IInv, Stored

-----------------------------------------------------------------------------
(* Every step keeps the invariant. *)

LEMMA InitInvariant == Init => IInv
<1> SUFFICES ASSUME Init PROVE IInv
  OBVIOUS
<1> USE DEF Init
<1>1. TypeOK
  BY CacheAssumption, PositionsAre DEF TypeOK
<1>2. Stored /\ SameKey /\ TtlNotExtended
  BY DEF Stored, SameKey, TtlNotExtended
<1>3. Asked /\ Once /\ ExpiredWasFetched /\ CacheFailureHarmless
  BY DEF Asked, Once, ExpiredWasFetched, CacheFailureHarmless
<1> QED BY <1>1, <1>2, <1>3 DEF IInv

LEMMA BeginKeeps ==
  ASSUME IInv, NEW c \in Callers, NEW m \in Calls, Begin(c, m)
  PROVE  IInv'
<1> USE DEF IInv, Begin
<1>1. TypeOK'
  BY PositionsAre DEF TypeOK
<1>2. Stored'
  BY StoredSame, CacheAssumption DEF TypeOK
<1>3. Asked'
  BY KeyIsKey DEF Asked, TypeOK
<1>4. Once' /\ CacheFailureHarmless'
  BY DEF Once, CacheFailureHarmless, TypeOK
<1>5. ExpiredWasFetched' /\ TtlNotExtended'
  BY DEF ExpiredWasFetched, TtlNotExtended
<1>6. SameKey'
  BY DEF SameKey, TypeOK
<1> QED BY <1>1, <1>2, <1>3, <1>4, <1>5, <1>6

LEMMA ReadKeeps ==
  ASSUME IInv, NEW c \in Callers, Read(c)
  PROVE  IInv'
<1> USE DEF IInv, Read, Return, ReadHit
<1> DEFINE entry == store[at[c]][Key(call[c])]
<1>1. /\ call[c] \in Calls
      /\ hand[c] = None
      /\ at[c] \in 1 .. Len(Handlers)
      /\ entry \in Entry \cup {None}
      /\ pc[c] = "read"
  BY KeyIsKey, PositionsAre DEF Asked, TypeOK
<1>2. UNCHANGED <<store, expired, fetched, call, hand>>
  OBVIOUS
<1>3. residue' = [residue EXCEPT ![c] = @ \cup Leaves(entry)]
  OBVIOUS
<1>4. /\ Leaves(entry) \subseteq Calls
      /\ \A m \in Leaves(entry) : Key(m) = Key(call[c])
      /\ Live(entry) /\ entry.bytes = "torn" => Leaves(entry) = entry.of
  BY <1>1, KeyIsKey, EntryFields DEF Leaves, Live, SameKey
<1>5. residue' \in [Callers -> SUBSET Calls] /\ SameKey'
  <2>1. /\ residue' \in [Callers -> SUBSET Calls]
        /\ residue'[c] = residue[c] \cup Leaves(entry)
        /\ \A d \in Callers : d # c => residue'[d] = residue[d]
    BY <1>3, <1>4 DEF TypeOK
  <2>2. \A d \in Callers : pc'[d] # "idle" => pc[d] # "idle"
    BY <1>1 DEF TypeOK
  <2> HIDE DEF entry
  <2>3. ASSUME NEW d \in Callers, pc'[d] # "idle", NEW m \in residue'[d]
        PROVE  Key(m) = Key(call'[d])
    BY <1>2, <1>4, <2>1, <2>2, <2>3 DEF SameKey
  <2> QED BY <1>2, <2>1, <2>3 DEF SameKey
<1>6. CASE /\ TRUE \in Hits(entry, call[c])
           /\ Return(c, entry.answer)
           /\ UNCHANGED at
  <2>1. Live(entry) /\ TRUE \in Decodes(entry, call[c])
    BY <1>6 DEF Hits
  <2>2. /\ entry.answer \in Answer /\ entry.answer # None
        /\ entry.answer.kind = "complete"
        /\ Key(entry.answer.call) = Key(call[c])
    BY <1>1, <2>1, KeyIsKey, EntryFields, AnswerFields DEF Live, Stored
  <2>3. residue'[c] = {} => entry.answer.call.method = call[c].method
    <3>1. CASE entry.bytes = "torn"
      <4>1. entry.of # {}
        BY <1>1, <2>1, EntryFields DEF Live
      <4> QED BY <1>3, <1>4, <2>1, <3>1, <4>1 DEF TypeOK
    <3>2. CASE entry.bytes # "torn"
      BY <2>1, <3>2 DEF Decodes
    <3> QED BY <3>1, <3>2
  <2>4. /\ pc' = [pc EXCEPT ![c] = "returned"]
        /\ result' = [result EXCEPT ![c] = entry.answer]
        /\ at' = at
    BY <1>6
  <2>5. TypeOK'
    BY <1>5, <2>2, <2>4 DEF TypeOK
  <2>6. Asked' /\ CacheFailureHarmless'
    <3>1. /\ pc'[c] = "returned" /\ result'[c] = entry.answer
          /\ \A d \in Callers \ {c} :
               pc'[d] = pc[d] /\ result'[d] = result[d] /\ residue'[d] = residue[d]
      BY <1>3, <2>4 DEF TypeOK
    <3> HIDE DEF entry, Read, Return
    <3>2. Asked'
      BY <1>1, <1>2, <2>2, <2>3, <3>1 DEF Asked
    <3>3. CacheFailureHarmless'
      BY <1>1, <1>2, <3>1 DEF CacheFailureHarmless
    <3> QED BY <3>2, <3>3
  <2>7. Once'
    BY <2>4 DEF Once, TypeOK
  <2> HIDE DEF entry
  <2>8. Stored' /\ ExpiredWasFetched' /\ TtlNotExtended'
    BY <1>2 DEF Stored, ExpiredWasFetched, TtlNotExtended
  <2> QED BY <1>5, <2>5, <2>6, <2>7, <2>8
<1>7. CASE /\ at' = [at EXCEPT ![c] = at[c] + 1]
           /\ UNCHANGED <<pc, result>>
  <2>1. TypeOK'
    BY <1>1, <1>5, <1>7, PositionsAre DEF TypeOK
  <2>2. Asked' /\ CacheFailureHarmless'
    <3>1. \A d \in Callers : d # c => residue'[d] = residue[d]
      BY <1>3 DEF TypeOK
    <3> QED BY <1>1, <1>2, <1>7, <3>1 DEF Asked, CacheFailureHarmless
  <2>3. Once'
    BY <1>7 DEF Once, TypeOK
  <2> HIDE DEF entry
  <2>4. Stored' /\ ExpiredWasFetched' /\ TtlNotExtended'
    BY <1>2 DEF Stored, ExpiredWasFetched, TtlNotExtended
  <2> QED BY <1>5, <2>1, <2>2, <2>3, <2>4
<1> QED BY <1>6, <1>7

LEMMA FetchKeeps ==
  ASSUME IInv, NEW c \in Callers, Fetch(c)
  PROVE  IInv'
<1> USE DEF IInv, Fetch, Return
<1>1. PICK answer \in Answer :
        /\ answer.call = call[c]
        /\ answer.kind = "complete" => fetched < MaxFetch /\ answer.n = fetched + 1
        /\ fetched' = IF answer.kind = "complete" THEN fetched + 1 ELSE fetched
        /\ hand' = [hand EXCEPT ![c] = answer]
        /\ residue' = [residue EXCEPT ![c] = {}]
        /\ IF Writes(answer)
             THEN /\ pc' = [pc EXCEPT ![c] = "write"]
                  /\ at' = [at EXCEPT ![c] = 1]
                  /\ UNCHANGED result
             ELSE Return(c, answer) /\ UNCHANGED at
  OBVIOUS
<1>2. /\ answer # None
      /\ answer.n \in 0 .. MaxFetch
      /\ answer.kind # "complete" => answer.n = 0
      /\ fetched \in Nat
      /\ Writes(answer) => answer.kind # "partial"
  BY <1>1, AnswerFields, CacheAssumption DEF TypeOK, Writes
<1>3. /\ answer.n <= fetched'
      /\ fetched' \in 0 .. MaxFetch
      /\ fetched <= fetched'
  BY <1>1, <1>2, CacheAssumption DEF TypeOK
<1> HIDE DEF Fetch
<1>4. TypeOK'
  <2>1. /\ pc' \in [Callers -> {"idle", "read", "write", "returned", "panicked"}]
        /\ at' \in [Callers -> 1 .. Len(Handlers) + 1]
    <3>1. CASE Writes(answer)
      <4>1. 1 \in 1 .. Len(Handlers) + 1
        BY PositionsAre
      <4> QED BY <1>1, <3>1, <4>1 DEF TypeOK
    <3>2. CASE ~Writes(answer)
      BY <1>1, <3>2 DEF TypeOK
    <3> QED BY <3>1, <3>2
  <2>2. result' \in [Callers -> Answer \cup {None}]
    <3>1. CASE Writes(answer)
      BY <1>1, <3>1 DEF TypeOK
    <3>2. CASE ~Writes(answer)
      BY <1>1, <3>2 DEF TypeOK
    <3> QED BY <3>1, <3>2
  <2>3. /\ hand' \in [Callers -> Answer \cup {None}]
        /\ residue' \in [Callers -> SUBSET Calls]
    BY <1>1 DEF TypeOK
  <2> QED BY <1>3, <2>1, <2>2, <2>3 DEF TypeOK, Fetch
<1>5. Stored'
  BY <1>3, StoredSame, CacheAssumption DEF TypeOK, Fetch
<1>6. Asked' /\ CacheFailureHarmless'
  <2>1. ASSUME NEW d \in Callers, d # c
        PROVE  /\ pc'[d] = pc[d] /\ hand'[d] = hand[d]
               /\ call'[d] = call[d] /\ result'[d] = result[d]
               /\ residue'[d] = residue[d]
    BY <1>1, <2>1 DEF TypeOK, Fetch
  <2>2. ASSUME NEW d \in Callers, hand[d] # None
        PROVE  hand[d].n \in Nat
    BY <2>2, AnswerFields, CacheAssumption DEF TypeOK
  <2>3. CASE Writes(answer)
    BY <1>1, <1>2, <1>3, <2>1, <2>2, <2>3 DEF Asked, CacheFailureHarmless, TypeOK, Fetch
  <2>4. CASE ~Writes(answer)
    BY <1>1, <1>2, <1>3, <2>1, <2>2, <2>4 DEF Asked, CacheFailureHarmless, TypeOK, Fetch
  <2> QED BY <2>3, <2>4
<1>7. ExpiredWasFetched'
  BY <1>2, <1>3 DEF ExpiredWasFetched, TypeOK, Fetch
<1>8. TtlNotExtended'
  BY DEF TtlNotExtended, Fetch
<1>9. Once'
  <2>1. ASSUME NEW d \in Callers, d # c
        PROVE  /\ pc'[d] = pc[d] /\ hand'[d] = hand[d] /\ at'[d] = at[d]
               /\ pc[d] = "write" => hand[d].n \in Nat /\ hand[d].n <= fetched
    BY <1>1, <2>1, AnswerFields DEF TypeOK, Asked, Fetch
  <2>2. ASSUME answer.kind = "complete"
        PROVE  /\ \A h \in Positions : <<h, answer.n>> \notin expired
               /\ \A h \in Positions, k \in Keys :
                    store[h][k] # None => store[h][k].answer.n # answer.n
    <3>1. answer.n = fetched + 1
      BY <1>1, <2>2
    <3>2. ASSUME NEW h \in Positions, <<h, answer.n>> \in expired
          PROVE  FALSE
      BY <3>1, <3>2, <1>2 DEF ExpiredWasFetched
    <3>3. ASSUME NEW h \in Positions, NEW k \in Keys, store[h][k] # None
          PROVE  store[h][k].answer.n \in Nat /\ store[h][k].answer.n <= fetched
      BY <3>3, EntryFields, AnswerFields DEF TypeOK, Stored
    <3> QED BY <3>1, <3>2, <3>3, <1>2
  <2>3. hand'[c] = answer /\ UNCHANGED <<store, expired>>
    BY <1>1 DEF TypeOK, Fetch
  <2>4. ASSUME NEW d \in Callers, pc'[d] = "write", hand'[d].kind = "complete",
               NEW o \in Callers, pc'[o] = "write", hand'[o].n = hand'[d].n
        PROVE  o = d
    <3>1. CASE d = c /\ o # c
      BY <1>1, <1>2, <2>1, <2>3, <2>4, <3>1
    <3>2. CASE d # c /\ o = c
      <4>1. hand[d] # None /\ hand[d] \in Answer /\ hand[d].n # 0
        BY <2>1, <2>4, <3>2, AnswerFields DEF Asked, TypeOK
      <4> QED BY <1>1, <1>2, <2>1, <2>3, <2>4, <3>2, <4>1
    <3>3. CASE d # c /\ o # c
      BY <2>1, <2>4, <3>3 DEF Once
    <3> QED BY <3>1, <3>2, <3>3
  <2>5. ASSUME NEW d \in Callers, pc'[d] = "write", hand'[d].kind = "complete",
               NEW h \in Positions, h >= at'[d]
        PROVE  /\ <<h, hand'[d].n>> \notin expired'
               /\ \A k \in Keys :
                    store'[h][k] # None => store'[h][k].answer.n # hand'[d].n
    <3>1. CASE d = c
      BY <2>2, <2>3, <2>5, <3>1
    <3>2. CASE d # c
      BY <2>1, <2>3, <2>5, <3>2 DEF Once
    <3> QED BY <3>1, <3>2
  <2> QED BY <2>4, <2>5 DEF Once
<1>10. SameKey'
  <2>1. /\ residue'[c] = {}
        /\ \A d \in Callers : d # c => residue'[d] = residue[d] /\ pc'[d] = pc[d]
        /\ UNCHANGED <<store, call>>
    BY <1>1 DEF TypeOK, Fetch
  <2> QED BY <2>1 DEF SameKey
<1> QED BY <1>4, <1>5, <1>6, <1>7, <1>8, <1>9, <1>10

LEMMA PanicKeeps ==
  ASSUME IInv, NEW c \in Callers, Panic(c)
  PROVE  IInv'
<1> USE DEF IInv, Panic
<1>1. TypeOK'
  BY DEF TypeOK
<1>2. Asked' /\ Once' /\ CacheFailureHarmless'
  BY DEF Asked, Once, CacheFailureHarmless, TypeOK
<1>3. Stored' /\ ExpiredWasFetched' /\ TtlNotExtended'
  BY DEF Stored, ExpiredWasFetched, TtlNotExtended
<1>4. SameKey'
  BY DEF SameKey, TypeOK, Asked
<1> QED BY <1>1, <1>2, <1>3, <1>4

\* A caller at a handler to write: where the entry goes and what is written.
LEMMA AtAHandler ==
  ASSUME IInv, NEW c \in Callers, pc[c] = "write", at[c] \in Positions,
         hand[c].kind # "nil"
  PROVE  /\ Key(call[c]) \in Keys
         /\ hand[c] \in Answer
         /\ Key(hand[c].call) = Key(call[c])
         /\ hand[c].kind = "complete"
         /\ hand[c].n <= fetched
         /\ at[c] \in 1 .. Len(Handlers)
         /\ <<at[c], hand[c].n>> \notin expired
         /\ \A k \in Keys :
              store[at[c]][k] # None => store[at[c]][k].answer.n # hand[c].n
<1>1. call[c] \in Calls /\ hand[c] \in Answer /\ hand[c].call = call[c]
  BY DEF IInv, Asked, TypeOK
<1>2. hand[c].kind = "complete" /\ hand[c].n <= fetched
  BY <1>1, AnswerFields DEF IInv, Asked
<1>3. at[c] \in 1 .. Len(Handlers)
  BY PositionsAre
<1>4. at[c] >= at[c]
  BY <1>3, PositionsAre
<1> QED BY <1>1, <1>2, <1>3, <1>4, KeyIsKey DEF IInv, Once

\* Once a handler is behind a caller, what it holds of its answer is its own.
LEMMA OnceKept ==
  ASSUME IInv, NEW c \in Callers, pc[c] = "write", at[c] \in Positions,
         hand[c].kind # "nil",
         at' = [at EXCEPT ![c] = at[c] + 1], UNCHANGED <<pc, hand, expired>>,
         NEW j \in Keys,
         \A h \in Positions, k \in Keys :
           store'[h][k] # None =>
             \/ store[h][k] # None /\ store'[h][k].answer = store[h][k].answer
             \/ h = at[c] /\ k = j /\ store'[h][k].answer = hand[c]
  PROVE  Once'
<1>1. /\ at[c] \in 1 .. Len(Handlers)
      /\ Len(Handlers) \in Nat
      /\ Positions = 1 .. Len(Handlers)
      /\ hand[c].kind = "complete"
  BY AtAHandler, PositionsAre
<1> SUFFICES ASSUME NEW d \in Callers, pc[d] = "write", hand[d].kind = "complete",
                    NEW h \in Positions, h >= at'[d]
             PROVE  /\ <<h, hand[d].n>> \notin expired
                    /\ \A k \in Keys :
                         store'[h][k] # None => store'[h][k].answer.n # hand[d].n
  BY DEF Once, IInv
<1>2. at'[d] >= at[d] /\ h >= at[d] /\ (d = c => h # at[c])
  BY <1>1 DEF IInv, TypeOK
<1>3. <<h, hand[d].n>> \notin expired
  BY <1>2 DEF IInv, Once
<1>4. ASSUME NEW k \in Keys, store'[h][k] # None
      PROVE  store'[h][k].answer.n # hand[d].n
  <2>1. store[h][k] # None => store[h][k].answer.n # hand[d].n
    BY <1>2 DEF IInv, Once
  <2>2. CASE h = at[c] /\ k = j /\ store'[h][k].answer = hand[c]
    BY <1>1, <1>2, <2>2 DEF IInv, Once
  <2> QED BY <1>4, <2>1, <2>2
<1> QED BY <1>3, <1>4

\* What a caller writes, wholly or in part, is new to the handler it writes to.
LEMMA WritesKeep ==
  ASSUME IInv, NEW c \in Callers, pc[c] = "write", at[c] \in Positions,
         hand[c].kind # "nil",
         at' = [at EXCEPT ![c] = at[c] + 1],
         UNCHANGED <<expired, fetched, pc, call, residue, hand, result>>,
         \A h \in Positions, k \in Keys :
           store'[h][k] # None =>
             \/ store[h][k] # None /\ store'[h][k].answer = store[h][k].answer
             \/ h = at[c] /\ k = Key(call[c]) /\ store'[h][k].answer = hand[c],
         \A h \in Positions, k \in Keys :
           store'[h][k] # None =>
             \/ store'[h][k] = store[h][k]
             \/ /\ h = at[c] /\ k = Key(call[c])
                /\ \A m \in store'[h][k].of :
                     \/ m = hand[c].call
                     \/ store[h][k] # None /\ m \in store[h][k].of
  PROVE  /\ Stored' /\ Once' /\ Asked' /\ SameKey'
         /\ CacheFailureHarmless' /\ ExpiredWasFetched'
<1>1. /\ Key(call[c]) \in Keys
      /\ hand[c] \in Answer
      /\ Key(hand[c].call) = Key(call[c])
      /\ hand[c].kind = "complete"
      /\ hand[c].n <= fetched'
      /\ \A k \in Keys :
           store[at[c]][k] # None => store[at[c]][k].answer.n # hand[c].n
  BY AtAHandler
<1>2. fetched' \in Nat /\ fetched <= fetched'
  BY CacheAssumption DEF IInv, TypeOK
<1>3. Stored'
  BY <1>1, <1>2, StoredKept
<1>4. Once'
  BY <1>1, OnceKept
<1>5. Asked' /\ CacheFailureHarmless' /\ ExpiredWasFetched'
  BY DEF IInv, Asked, CacheFailureHarmless, ExpiredWasFetched
<1>6. SameKey'
  <2>1. \A h \in Positions, k \in Keys :
          store'[h][k] # None => \A m \in store'[h][k].of : Key(m) = k
    BY <1>1 DEF IInv, SameKey
  <2> QED BY <2>1 DEF IInv, SameKey
<1> QED BY <1>3, <1>4, <1>5, <1>6

LEMMA WriteKeeps ==
  ASSUME IInv, NEW c \in Callers, Write(c)
  PROVE  IInv'
<1> USE DEF Write
<1> DEFINE old == store[at[c]][Key(call[c])]
           new == [answer |-> hand[c], fresh |-> TRUE, bytes |-> "written",
                   of |-> Overwritten(at[c], old, hand[c])]
<1>0. old \in Entry \cup {None} /\ hand[c] \in Answer
  <2>1. Key(call[c]) \in Keys /\ hand[c] \in Answer /\ at[c] \in Positions
    BY AtAHandler
  <2>2. store \in [Positions -> [Keys -> Entry \cup {None}]]
    BY DEF IInv, TypeOK
  <2> QED BY <2>1, <2>2
<1>1. new \in Entry
  BY <1>0, OverwrittenOf DEF Entry
<1>2. \A h \in Positions, k \in Keys :
        store'[h][k] = IF h = at[c] /\ k = Key(call[c]) THEN new ELSE store[h][k]
  BY AtAHandler DEF IInv, TypeOK
<1>3. /\ new.answer = hand[c]
      /\ \A m \in new.of : m = hand[c].call \/ (old # None /\ m \in old.of)
  BY <1>0, OverwrittenOf
<1> HIDE DEF new, old
<1>4. TypeOK'
  <2>1. store' \in [Positions -> [Keys -> Entry \cup {None}]]
    BY <1>1, AtAHandler DEF IInv, TypeOK, new, old
  <2> QED BY <2>1, AtAHandler, PositionsAre DEF IInv, TypeOK
<1>5. \A h \in Positions, k \in Keys :
        store'[h][k] # None =>
          \/ store[h][k] # None /\ store'[h][k].answer = store[h][k].answer
          \/ h = at[c] /\ k = Key(call[c]) /\ store'[h][k].answer = hand[c]
  BY <1>2, <1>3
<1>6. /\ Stored' /\ Once' /\ Asked' /\ SameKey'
      /\ CacheFailureHarmless' /\ ExpiredWasFetched'
  <2>1. \A h \in Positions, k \in Keys :
          store'[h][k] # None =>
            \/ store'[h][k] = store[h][k]
            \/ /\ h = at[c] /\ k = Key(call[c])
               /\ \A m \in store'[h][k].of :
                    \/ m = hand[c].call
                    \/ store[h][k] # None /\ m \in store[h][k].of
    BY <1>2, <1>3 DEF old
  <2> QED BY <1>5, <2>1, WritesKeep
<1>7. TtlNotExtended'
  BY <1>2, <1>3, AtAHandler DEF IInv, TtlNotExtended
<1> QED BY <1>4, <1>6, <1>7 DEF IInv

LEMMA WriteFailsKeeps ==
  ASSUME IInv, NEW c \in Callers, WriteFails(c)
  PROVE  IInv'
<1> USE DEF WriteFails, WriteFailed
<1>1. PICK entry \in Interrupted(at[c], store[at[c]][Key(call[c])], hand[c]) :
        store' = [store EXCEPT ![at[c]][Key(call[c])] = entry]
  OBVIOUS
<1> DEFINE old == store[at[c]][Key(call[c])]
<1>2. old \in Entry \cup {None} /\ hand[c] \in Answer
  <2>1. Key(call[c]) \in Keys /\ hand[c] \in Answer /\ at[c] \in Positions
    BY AtAHandler
  <2>2. store \in [Positions -> [Keys -> Entry \cup {None}]]
    BY DEF IInv, TypeOK
  <2> QED BY <2>1, <2>2
<1>3. /\ entry \in Entry \cup {None}
      /\ entry # None => \/ entry = old
                         \/ entry.answer = hand[c] /\ entry.bytes = "torn"
                         \/ old # None /\ entry.answer = old.answer
                              /\ entry.bytes # "written"
      /\ entry # None =>
           \A m \in entry.of : m = hand[c].call \/ (old # None /\ m \in old.of)
  BY <1>2, InterruptedLeaves
<1>4. \A h \in Positions, k \in Keys :
        store'[h][k] = IF h = at[c] /\ k = Key(call[c]) THEN entry ELSE store[h][k]
  BY <1>1, AtAHandler DEF IInv, TypeOK
<1>5. TypeOK'
  <2>1. store' \in [Positions -> [Keys -> Entry \cup {None}]]
    BY <1>1, <1>3, AtAHandler DEF IInv, TypeOK
  <2> QED BY <2>1, AtAHandler, PositionsAre DEF IInv, TypeOK
<1>6. \A h \in Positions, k \in Keys :
        store'[h][k] # None =>
          \/ store[h][k] # None /\ store'[h][k].answer = store[h][k].answer
          \/ h = at[c] /\ k = Key(call[c]) /\ store'[h][k].answer = hand[c]
  BY <1>3, <1>4
<1>7. /\ Stored' /\ Once' /\ Asked' /\ SameKey'
      /\ CacheFailureHarmless' /\ ExpiredWasFetched'
  <2>1. \A h \in Positions, k \in Keys :
          store'[h][k] # None =>
            \/ store'[h][k] = store[h][k]
            \/ /\ h = at[c] /\ k = Key(call[c])
               /\ \A m \in store'[h][k].of :
                    \/ m = hand[c].call
                    \/ store[h][k] # None /\ m \in store[h][k].of
    BY <1>3, <1>4
  <2> QED BY <1>6, <2>1, WritesKeep
<1>8. TtlNotExtended'
  BY <1>3, <1>4, AtAHandler DEF IInv, TtlNotExtended
<1> QED BY <1>5, <1>7, <1>8 DEF IInv

LEMMA WriteEndKeeps ==
  ASSUME IInv, NEW c \in Callers, WriteEnd(c)
  PROVE  IInv'
<1> USE DEF IInv, WriteEnd, Return
<1>1. TypeOK'
  BY DEF TypeOK, Asked
<1>2. Asked' /\ CacheFailureHarmless' /\ Once'
  BY DEF Asked, CacheFailureHarmless, Once, TypeOK
<1>3. Stored' /\ ExpiredWasFetched' /\ TtlNotExtended'
  BY DEF Stored, ExpiredWasFetched, TtlNotExtended
<1>4. SameKey'
  BY DEF SameKey, TypeOK, Asked
<1> QED BY <1>1, <1>2, <1>3, <1>4

LEMMA ExpireKeeps ==
  ASSUME IInv, NEW g \in Positions, NEW j \in Keys, Expire(g, j)
  PROVE  IInv'
<1> USE DEF Expire
<1> DEFINE old == store[g][j]
<1>1. old \in Entry /\ old.answer \in Answer
  BY EntryFields DEF IInv, TypeOK
<1>2. PICK entry \in Entry \cup {None} :
        /\ store' = [store EXCEPT ![g][j] = entry]
        /\ entry # None =>
             entry.answer = old.answer /\ ~entry.fresh /\ entry.of = old.of
  <2>1. CASE Handlers[g] = "file"
    <3>1. [old EXCEPT !.fresh = FALSE] \in Entry
      BY <1>1 DEF Entry
    <3>2. /\ [old EXCEPT !.fresh = FALSE].answer = old.answer
          /\ [old EXCEPT !.fresh = FALSE].fresh = FALSE
          /\ [old EXCEPT !.fresh = FALSE].of = old.of
      BY <1>1 DEF Entry
    <3> QED BY <2>1, <3>1, <3>2
  <2>2. CASE Handlers[g] # "file"
    BY <2>2
  <2> QED BY <2>1, <2>2
<1>3. /\ old # None
      /\ old.answer.n <= fetched
      /\ old.answer.n \in 0 .. MaxFetch
      /\ expired' = expired \cup {<<g, old.answer.n>>}
      /\ UNCHANGED <<fetched, pc, call, at, residue, hand, result>>
  BY <1>1, AnswerFields DEF IInv, Stored
<1> HIDE DEF Expire
<1>4. /\ store' \in [Positions -> [Keys -> Entry \cup {None}]]
      /\ \A h \in Positions, k \in Keys :
           store'[h][k] = IF h = g /\ k = j THEN entry ELSE store[h][k]
  <2>1. store \in [Positions -> [Keys -> Entry \cup {None}]]
    BY DEF IInv, TypeOK
  <2> QED BY <1>2, <2>1
<1>5. TypeOK'
  BY <1>3, <1>4, CacheAssumption DEF IInv, TypeOK
<1>6. \A h \in Positions, k \in Keys :
        store'[h][k] # None =>
          store[h][k] # None /\ store'[h][k].answer = store[h][k].answer
  BY <1>2, <1>4, <1>3
<1>7. Stored'
  BY <1>3, <1>6, StoredSame, CacheAssumption DEF IInv, TypeOK
<1>8. Asked' /\ CacheFailureHarmless'
  BY <1>3 DEF IInv, Asked, CacheFailureHarmless
<1>9. ExpiredWasFetched'
  BY <1>3 DEF IInv, ExpiredWasFetched
<1>10. Once'
  <2> SUFFICES ASSUME NEW c \in Callers, pc[c] = "write", hand[c].kind = "complete",
                      NEW h \in Positions, h >= at[c]
               PROVE  /\ <<h, hand[c].n>> \notin expired'
                      /\ \A k \in Keys :
                           store'[h][k] # None => store'[h][k].answer.n # hand[c].n
    BY <1>3 DEF IInv, Once
  <2>1. /\ <<h, hand[c].n>> \notin expired
        /\ \A k \in Keys : store[h][k] # None => store[h][k].answer.n # hand[c].n
    BY DEF IInv, Once
  <2> QED BY <1>3, <1>6, <2>1
<1>11. TtlNotExtended'
  <2> SUFFICES ASSUME NEW h \in Positions, NEW k \in Keys,
                      store'[h][k] # None, store'[h][k].fresh,
                      store'[h][k].bytes = "written"
               PROVE  <<h, store'[h][k].answer.n>> \notin expired'
    BY DEF TtlNotExtended
  <2>1. ~(h = g /\ k = j) /\ store'[h][k] = store[h][k]
    BY <1>2, <1>4
  <2>2. <<h, store[h][k].answer.n>> \notin expired
    BY <2>1 DEF IInv, TtlNotExtended
  <2>3. h = g => store[h][k].answer.n # old.answer.n
    BY <1>3, <2>1 DEF IInv, Stored
  <2> QED BY <1>3, <2>1, <2>2, <2>3
<1>12. SameKey'
  <2>1. \A h \in Positions, k \in Keys :
          store'[h][k] # None => store[h][k] # None /\ store'[h][k].of = store[h][k].of
    BY <1>2, <1>3, <1>4
  <2> QED BY <1>3, <2>1 DEF IInv, SameKey
<1> QED BY <1>5, <1>7, <1>8, <1>9, <1>10, <1>11, <1>12 DEF IInv

LEMMA RestartKeeps ==
  ASSUME IInv, Restart
  PROVE  IInv'
<1> USE DEF Restart
<1>1. /\ pc' = [c \in Callers |-> "idle"]
      /\ call' = [c \in Callers |-> None]
      /\ at' = [c \in Callers |-> 1]
      /\ residue' = [c \in Callers |-> {}]
      /\ hand' = [c \in Callers |-> None]
      /\ result' = [c \in Callers |-> None]
      /\ UNCHANGED <<expired, fetched>>
  OBVIOUS
<1>2. Asked' /\ Once' /\ CacheFailureHarmless' /\ ExpiredWasFetched'
  BY <1>1 DEF IInv, Asked, Once, CacheFailureHarmless, ExpiredWasFetched
<1>3. /\ store' \in [Positions -> [Keys -> Entry \cup {None}]] => TypeOK'
      /\ fetched' \in Nat /\ fetched <= fetched'
  BY <1>1, PositionsAre, CacheAssumption DEF IInv, TypeOK
<1> HIDE DEF Restart
<1>4. CASE store' = [h \in Positions |-> IF Handlers[h] = "file" THEN store[h]
                                         ELSE [k \in Keys |-> None]]
  <2>1. store' \in [Positions -> [Keys -> Entry \cup {None}]]
    BY <1>4 DEF IInv, TypeOK
  <2>2. \A h \in Positions, k \in Keys :
          store'[h][k] # None => store'[h][k] = store[h][k]
    BY <1>4
  <2>3. Stored'
    BY <1>3, <2>2, StoredSame
  <2>4. TtlNotExtended'
    BY <1>1, <2>2 DEF IInv, TtlNotExtended
  <2>5. SameKey'
    BY <1>1, <2>2 DEF IInv, SameKey
  <2> QED BY <1>2, <1>3, <2>1, <2>3, <2>4, <2>5 DEF IInv
<1>5. ASSUME NEW c \in Callers,
             pc[c] = "write", at[c] \in Positions, hand[c].kind # "nil",
             NEW entry \in Interrupted(at[c], store[at[c]][Key(call[c])], hand[c]),
             store' = [h \in Positions |->
                         IF Handlers[h] # "file" THEN [k \in Keys |-> None]
                         ELSE IF h # at[c] THEN store[h]
                         ELSE [store[h] EXCEPT ![Key(call[c])] = entry]]
      PROVE  IInv'
  <2> DEFINE old == store[at[c]][Key(call[c])]
  <2>1. /\ Key(call[c]) \in Keys
        /\ hand[c] \in Answer
        /\ Key(hand[c].call) = Key(call[c])
        /\ hand[c].kind = "complete"
        /\ hand[c].n <= fetched'
        /\ <<at[c], hand[c].n>> \notin expired
        /\ \A k \in Keys :
             store[at[c]][k] # None => store[at[c]][k].answer.n # hand[c].n
    BY <1>1, <1>5, AtAHandler
  <2>2. old \in Entry \cup {None}
    BY <1>5, <2>1 DEF IInv, TypeOK
  <2>3. /\ entry \in Entry \cup {None}
        /\ entry # None => \/ entry = old
                           \/ entry.answer = hand[c] /\ entry.bytes = "torn"
                           \/ old # None /\ entry.answer = old.answer
                                /\ entry.bytes # "written"
        /\ entry # None =>
             \A m \in entry.of : m = hand[c].call \/ (old # None /\ m \in old.of)
    <3>1. entry \in Interrupted(at[c], old, hand[c]) /\ at[c] \in Positions
      BY <1>5
    <3> HIDE DEF old
    <3> QED BY <2>1, <2>2, <3>1, InterruptedLeaves
  <2>4. \A h \in Positions, k \in Keys :
          store'[h][k] # None =>
            \/ store'[h][k] = store[h][k]
            \/ h = at[c] /\ k = Key(call[c]) /\ store'[h][k] = entry
    BY <1>5, <2>1 DEF IInv, TypeOK
  <2>5. store' \in [Positions -> [Keys -> Entry \cup {None}]]
    <3>1. ASSUME NEW h \in Positions
          PROVE  [store[h] EXCEPT ![Key(call[c])] = entry] \in [Keys -> Entry \cup {None}]
      BY <2>1, <2>3 DEF IInv, TypeOK
    <3> QED BY <1>5, <3>1 DEF IInv, TypeOK
  <2>6. Stored'
    <3>1. \A h \in Positions, k \in Keys :
            store'[h][k] # None =>
              \/ store[h][k] # None /\ store'[h][k].answer = store[h][k].answer
              \/ h = at[c] /\ k = Key(call[c]) /\ store'[h][k].answer = hand[c]
      BY <2>3, <2>4
    <3>2. at[c] \in Positions
      BY <1>5
    <3> HIDE DEF old
    <3> QED BY <1>3, <2>1, <3>1, <3>2, StoredKept
  <2>7. TtlNotExtended'
    BY <1>1, <2>1, <2>3, <2>4, <1>5 DEF IInv, TtlNotExtended
  <2>8. SameKey'
    <3>1. \A h \in Positions, k \in Keys :
            store'[h][k] # None => \A m \in store'[h][k].of : Key(m) = k
      BY <2>1, <2>3, <2>4, <1>5 DEF IInv, SameKey
    <3> QED BY <1>1, <3>1 DEF SameKey
  <2> QED BY <1>2, <1>3, <2>5, <2>6, <2>7, <2>8 DEF IInv
<1> QED BY <1>4, <1>5 DEF Restart

-----------------------------------------------------------------------------
(* Theorems. *)

LEMMA NextKeeps == IInv /\ [Next]_vars => IInv'
<1> SUFFICES ASSUME IInv, [Next]_vars PROVE IInv'
  OBVIOUS
<1>1. CASE UNCHANGED vars
  BY <1>1 DEF vars, IInv, TypeOK, Stored, Asked, SameKey, Once, ExpiredWasFetched,
              TtlNotExtended, CacheFailureHarmless
<1>2. ASSUME NEW c \in Callers, Cached(c) PROVE IInv'
  BY <1>2, ReadKeeps, FetchKeeps, PanicKeeps, WriteKeeps, WriteFailsKeeps,
     WriteEndKeeps DEF Cached
<1>3. ASSUME NEW c \in Callers, NEW m \in Calls, Begin(c, m) PROVE IInv'
  BY <1>3, BeginKeeps
<1>4. ASSUME NEW h \in Positions, NEW k \in Keys, Expire(h, k) PROVE IInv'
  BY <1>4, ExpireKeeps
<1>5. CASE Restart
  BY <1>5, RestartKeeps
<1> QED BY <1>1, <1>2, <1>3, <1>4, <1>5 DEF Next

\* The invariant of the proofs holds of every behaviour.
THEOREM Invariance == Spec => []IInv
<1> QED BY InitInvariant, NextKeeps, PTL DEF Spec

\* The callers, the handlers and the counter keep their types (datacache.go).
THEOREM TypeCorrect == Spec => []TypeOK
<1>1. IInv => TypeOK
  BY DEF IInv
<1> QED BY <1>1, Invariance, PTL

\* However calls, failed and broken-off writes, expiries and restarts interleave, a
\* call returns an answer to itself, as far as its arguments are rendered, and torn
\* bytes mix with it only answers to calls with its key (datacache.go:81, file.go:92).
THEOREM OwnAnswerHolds == Spec => []OwnAnswer
<1>1. IInv => OwnAnswer
  <2> SUFFICES ASSUME IInv, NEW c \in Callers, pc[c] = "returned"
               PROVE  /\ \A m \in {result[c].call} \cup residue[c] : Alike(m, call[c])
                      /\ residue[c] = {} => result[c].call.method = call[c].method
    BY DEF OwnAnswer
  <2>1. call[c] \in Calls /\ result[c].call \in Calls /\ residue[c] \subseteq Calls
    BY AnswerFields DEF IInv, TypeOK, Asked
  <2>2. \A m \in {result[c].call} \cup residue[c] : Key(m) = Key(call[c])
    BY DEF IInv, Asked, SameKey
  <2>3. residue[c] = {} => result[c].call.method = call[c].method
    BY DEF IInv, Asked
  <2> QED BY <2>1, <2>2, <2>3, KeyTellsAlike
<1> QED BY <1>1, Invariance, PTL

\* Where no two calls have arguments that are rendered alike, as below keyMaxDepth,
\* a call that met no torn bytes returns an answer to this very call (key.go:36).
THEOREM OwnCallHolds ==
  ASSUME \A m, o \in Calls : Rendering[m.args] = Rendering[o.args] => m.args = o.args
  PROVE  Spec => [](\A c \in Callers :
                      pc[c] = "returned" /\ residue[c] = {} => result[c].call = call[c])
<1>1. IInv => \A c \in Callers :
                pc[c] = "returned" /\ residue[c] = {} => result[c].call = call[c]
  <2> SUFFICES ASSUME IInv, NEW c \in Callers, pc[c] = "returned", residue[c] = {}
               PROVE  result[c].call = call[c]
    OBVIOUS
  <2>1. call[c] \in Calls /\ result[c].call \in Calls
    BY AnswerFields DEF IInv, TypeOK, Asked
  <2>2. Alike(result[c].call, call[c]) /\ result[c].call.method = call[c].method
    BY <2>1, KeyTellsAlike DEF IInv, Asked
  <2>3. result[c].call \in Call /\ call[c] \in Call
    BY <2>1, CacheAssumption
  <2> QED BY <2>1, <2>2, <2>3 DEF Alike, Call
<1> QED BY <1>1, Invariance, PTL

\* A hit never returns a part of an answer as if it were all
\* (cached_repository.go:36).
THEOREM NoPartialHitHolds == Spec => []NoPartialHit
<1>1. IInv => NoPartialHit
  BY DEF IInv, Asked, CacheFailureHarmless, NoPartialHit
<1> QED BY <1>1, Invariance, PTL

\* What was written whole and has been dropped as too old is never served again
\* by the handler that dropped it, across restarts too (file.go:114, file.go:92).
THEOREM TtlNotExtendedHolds == Spec => []TtlNotExtended
<1>1. IInv => TtlNotExtended
  BY DEF IInv
<1> QED BY <1>1, Invariance, PTL

\* A call that asked AWS returns the answer of AWS, whichever handlers fail
\* (cached_repository.go:37).
THEOREM CacheFailureHarmlessHolds == Spec => []CacheFailureHarmless
<1>1. IInv => CacheFailureHarmless
  BY DEF IInv
<1> QED BY <1>1, Invariance, PTL
=============================================================================
