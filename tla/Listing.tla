------------------------------ MODULE Listing ------------------------------
(***************************************************************************)
(* A call of one of the List methods of the repositories of src/service,    *)
(* and another with the same input: pages are asked for one after the       *)
(* other, items described one by one, by chunk or by page, methods call     *)
(* other methods, and every request to AWS may fail.                        *)
(*                                                                         *)
(* What a listing consists of does not change while it is read.  An item    *)
(* is <<source, page, index>>: of the listing that was asked for, or of the *)
(* listing of what belongs to an item of it.                                *)
(***************************************************************************)
EXTENDS Naturals, Sequences, FiniteSets, SequencesExt, ListMethods

CONSTANTS Methods,      \* the methods called
          Layouts,      \* the sizes of the pages of a listing
          ChunkSize,    \* identifiers in a request of a chunk
          Limits,       \* the limits a caller sets
          MaxFailures,  \* failing requests (bound)
          MaxCalls      \* calls with one input (bound)

ASSUME ListingAssumption ==
  /\ Methods \subseteq Paged \cup Unpaged \cup Calling
  /\ \A layout \in Layouts : layout # <<>> /\ layout \in Seq(Nat)
  /\ ChunkSize \in Nat \ {0}
  /\ Limits \subseteq Nat \ {0}
  /\ MaxFailures \in Nat /\ MaxCalls \in Nat

VARIABLES
  method,    \* the method the caller calls
  layouts,   \* the layout of its listing, and of what belongs to an item
  asked,     \* the page at which the caller's input asks to start
  limit,     \* the limit of the input, 0 for none
  input,     \* the page at which the input says to start by now
  from,      \* what it said when the call began
  stack,     \* the methods being executed, the called one last
  status,    \* "idle", "listing", or how the last call ended
  result,    \* what it returned
  skipped,   \* the items it went without after a failure, or that were not found
  failures,  \* failed requests so far
  calls      \* calls so far

given == <<method, layouts, asked, limit>>
vars == <<method, layouts, asked, limit, input, from, stack, status, result,
          skipped, failures, calls>>

None == 0  \* no limit, no further page

Pages(source) == IF source = <<>> THEN layouts.items ELSE layouts.belonging

Page(source, p) == [i \in 1 .. Pages(source)[p] |-> <<source, p, i>>]

\* The items of a listing from a page on.
AllFrom(source, p) ==
  FlattenSeq([i \in 1 .. Len(Pages(source)) + 1 - p |-> Page(source, p + i - 1)])

\* The items but for those that are gone.
Without(items, gone) ==
  FlattenSeq([i \in DOMAIN items |->
                IF items[i] \in gone THEN <<>> ELSE <<items[i]>>])

Frame(m, source, p) ==
  [method |-> m, source |-> source, page |-> p,
   todo |-> <<>>, got |-> <<>>, again |-> FALSE]

Init ==
  /\ method \in Methods
  /\ layouts \in [items : Layouts, belonging : Layouts]
  /\ asked \in IF method.each = <<>> THEN DOMAIN layouts.items ELSE {1}
  /\ limit \in {None} \cup Limits
  /\ input = asked
  /\ from = asked
  /\ stack = <<>>
  /\ status = "idle"
  /\ result = <<>>
  /\ skipped = {}
  /\ failures = 0
  /\ calls = 0

Top == stack[Len(stack)]

SetTop(frame) == stack' = [stack EXCEPT ![Len(stack)] = frame]

-----------------------------------------------------------------------------

\* The caller calls the method, with an input, or with none where that is looked at.
Begin ==
  /\ status # "listing" /\ calls < MaxCalls
  /\ calls' = calls + 1
  /\ from' = input
  /\ skipped' = {}
  /\ result' = <<>>
  /\ status' = "listing"
  /\ stack' = <<Frame(method, <<>>, input)>>
  /\ UNCHANGED <<given, input, failures>>

\* An empty slice for no input, or where AWS is not asked at all.
AnswerNothing ==
  /\ status = "listing" /\ Len(stack) = 1
  /\ Top.page = from /\ Top.todo = <<>> /\ Top.got = <<>>
  /\ method.paging = "none" \/ "input" \in method.heeds
  /\ status' = "nothing"
  /\ stack' = <<>>
  /\ UNCHANGED <<given, input, from, result, skipped, failures, calls>>

\* mutant: a last chunk that is not full is forgotten
ChunksFull(items, size) ==
  [k \in 1 .. Len(items) \div size |->
     SubSeq(items, (k - 1) * size + 1, k * size)]

Chunks(items, size) ==
  [k \in 1 .. (Len(items) + size - 1) \div size |->
     SubSeq(items, (k - 1) * size + 1,
            IF k * size > Len(items) THEN Len(items) ELSE k * size)]

\* What is still to be asked about the items.
Batches(m, items) ==
  IF m.batch = "none" THEN <<>>
  ELSE IF m.batch = "page" THEN <<items>>
  ELSE Chunks(items, IF m.batch = "item" THEN 1 ELSE ChunkSize)

\* The frame with the items of a page, or of a method it called.
Received(f, items, next) ==
  [f EXCEPT !.page = next,
            !.todo = Batches(f.method, items),
            !.got = IF f.method.batch = "none" THEN @ \o items ELSE @]

LimitReached(f, items) ==
  "limit" \in f.method.heeds /\ limit # None /\ Len(f.got \o items) >= limit

NextPage ==
  /\ status = "listing"
  /\ Top.page # None /\ Top.todo = <<>>
  /\ Top.method.paging \in {"pages", "input", "first", "whole"}
  /\ LET f == Top
         items == IF f.method.paging = "whole" THEN AllFrom(f.source, 1)
                  ELSE Page(f.source, f.page)
         last == \/ f.method.paging \in {"first", "whole"}
                 \/ f.page = Len(Pages(f.source))
                 \/ LimitReached(f, items)
     IN /\ SetTop(Received(f, items, IF last THEN None ELSE f.page + 1))
        /\ input' = IF f.method.paging = "input" THEN f.page ELSE input
  /\ UNCHANGED <<given, from, status, result, skipped, failures, calls>>

\* The called method returns: the call ends, or its caller goes on.
EndCall(outcome, items) ==
  /\ stack' = <<>>
  /\ status' = outcome
  /\ result' = items

ReturnTo(caller, outcome, items) ==
  IF caller.todo = <<>>
    THEN IF outcome = "nil"
           THEN /\ stack' = <<Received(caller, items, None)>>
                /\ UNCHANGED <<status, result, skipped>>
           ELSE EndCall("error", <<>>) /\ UNCHANGED skipped
    ELSE LET taken == IF outcome = "nil" \/ caller.method.failed = "part"
                        THEN items ELSE <<>>
             rest == AllFrom(Top.source, 1)
         IN /\ stack' = <<[caller EXCEPT !.todo = Tail(@), !.got = @ \o taken]>>
            /\ skipped' = IF outcome = "nil" THEN skipped
                          ELSE skipped \cup (ToSet(rest) \ ToSet(taken))
            /\ UNCHANGED <<status, result>>

Return(outcome, items) ==
  IF Len(stack) = 1 THEN EndCall(outcome, items) /\ UNCHANGED skipped
  ELSE ReturnTo(stack[1], outcome, items)

PageFails ==
  /\ status = "listing" /\ failures < MaxFailures
  /\ Top.page # None /\ Top.todo = <<>>
  /\ Top.method.paging \in {"pages", "input", "first", "whole"}
  /\ failures' = failures + 1
  /\ Return("error", IF Top.method.onError = "part" THEN Top.got ELSE <<>>)
  /\ input' = IF Top.method.paging = "input" THEN Top.page ELSE input
  /\ UNCHANGED <<given, from, calls>>

\* The context is looked at before each page.
SeeCancelled ==
  /\ status = "listing" /\ failures < MaxFailures
  /\ Top.page # None /\ "context" \in Top.method.heeds
  /\ failures' = failures + 1
  /\ Return("error", Top.got)
  /\ UNCHANGED <<given, input, from, calls>>

\* Another method lists the items, or what belongs to the next of them.
CallMethod ==
  /\ status = "listing"
  /\ \/ /\ Top.page # None /\ Top.method.paging = "call"
        /\ stack' = <<[Top EXCEPT !.page = None],
                      Frame(Top.method.of[1], <<>>, Top.page)>>
     \/ /\ Top.todo # <<>> /\ Top.method.each # <<>>
        /\ stack' = <<Top, Frame(Top.method.each[1], Head(Top.todo)[1], 1)>>
  /\ UNCHANGED <<given, input, from, status, result, skipped, failures, calls>>

-----------------------------------------------------------------------------

Asking == status = "listing" /\ Top.todo # <<>> /\ Top.method.each = <<>>

\* The frame after the next of the further requests, with what it adds.
Answered(f, items) ==
  [f EXCEPT !.todo = Tail(@), !.got = @ \o items, !.again = FALSE]

Describe ==
  /\ Asking
  /\ \E lost \in SUBSET ToSet(Head(Top.todo)) :
       /\ Top.method.found # "some" => lost = {}
       /\ SetTop(Answered(Top,
            IF Top.method.found = "none" THEN <<>>
            ELSE Without(Head(Top.todo), lost)))
       /\ skipped' = skipped \cup lost
  /\ UNCHANGED <<given, input, from, status, result, failures, calls>>

\* The item is gone without, unless it is kept as it is.
DescribeFails ==
  /\ Asking /\ failures < MaxFailures
  /\ failures' = failures + 1
  /\ \/ /\ Top.method.failed = "keep"
        /\ SetTop(Answered(Top, Head(Top.todo)))
        /\ UNCHANGED skipped
     \/ /\ Top.method.failed \in {"skip", "again"}
        /\ SetTop(Answered(Top, <<>>))
        /\ skipped' = skipped \cup ToSet(Head(Top.todo))
  /\ UNCHANGED <<given, input, from, status, result, calls>>

\* mutant: as long as the error is that the attempts are used up
AskAgainForever ==
  /\ Asking /\ Top.method.failed = "again"
  /\ SetTop([Top EXCEPT !.again = ~@])
  /\ UNCHANGED <<given, input, from, status, result, skipped, failures, calls>>

\* After the SDK has used up its attempts the item is asked for once more.
AskAgain ==
  /\ Asking /\ failures < MaxFailures
  /\ Top.method.failed = "again" /\ ~Top.again
  /\ failures' = failures + 1
  /\ SetTop([Top EXCEPT !.again = TRUE])
  /\ UNCHANGED <<given, input, from, status, result, skipped, calls>>

\* mutant: the other items are described first, and returned with the error
FailAtTheEnd ==
  /\ Asking /\ failures < MaxFailures
  /\ Top.method.failed \in {"part", "nothing"}
  /\ failures' = failures + 1
  /\ Return("error", IF Top.method.failed = "part"
                       THEN Top.got \o FlattenSeq(Tail(Top.todo)) ELSE <<>>)
  /\ UNCHANGED <<given, input, from, calls>>

Fail ==
  /\ Asking /\ failures < MaxFailures
  /\ Top.method.failed \in {"part", "nothing"}
  /\ failures' = failures + 1
  /\ Return("error", IF Top.method.failed = "part" THEN Top.got ELSE <<>>)
  /\ UNCHANGED <<given, input, from, calls>>

\* mutant: the frames survive the panic
PanicKeepsStack ==
  /\ Asking /\ failures < MaxFailures
  /\ Top.method.failed = "panic"
  /\ failures' = failures + 1
  /\ status' = "panic"
  /\ UNCHANGED <<given, input, from, stack, result, skipped, calls>>

Panic ==
  /\ Asking /\ failures < MaxFailures
  /\ Top.method.failed = "panic"
  /\ failures' = failures + 1
  /\ status' = "panic"
  /\ stack' = <<>>
  /\ UNCHANGED <<given, input, from, result, skipped, calls>>

\* All pages are read and all items described; what exceeds the limit is cut off.
End ==
  /\ status = "listing"
  /\ Top.page = None /\ Top.todo = <<>>
  /\ Return("nil", IF "limit" \in Top.method.heeds /\ limit # None
                        /\ Len(Top.got) > limit
                     THEN SubSeq(Top.got, 1, limit) ELSE Top.got)
  /\ UNCHANGED <<given, input, from, failures, calls>>

List ==
  \/ AnswerNothing
  \/ NextPage
  \/ PageFails
  \/ SeeCancelled
  \/ CallMethod
  \/ Describe
  \/ DescribeFails
  \/ AskAgain
  \/ Fail
  \/ Panic
  \/ End

Next == Begin \/ List

\* A listing in progress goes on: nothing in it waits for its caller.
Spec == Init /\ [][Next]_vars /\ WF_vars(List)

-----------------------------------------------------------------------------
(***************************************************************************)
(* Properties                                                              *)
(***************************************************************************)

Items(source) ==
  UNION {{<<source, p, i>> : i \in 1 .. Pages(source)[p]} : p \in DOMAIN Pages(source)}

Item == Items(<<>>) \cup UNION {Items(item) : item \in Items(<<>>)}

TypeOK ==
  /\ {input, from} \subseteq DOMAIN layouts.items
  /\ Len(stack) \in IF status = "listing" THEN 1 .. 2 ELSE {0}
  /\ \A k \in DOMAIN stack :
       /\ stack[k].page \in {None} \cup DOMAIN Pages(stack[k].source)
       /\ ToSet(stack[k].got \o FlattenSeq(stack[k].todo)) \subseteq Item
       /\ stack[k].again => stack[k].todo # <<>>
  /\ status \in {"idle", "listing", "nothing", "nil", "error", "panic"}
  /\ result \in Seq(Item)
  /\ skipped \subseteq Item
  /\ failures \in 0 .. MaxFailures /\ calls \in 0 .. MaxCalls

Lister == IF method.of = <<>> THEN method ELSE method.of[1]

Limited(items) ==
  IF "limit" \in Lister.heeds /\ limit # None /\ Len(items) > limit
    THEN SubSeq(items, 1, limit) ELSE items

\* What a method's pages hold, from a page of the input on.
Held(m, source, p) ==
  IF m.paging = "first" THEN Page(source, p)
  ELSE AllFrom(source, IF m.paging = "whole" THEN 1 ELSE p)

Belonging(items) ==
  FlattenSeq([i \in DOMAIN items |-> Held(method.each[1], items[i], 1)])

\* What the call reads, in order: all of it but what was skipped.
Due ==
  LET listed == Without(Limited(Held(Lister, <<>>, from)), skipped)
  IN IF method.each = <<>> THEN listed ELSE Without(Belonging(listed), skipped)

\* Without an error a call has every item of the pages it reads, once and in
\* order: across empty pages, chunks, repeated requests and methods that call
\* each other a gap is an item that could not be had (ListApplicationsByInput,
\* emrserverless/application_repository.go:98, returns none).
NilErrorMeansAll ==
  status = "nil" /\ Lister.found # "none" => result = Due

\* What comes with an error is a beginning of the listing, or nothing: the caller
\* may use it for what it is (`return groups, errors.New(err)`).
ErrorMeansPrefix == status = "error" => IsPrefix(result, Due)

\* A call ends, however its requests fail (emr/cluster_repository.go:71 asks again).
ListingEnds == status = "listing" ~> status # "listing"

\* README.md:21: "`List*All()` / `Get*` methods drive pagination internally and
\* return complete, flattened slices".
EveryListingComplete ==
  status = "nil" /\ failures = 0 /\ skipped = {} /\ method.each = <<>>
    => result = Limited(AllFrom(<<>>, IF Lister.paging = "whole" THEN 1 ELSE asked))
=============================================================================
