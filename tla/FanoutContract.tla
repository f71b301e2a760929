--------------------------- MODULE FanoutContract ---------------------------
(***************************************************************************)
(* What a caller of Provider.Run may rely on (src/resources/provider.go,    *)
(* src/resources/reader.go), without goroutines, channels and timers: each  *)
(* proxy is settled once, and Read and Failures return, once every proxy is *)
(* settled, a complete and duplicate-free account of them.  Resources given *)
(* up under a full bus (provider.go:181-188) are the one licensed loss.     *)
(***************************************************************************)
EXTENDS Naturals, Sequences, FiniteSets, Functions

CONSTANT Proxies

VARIABLES outcome,    \* outcome[p]: "none" until p is settled
          size,       \* size[p]: the resources p answered with
          lost,       \* resources given up under a full bus
          returned,   \* which of Read and Failures have returned
          read,       \* what Read returned
          failed      \* what Failures returned

vars == <<outcome, size, lost, returned, read, failed>>

Settled == \A p \in Proxies : outcome[p] # "none"

Answered == UNION {{p} \X (1 .. size[p]) : p \in Proxies}

\* s lists the elements of S, each exactly once.
Lists(s, S) == IsInjective(s) /\ Range(s) = S

Init ==
  /\ outcome = [p \in Proxies |-> "none"]
  /\ size = [p \in Proxies |-> 0]
  /\ lost = {}
  /\ returned = {}
  /\ read = <<>>
  /\ failed = <<>>

Answer(p) ==
  /\ outcome[p] = "none"
  /\ outcome' = [outcome EXCEPT ![p] = "ok"]
  /\ size'[p] \in Nat
  /\ size' = [size EXCEPT ![p] = size'[p]]
  /\ UNCHANGED <<lost, returned, read, failed>>

Fail(p) ==
  /\ outcome[p] = "none"
  /\ \E why \in {"error", "timeout"} :
       outcome' = [outcome EXCEPT ![p] = why]
  /\ UNCHANGED <<size, lost, returned, read, failed>>

Lose(r) ==
  /\ returned = {}
  /\ r \in Answered
  /\ lost' = lost \cup {r}
  /\ UNCHANGED <<outcome, size, returned, read, failed>>

Read ==
  /\ Settled
  /\ "Read" \notin returned
  /\ returned' = returned \cup {"Read"}
  /\ Lists(read', Answered \ lost)
  /\ UNCHANGED <<outcome, size, lost, failed>>

Failures ==
  /\ Settled
  /\ "Failures" \notin returned
  /\ returned' = returned \cup {"Failures"}
  /\ Lists(failed', {<<p, outcome[p]>> :
                       p \in {q \in Proxies : outcome[q] # "ok"}})
  /\ UNCHANGED <<outcome, size, lost, read>>

Next ==
  \/ \E p \in Proxies : Answer(p) \/ Fail(p)
  \/ \E r \in Answered : Lose(r)
  \/ Read
  \/ Failures

Spec == Init /\ [][Next]_vars

=============================================================================
