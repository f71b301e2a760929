---------------------------- MODULE MCClientPool ----------------------------
(* Instances of ClientPool for TLC.                                         *)
EXTENDS ClientPool, TLC

CONSTANTS a1, a2, r1, r2, c1, c2, c3

\* Two accounts and two regions; a1 is the account of the default credentials.
MCAccounts == {a1, a2}
MCRegions == {r1, r2}
MCCallers == {c1, c2, c3}
MCProcs == MCCallers \X (MCRegions \cup {NoRegion})

\* Either one caller sweeps both accounts in one region, or one account in
\* both, while another asks for one of the same clients and a third for the
\* account list; or three callers ask for the same client.
MCAsks ==
  LET sweeps == [op : {"GetClients"}, account : {a1}, regions : {{r1}}]
                  \cup [op : {"GetAccountClients"}, account : {a1, a2},
                        regions : {MCRegions}]
      one == [op |-> "GetClient", account |-> a1, regions |-> {r1}]
      list == [op |-> "ListAccountIDs", account |-> a1, regions |-> {}]
  IN {c1 :> s @@ c2 :> [one EXCEPT !.account = s.account] @@ c3 :> list :
        s \in sweeps}
       \cup {[c \in MCCallers |-> one]}

=============================================================================
