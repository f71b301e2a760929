-------------------------- MODULE MCResourceCycle --------------------------
(* Instances of ResourceCycle for TLC.                                      *)
EXTENDS ResourceCycle

CONSTANTS a1, a2, us, eu, r3, r4

MCAccounts == {a1, a2}
MCRegions == {us, eu, r3, r4}

At(a, r) == [account |-> a, region |-> r]

\* Pools with and without each preferred region, of one and of two accounts,
\* a complete matrix, and matrices a region or an account is missing from.
MCGatewayLists ==
  { <<>>,
    <<At(a1, us), At(a1, eu)>>,
    <<At(a1, r3), At(a2, eu)>>,
    <<At(a1, eu), At(a2, eu)>>,
    <<At(a1, r4), At(a1, r3)>>,
    <<At(a1, eu), At(a2, us)>>,
    <<At(a1, r3), At(a2, r4)>> }

\* A global type, a regional one and one FindAll has no case for.
MCWatched == {"User", "Instance", "Trail"}
MCAsks == { <<"User">>, <<"Instance">>, <<"Trail", "Instance">> }

=============================================================================
