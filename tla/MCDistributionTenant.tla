------------------------ MODULE MCDistributionTenant ------------------------
(* Instances of DistributionTenant for TLC.                                 *)
EXTENDS DistributionTenant

CONSTANTS d1, d2, c1, c2, c3

MCCallers == {c1, c2, c3}
MCDomains == {d1, d2}
MCRequests == [op : {"SetEnabled"}, arg : BOOLEAN]
                \cup [op : {"UpdateDomains", "Create"}, arg : {d2}]
                \cup [op : {"Delete"}, arg : {Gone}]

=============================================================================
