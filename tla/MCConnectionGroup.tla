------------------------- MODULE MCConnectionGroup -------------------------
(* Instances of ConnectionGroup for TLC.                                    *)
EXTENDS ConnectionGroup

CONSTANTS c1, c2, c3

MCCallers == {c1, c2, c3}
MCRequests == [op : {"Update"}, enabled : BOOLEAN]
                \cup [op : {"Create"}, enabled : {TRUE}]
                \cup [op : {"Delete"}, enabled : {FALSE}]

=============================================================================
