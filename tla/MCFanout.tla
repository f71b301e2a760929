------------------------------ MODULE MCFanout ------------------------------
(* Instances of Fanout for TLC.                                             *)
EXTENDS Fanout

CONSTANTS p1, p2

\* Two proxies: the least pool in which one proxy can hang, fail or overflow
\* the bus while the other answers.
MCProxies == {p1, p2}

=============================================================================
