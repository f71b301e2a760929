----------------------------- MODULE MCListing -----------------------------
(***************************************************************************)
(* Listings of up to three pages: one that is empty, one of a chunk and a   *)
(* half, empty pages before and between others.                             *)
(***************************************************************************)
EXTENDS Listing

MCMethods == Paged \cup Unpaged \cup Calling

MCLayouts == {<<0>>, <<3>>, <<2, 1>>, <<1, 0, 1>>}
=============================================================================
