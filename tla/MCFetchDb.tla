----------------------------- MODULE MCFetchDb -----------------------------
(***************************************************************************)
(* Small instances of FetchDb for TLC.                                     *)
(***************************************************************************)
EXTENDS FetchDb

\* The checksum can fail, or an overwritten mta.db.gz can be served.
MCStore == {[staleGz |-> FALSE, shaFails |-> TRUE], [staleGz |-> TRUE, shaFails |-> FALSE]}

\* What build-db.yml observed, with a checksum that is optional (fetch-db.ts:82-88).
MCWeakStore == {[staleGz |-> TRUE, shaFails |-> TRUE]}
=============================================================================
