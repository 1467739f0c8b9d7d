-------------------------- MODULE MCDatastreamTime --------------------------
(* Small instances of DatastreamTime.                                      *)
EXTENDS DatastreamTime, TLC

Symmetry == Permutations(Req) \union Permutations(Datastream)
=============================================================================
