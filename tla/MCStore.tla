------------------------------ MODULE MCStore ------------------------------
(* Instances of Store for TLC. *)
EXTENDS Store, TLC

CONSTANTS o1, o2, b1

MCBlobsOf == o1 :> {b1} @@ o2 :> {}

\* a store of a few statements: the history is never pruned, so that every
\* statement brings the limit closer
MCLimits == {11, 15}
=============================================================================
