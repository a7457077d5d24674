------------------------------ MODULE MCSessions ------------------------------
(* Small instances of Sessions for TLC. *)
EXTENDS Sessions, TLC

CONSTANTS h1, h2, k1, k2

\* Two handles of one process may share its connection, or have one each.
SharedOrNot == (h1 :> {k1}) @@ (h2 :> {k1, k2})
===============================================================================
