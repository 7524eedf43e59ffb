---------------------------- MODULE PartialMaps -----------------------------
(***************************************************************************)
(* Partial functions: a table keyed by its primary key, files keyed by     *)
(* path.  What is missing is outside the DOMAIN.                           *)
(***************************************************************************)
With(f, k, v) == [x \in DOMAIN f \union {k} |-> IF x = k THEN v ELSE f[x]]
Without(f, k) == [x \in DOMAIN f \ {k} |-> f[x]]
=============================================================================
