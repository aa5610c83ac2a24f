--------------------------------- MODULE Maps ---------------------------------
(***************************************************************************)
(* Tables and maps: a function is a map from its domain.  (TLC's operators *)
(* for this are built into the checker, and the provers do not know them.) *)
(***************************************************************************)

Put(f, x, v) == [y \in DOMAIN f \cup {x} |-> IF y = x THEN v ELSE f[y]]
Without(f, S) == [y \in DOMAIN f \ S |-> f[y]]
=============================================================================
