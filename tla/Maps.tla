-------------------------------- MODULE Maps --------------------------------
(***************************************************************************)
(* Finite maps (HashMap, moka's Cache, an Option field) are functions whose *)
(* DOMAIN is the set of keys present.                                       *)
(***************************************************************************)

\* f with x bound to v, whether or not it was bound before.
Assign(f, x, v) == [y \in DOMAIN f \cup {x} |-> IF y = x THEN v ELSE f[y]]

\* f with x unbound.
Drop(f, x) == [y \in DOMAIN f \ {x} |-> f[y]]
=============================================================================
