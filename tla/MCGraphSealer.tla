--------------------------- MODULE MCGraphSealer ---------------------------
(***************************************************************************)
(* Pair top lies on base and shares its native; side has a native of its   *)
(* own and looks into one that a store also keeps apart.                   *)
(***************************************************************************)
EXTENDS GraphSealer

CONSTANTS base, top, side, n1, n2, n3, s1, s2

MCNativeOf == (base :> n1) @@ (top :> n1) @@ (side :> n2)
MCMain == (base :> None) @@ (top :> base) @@ (side :> base)
MCSecondary == (base :> None) @@ (top :> None) @@ (side :> n3)
MCRoots == (s1 :> <<top, side, n3>>) @@ (s2 :> <<side, top, n3>>)
=============================================================================
