----------------------------- MODULE MCPreviews -----------------------------
(* Instances of Previews for TLC. *)
EXTENDS Previews

CONSTANTS c1, c2, m1, m2   \* two canvases and two members

(* A replaced file is smaller than it was. *)
Grain(size, ver) == IF ver > 0 THEN 1 ELSE IF size = "full" THEN 3 ELSE 2

(* One file cannot be read until it is replaced. *)
Broken == {<<m2, 0>>}
=============================================================================
