----------------------------- MODULE MCPreviews -----------------------------
(***************************************************************************)
(* Two services (or one and its restart), two previews, one for a day, two *)
(* days: the budget runs out, a preview is cut off by a death, and the     *)
(* lock of a dead service is taken over by two at once.                    *)
(***************************************************************************)
EXTENDS Previews
CONSTANTS s1, s2
MCServices == {s1, s2}
=============================================================================
