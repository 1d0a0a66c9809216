----------------------------- MODULE MCGradient -----------------------------
EXTENDS Gradient

(* Two nodes next to the coordinator and to each other, and one behind.    *)
Both(a, b) == {<<a, b>>, <<b, a>>}
KiteNodes == 1..4
KiteLinks == Both(1, 2) \cup Both(1, 3) \cup Both(2, 3) \cup Both(3, 4)
KiteHops  == <<0, 1, 1, 2>>
=============================================================================
