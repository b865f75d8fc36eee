---------------------------- MODULE MCLauncher -----------------------------
(* Two launchers of one checkout, and of two with a port each, one of which *)
(* may be the user's.                                                       *)
EXTENDS Launcher

CONSTANTS l1, l2, here, there

Together == [l \in Launchers |-> here]
Apart == [l \in Launchers |-> IF l = l1 THEN here ELSE there]
Same == [c \in Checkouts |-> 3000]
Differ == [c \in Checkouts |-> IF c = here THEN 3000 ELSE 3100]
MCSetups == {<<Together, Same, {}>>, <<Apart, Differ, {}>>, <<Apart, Differ, {3000}>>}
=============================================================================
