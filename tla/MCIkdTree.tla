----------------------------- MODULE MCIkdTree -----------------------------
(* Two points in one box and one in another, two searches at a time.        *)
EXTENDS IkdTree

MCPoints == {1, 2, 3}
MCBox == [p \in MCPoints |-> IF p = 3 THEN "b" ELSE "a"]
CONSTANTS s1, s2
MCSearchers == {s1, s2}
=============================================================================
