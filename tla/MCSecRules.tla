----------------------------- MODULE MCSecRules -----------------------------
(* SecRules for TLC: every text of at most two lines out of a rule with id 1, *)
(* a rule with id 2, a rule whose id is on the next line and such a line.     *)
EXTENDS SecRules

MCLines == {Line(TRUE, "1"), Line(TRUE, "2"), Line(TRUE, NoID), Line(FALSE, "1")}
MCTexts == {<<>>} \cup {<<l>> : l \in MCLines} \cup (MCLines \X MCLines)
=============================================================================
