--------------------------- MODULE MCControlPlane ---------------------------
(***************************************************************************)
(* RuleSet A has source s1; RuleSet B has s1 and s2, which conflict when   *)
(* they have the same text, as a user may make them.                       *)
(***************************************************************************)
EXTENDS ControlPlane

CONSTANTS A, B, s1, s2, t1, t2

MCRefs == [r \in RuleSets |-> IF r = A THEN <<s1>> ELSE <<s1, s2>>]
MCFirstRef == [e \in Engines |-> A]
MCFirst == [s \in Sources |-> IF s = s1 THEN t1 ELSE t2]
=============================================================================
