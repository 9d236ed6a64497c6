--------------------------- MODULE MCEngineReload ---------------------------
(***************************************************************************)
(* Two texts that parse, with different numbers of rules, and one that     *)
(* does not.                                                               *)
(***************************************************************************)
EXTENDS EngineReload

CONSTANTS b1, b2, bad

MCRules == [b \in Bundles |-> IF b = b1 THEN 1 ELSE 2]
=============================================================================
