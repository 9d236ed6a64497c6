---------------------------- MODULE MCEnrollment ----------------------------
(***************************************************************************)
(* Every container claims engine e1; only p1 runs under its service        *)
(* account.                                                                *)
(***************************************************************************)
EXTENDS Enrollment

CONSTANTS p1, e1, e2

MCConfig == [p \in Pods |-> e1]
MCAccount == [p \in Pods |-> IF p = p1 THEN e1 ELSE e2]
=============================================================================
