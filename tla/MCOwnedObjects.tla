--------------------------- MODULE MCOwnedObjects ---------------------------
(* OwnedObjects for TLC: one Engine, both modes, the default port and another *)
(* one, with and without SPOA, and specs that the API server admits and the   *)
(* process cannot run with: an SPOA port that is taken by the metrics or the  *)
(* main listener, the latter twice in the Service, and a malformed upstream.  *)
EXTENDS OwnedObjects

Spec1 == [name |-> "e", mode |-> "Blocking", upstream |-> "u",
          port |-> 0, spoaPort |-> 9000, replicas |-> 1]
Spec2 == [Spec1 EXCEPT !.mode = "Detection", !.spoaPort = 0]
Spec3 == [Spec1 EXCEPT !.port = 8443]
Spec4 == [Spec1 EXCEPT !.spoaPort = 9090]
Spec5 == [Spec1 EXCEPT !.spoaPort = 8080]
Spec6 == [Spec1 EXCEPT !.upstream = "malformed"]

MCSpecs == {Spec1, Spec2, Spec3, Spec4, Spec5, Spec6}
MCURLs == {"u"}
=============================================================================
