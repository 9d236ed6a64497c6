--------------------------- MODULE MCEngineServer ---------------------------
(***************************************************************************)
(* EngineServer with two versions of the WAF: the second one interrupts    *)
(* earlier than the first, or later; between them they interrupt in every  *)
(* phase. One looks at the client's address, which only the proxy shows,   *)
(* one at the headers, which a bare message does not show.                 *)
(***************************************************************************)
EXTENDS EngineServer

Anywhere(p) == [w \in Views |-> p]
InHeaders(p) == [proxy |-> p, agent |-> p, bare |-> None]
OfAddress(p) == [proxy |-> p, agent |-> None, bare |-> None]

MCVerdicts ==
    {<<OfAddress("process"), InHeaders("headers")>>,
     <<Anywhere("write"), Anywhere("response")>>}
=============================================================================
