---------------------------- MODULE EngineServer ----------------------------
(***************************************************************************)
(* The engine process: its three listeners and their error channel, its    *)
(* shutdown, and the requests in it. HTTP requests take the reverse-proxy  *)
(* path (internal/enginepkg/proxy.go), SPOE messages the SPOA path         *)
(* (spoa.go), both while Swap replaces the WAF; Run (server.go) starts the *)
(* listeners, waits for a signal or a failure, and stops.                  *)
(*                                                                         *)
(* All requests are the same request but for its body. The two paths show  *)
(* the WAF different views of it: the proxy the client's address, the host *)
(* and the headers, the agent no addresses, and no headers either (bare)   *)
(* when the header block is missing or does not parse. For each version of *)
(* the WAF, hits says in which phase it interrupts each view, if any.      *)
(***************************************************************************)
EXTENDS Naturals, Sequences, FiniteSets

CONSTANTS
    HTTP, SPOE,  \* requests of the two paths
    Verdicts,    \* the possible values of hits
    None,        \* no phase, no answer
    MaxFaults    \* bound: failures of listeners, reads, parsers and the upstream

Requests == HTTP \cup SPOE
Servers == {"main", "spoa", "metrics"}
RequestPhases == {"headers", "write", "process"}
Phases == RequestPhases \cup {"response"}
Views == {"proxy", "agent", "bare"}
Answered == {"blocked", "error", "upstream", "502", "denied", "allowed"}
errChSize == 2

ASSUME EngineServerAssumption ==
    /\ HTTP \cap SPOE = {} /\ IsFiniteSet(Requests)
    /\ MaxFaults \in Nat
    /\ None \notin Phases \cup Answered \cup Views \cup {"whole", "truncated"}
    /\ Verdicts \subseteq Seq([Views -> Phases \cup {None}]) \ {<<>>}

VARIABLES
    mode,    \* cfg.Mode
    hits,    \* hits[v][w]: the phase in which version v interrupts view w, or None
    waf,     \* the version AtomicProvider.Current returns
    req,     \* the requests
    server,  \* the goroutines that serve
    errCh,   \* what they have reported: "failed" or "closed" (nil)
    run,     \* where Run is
    term,    \* the context of the process is done
    faults   \* counter for the bound

vars == <<mode, hits, waf, req, server, errCh, run, term, faults>>

NoRequest == [pc |-> "new", tx |-> 0, view |-> None, body |-> "empty", sent |-> None,
              status |-> None, answer |-> None, left |-> 0]

(* Run up to the select: the first WAF is loaded and everything listens. *)
Init ==
    /\ mode \in {"Blocking", "Detection"}
    /\ hits \in Verdicts
    /\ waf = 1
    /\ req = [r \in Requests |-> NoRequest]
    /\ server = [s \in Servers |-> "serving"]
    /\ errCh = <<>>
    /\ run = "select"
    /\ term = FALSE
    /\ faults = 0

Alive == run # "exited"
Fault == faults < MaxFaults /\ faults' = faults + 1

(* A bundle arrives and parses. *)
Swap ==
    /\ Alive
    /\ waf + 1 \in DOMAIN hits
    /\ waf' = waf + 1
    /\ UNCHANGED <<mode, hits, req, server, errCh, run, term, faults>>

-----------------------------------------------------------------------------
(* Requests *)

(* Steps of a request change nothing but it, and perhaps use up a fault. *)
Rest == UNCHANGED <<mode, hits, waf, server, errCh, run, term>>

At(r, where) == Alive /\ req[r].pc \in where
Goes(r, where) == req' = [req EXCEPT ![r].pc = where]
Answers(r, a) == req' = [req EXCEPT ![r].pc = "done", ![r].answer = a, ![r].left = waf]

(* Where version v interrupts what it is shown of r, if that is in one of the   *)
(* phases ps; writing an empty body, or not writing it, interrupts nothing.     *)
Concerns(v, r, ps) ==
    /\ hits[v][req[r].view] \in ps
    /\ hits[v][req[r].view] = "write" => req[r].body # "empty"

Interrupts(r, p) == Concerns(req[r].tx, r, {p})

Following(p) == CASE p = "headers" -> "read"
                  [] p = "read" -> "write"
                  [] p = "write" -> "process"
                  [] p = "process" -> "upstream"

(* BuildHandler: one call of Current for the whole request. The body of a       *)
(* server's request is never nil, and may be empty.                             *)
Accept(r, body) ==
    /\ At(r, {"new"}) /\ server["main"] = "serving"
    /\ req' = [req EXCEPT ![r].pc = "headers", ![r].tx = waf, ![r].view = "proxy",
                            ![r].body = body]
    /\ Rest /\ UNCHANGED faults

InspectCurrent(r) ==
    /\ At(r, RequestPhases)
    /\ IF mode = "Blocking" /\ Concerns(waf, r, {req[r].pc})
       THEN Answers(r, "blocked")
       ELSE Goes(r, Following(req[r].pc))
    /\ Rest /\ UNCHANGED faults

(* inspectRequest, one phase; in Detection mode an interruption stops nothing. *)
Inspect(r) ==
    /\ At(r, RequestPhases)
    /\ IF mode = "Blocking" /\ Interrupts(r, req[r].pc)
       THEN Answers(r, "blocked")
       ELSE Goes(r, Following(req[r].pc))
    /\ Rest /\ UNCHANGED faults

(* At most requestBodyLimit bytes are read, and they replace the body. *)
ReadBody(r) ==
    /\ At(r, {"read"})
    /\ Goes(r, Following("read"))
    /\ Rest /\ UNCHANGED faults

(* internalError: reading the body, or the WAF, failed. *)
Breaks(r) ==
    /\ At(r, {"read", "write", "process"})
    /\ Fault
    /\ Answers(r, "error")
    /\ Rest

(* The reverse proxy and the upstream. The upstream answers, or cannot be       *)
(* reached, or breaks off its answer, which panics out of the handler. What     *)
(* was read of a large body is shorter than its declared length: the transport  *)
(* fails on it, or, undeclared, sends it as it is. The request's context is the *)
(* process's: once that is done the round trip may fail.                        *)
Sent(r) == IF req[r].body = "large" THEN "truncated" ELSE "whole"

Proxied(r) ==
    /\ At(r, {"upstream"})
    /\ req' = [req EXCEPT ![r].pc = "response", ![r].sent = Sent(r), ![r].status = "upstream"]
    /\ Rest /\ UNCHANGED faults

BadGateway(r) ==
    /\ At(r, {"upstream"})
    /\ IF term \/ req[r].body = "large" THEN UNCHANGED faults ELSE Fault
    /\ req' = [req EXCEPT ![r].pc = "response", ![r].sent = Sent(r), ![r].status = "502"]
    /\ Rest

Aborts(r) ==
    /\ At(r, {"upstream"})
    /\ Fault
    /\ req' = [req EXCEPT ![r].pc = "cut", ![r].sent = Sent(r)]
    /\ Rest

(* inspectResponse and flushRecorded: the recorded answer, or 403 instead. *)
Respond(r) ==
    /\ At(r, {"response"})
    /\ Answers(r, IF mode = "Blocking" /\ Interrupts(r, "response")
                  THEN "blocked" ELSE req[r].status)
    /\ Rest /\ UNCHANGED faults

(* HandleSPOE: the message is parsed before the WAF is asked for; an error in   *)
(* its header block is logged and the transaction goes on without headers.      *)
Message(r, view, body) ==
    /\ At(r, {"new"}) /\ server["spoa"] = "serving" /\ ~term
    /\ req' = [req EXCEPT ![r].pc = "headers", ![r].tx = waf, ![r].view = view,
                            ![r].body = body]
    /\ Rest /\ UNCHANGED faults

(* fail: an error of the parser or the WAF lets the request pass. *)
Unparsed(r) ==
    /\ At(r, {"new"}) /\ server["spoa"] = "serving" /\ ~term
    /\ Fault
    /\ Answers(r, "error")
    /\ Rest

FailsOpen(r) ==
    /\ At(r, {"write", "process"})
    /\ req[r].pc = "write" => req[r].body # "empty"
    /\ Fault
    /\ Answers(r, "error")
    /\ Rest

(* What HAProxy is told to do, which is also the outcome that is counted. *)
applyInterruption == IF mode = "Blocking" THEN "denied" ELSE "allowed"
applyAllow == "allowed"

ExamineHeadersOnly(r) ==
    /\ At(r, RequestPhases)
    /\ IF req[r].pc = "headers" /\ Interrupts(r, req[r].pc)
         THEN Answers(r, applyInterruption)
       ELSE IF req[r].pc = "process" THEN Answers(r, applyAllow)
       ELSE Goes(r, IF req[r].pc = "headers" THEN "write" ELSE "process")
    /\ Rest /\ UNCHANGED faults

(* One phase; an interruption ends the message in either mode. *)
Examine(r) ==
    /\ At(r, RequestPhases)
    /\ IF Interrupts(r, req[r].pc)
         THEN Answers(r, applyInterruption)
       ELSE IF req[r].pc = "process" THEN Answers(r, applyAllow)
       ELSE Goes(r, IF req[r].pc = "headers" THEN "write" ELSE "process")
    /\ Rest /\ UNCHANGED faults

(* The agent closes its connections when the context is done. *)
Disconnects(r) ==
    /\ At(r, RequestPhases) /\ term
    /\ Goes(r, "cut")
    /\ Rest /\ UNCHANGED faults

Proxying(r) ==
    \/ \E b \in {"empty", "small", "large"} : Accept(r, b)
    \/ Inspect(r) \/ ReadBody(r) \/ Breaks(r)
    \/ Proxied(r) \/ BadGateway(r) \/ Aborts(r) \/ Respond(r)

Answering(r) ==
    \/ \E w \in {"agent", "bare"}, b \in {"empty", "small"} : Message(r, w, b)
    \/ Unparsed(r) \/ Examine(r) \/ FailsOpen(r) \/ Disconnects(r)

-----------------------------------------------------------------------------
(* Listeners and shutdown *)

(* A listener fails; ServeSPOA ignores errors once the context is done. *)
ListenerFails(s) ==
    /\ Alive /\ server[s] = "serving"
    /\ s = "spoa" => ~term
    /\ Fault
    /\ server' = [server EXCEPT ![s] = "failed"]
    /\ UNCHANGED <<mode, hits, waf, req, errCh, run, term>>

StopSPOA ==
    /\ Alive /\ term /\ server["spoa"] = "serving"
    /\ server' = [server EXCEPT !["spoa"] = "gone"]
    /\ UNCHANGED <<mode, hits, waf, req, errCh, run, term, faults>>

ReportClosed(s) ==
    /\ Alive /\ server[s] \in {"failed", "closed"}
    /\ Len(errCh) < errChSize
    /\ errCh' = Append(errCh, "closed")
    /\ server' = [server EXCEPT ![s] = "gone"]
    /\ UNCHANGED <<mode, hits, waf, req, run, term, faults>>

(* serveHTTP and startSPOAListener: errCh <- err, or nil for a closed server. *)
Report(s) ==
    /\ Alive /\ server[s] \in {"failed", "closed"}
    /\ Len(errCh) < errChSize
    /\ errCh' = Append(errCh, server[s])
    /\ server' = [server EXCEPT ![s] = "gone"]
    /\ UNCHANGED <<mode, hits, waf, req, run, term, faults>>

(* signal.NotifyContext *)
Signal ==
    /\ Alive /\ ~term
    /\ term' = TRUE
    /\ UNCHANGED <<mode, hits, waf, req, server, errCh, run, faults>>

(* Shutdown closes the listener first, and ListenAndServe returns at once. *)
Close(s) == server' = [server EXCEPT ![s] = IF @ = "serving" THEN "closed" ELSE @]

InFlight(r) == req[r].pc \notin {"new", "done", "cut"}
Exit ==
    /\ run' = "exited"
    /\ req' = [r \in Requests |-> IF InFlight(r) THEN [req[r] EXCEPT !.pc = "cut"] ELSE req[r]]

(* The select takes the context and the main server is told to shut down. *)
SelectDone ==
    /\ run = "select" /\ term
    /\ run' = "draining"
    /\ Close("main")
    /\ UNCHANGED <<mode, hits, waf, req, errCh, term, faults>>

(* The select takes a report: Run returns an error, and main exits with 1; nil  *)
(* takes it to the shutdown.                                                    *)
SelectError ==
    /\ run = "select" /\ errCh # <<>>
    /\ errCh' = Tail(errCh)
    /\ IF Head(errCh) = "failed"
       THEN Exit /\ UNCHANGED server
       ELSE run' = "draining" /\ Close("main") /\ UNCHANGED req
    /\ UNCHANGED <<mode, hits, waf, term, faults>>

DrainedWithoutDeadline ==
    /\ run = "draining" /\ \A r \in HTTP : ~InFlight(r)
    /\ run' = "closing"
    /\ Close("metrics")
    /\ UNCHANGED <<mode, hits, waf, req, errCh, term, faults>>

(* mainSrv.Shutdown returns, its requests done or after its five seconds, and   *)
(* the metrics server is told to shut down.                                     *)
Drained ==
    /\ run = "draining"
    /\ run' = "closing"
    /\ Close("metrics")
    /\ UNCHANGED <<mode, hits, waf, req, errCh, term, faults>>

Finish ==
    /\ run = "closing"
    /\ Exit
    /\ UNCHANGED <<mode, hits, waf, server, errCh, term, faults>>

Running == SelectDone \/ SelectError \/ Drained \/ Finish

Next ==
    \/ Swap \/ Signal \/ StopSPOA \/ Running
    \/ \E r \in HTTP : Proxying(r)
    \/ \E r \in SPOE : Answering(r)
    \/ \E s \in Servers : ListenerFails(s) \/ Report(s)

(* Run goes on when its select can, Shutdown has its deadline, and a goroutine  *)
(* that can send does. Nothing makes a client or an upstream hurry.             *)
Fairness == WF_vars(Running) /\ \A s \in Servers : WF_vars(Report(s))

Spec == Init /\ [][Next]_vars /\ Fairness

-----------------------------------------------------------------------------
(* Every variable keeps its type: a request has an answer exactly when it is    *)
(* done, the versions it saw exist, and errCh holds at most two reports, none   *)
(* from a goroutine still serving.                                              *)
TypeOK ==
    /\ mode \in {"Blocking", "Detection"} /\ hits \in Verdicts /\ waf \in DOMAIN hits
    /\ \A r \in Requests :
          /\ req[r].tx \in 0..waf /\ req[r].left \in 0..waf
          /\ (req[r].pc = "done") <=> (req[r].answer # None)
          /\ InFlight(r) => req[r].tx # 0 /\ Alive
    /\ server \in [Servers -> {"serving", "failed", "closed", "gone"}]
    /\ Len(errCh) + Cardinality({s \in Servers : server[s] # "gone"}) <= 3
    /\ Len(errCh) <= errChSize /\ (run = "select" => "closed" \notin {errCh[i] : i \in DOMAIN errCh})
    /\ run \in {"select", "draining", "closing", "exited"}
    /\ term \in BOOLEAN /\ faults \in 0..MaxFaults

(* What version v makes of request r: nothing that v interrupts in a request    *)
(* phase is sent upstream, nothing it interrupts at all is passed on, and       *)
(* nothing is blocked that it lets through.                                     *)
Blocks(v, r, ps) == mode = "Blocking" /\ Concerns(v, r, ps)

Fits(v, r) ==
    CASE req[r].answer = "blocked" -> /\ Blocks(v, r, Phases)
                                      /\ req[r].sent = None <=> Blocks(v, r, RequestPhases)
      [] req[r].answer = "denied" -> Blocks(v, r, RequestPhases)
      [] req[r].answer = "allowed" -> ~Blocks(v, r, RequestPhases)
      [] req[r].answer \in {"upstream", "502"} -> ~Blocks(v, r, Phases)
      [] OTHER -> TRUE

(* However often the WAF is replaced while a request is handled, the decision,  *)
(* over all phases, is the one of a single version that was in force at some    *)
(* moment of the request (proxy.go BuildHandler, spoa.go HandleSPOE).           *)
OneVersionDecides ==
    \A r \in Requests : req[r].pc = "done" => \E v \in req[r].tx..req[r].left :
        v # 0 => Fits(v, r)

(* The two paths agree: when a version interrupts both views of a request, or   *)
(* neither, in the same phase, HAProxy is told to deny it exactly when the      *)
(* proxy does not forward it. The SPOA path stops at the first interruption in  *)
(* either mode and skips the write of an empty body, the proxy goes on in       *)
(* Detection mode and writes it (inspectRequest, HandleSPOE). Where the views   *)
(* differ, in the addresses or for a header block that does not parse, and the  *)
(* rules tell, nothing is claimed; nor where one path had an error, which the   *)
(* proxy answers with 500 and the agent lets pass.                              *)
PathsAgree ==
    \A h \in HTTP, s \in SPOE :
        /\ {req[h].pc, req[s].pc} = {"done"}
        /\ "error" \notin {req[h].answer, req[s].answer}
        /\ req[h].tx = req[s].tx /\ req[h].body = req[s].body
        /\ hits[req[h].tx][req[h].view] = hits[req[s].tx][req[s].view]
        => (req[s].answer = "denied") <=> (req[h].sent = None)

(* The inductive invariant. A request in flight has come through the phases     *)
(* behind it with the version it began with, unless nothing is blocked; what it *)
(* is then answered follows from the phases of that version alone.              *)
RequestRecord ==
    [pc : {"new", "headers", "read", "write", "process", "upstream", "response", "done", "cut"},
     tx : Nat, view : Views \cup {None}, body : {"empty", "small", "large"},
     sent : {None, "whole", "truncated"}, status : {None, "upstream", "502"},
     answer : Answered \cup {None}, left : Nat]

Passed(r) ==
    {p \in RequestPhases :
        \/ p = "headers" /\ req[r].pc # "headers"
        \/ p = "write" /\ req[r].pc \in {"process", "upstream", "response"}
        \/ p = "process" /\ req[r].pc \in {"upstream", "response"}}

InProxy(r) ==
    LET q == req[r] IN
    /\ q.answer \notin {"denied", "allowed"}
    /\ InFlight(r) => (q.sent = None <=> q.pc # "response")
    /\ q.pc = "new" => q.sent = None
    /\ q.pc = "response" => q.status # None
    /\ q.answer \in {"blocked", "upstream", "502"} =>
          /\ q.tx # 0
          /\ (q.sent = None) <=> Blocks(q.tx, r, RequestPhases)
          /\ (q.answer = "blocked") <=> Blocks(q.tx, r, Phases)

InAgent(r) ==
    LET q == req[r] IN
    /\ q.pc \notin {"read", "upstream", "response"}
    /\ q.answer \in {"denied", "allowed", "error", None}
    /\ q.answer \in {"denied", "allowed"} =>
          /\ q.tx # 0
          /\ (q.answer = "denied") <=> Blocks(q.tx, r, RequestPhases)

Handled(r) ==
    /\ req[r] \in RequestRecord
    /\ req[r].tx \in 0..waf /\ req[r].left \in 0..waf
    /\ (req[r].pc = "done") <=> (req[r].answer # None)
    /\ req[r].pc = "done" => req[r].tx <= req[r].left
    /\ InFlight(r) => req[r].tx # 0 /\ Alive /\ ~Blocks(req[r].tx, r, Passed(r))
    /\ r \in HTTP => InProxy(r)
    /\ r \in SPOE => InAgent(r)

RequestInv == req \in [Requests -> RequestRecord] /\ \A r \in Requests : Handled(r)

(* A server told to close has left the select behind; each sends one report. *)
ListenerInv ==
    /\ errCh \in Seq({"failed", "closed"})
    /\ run = "select" => \A s \in Servers : server[s] # "closed"

ServerInv == TypeOK /\ RequestInv /\ ListenerInv

(* A signal ends the process, and so does the failure of any listener, although *)
(* errCh has two slots for three senders and clients and upstream may hang      *)
(* (server.go Run, serveHTTP, startSPOAListener).                               *)
Exits == (term \/ \E s \in Servers : server[s] = "failed") ~> ~Alive

(* engine_types.go: Detection "logs violations but does not block requests." A  *)
(* request is passed to the upstream, whole, when neither the upstream nor the  *)
(* process fails.                                                               *)
DetectionPassesTraffic ==
    \A r \in HTTP : mode = "Detection" /\ req[r].pc = "done" /\ faults = 0 /\ ~term
        => req[r].answer = "upstream" /\ req[r].sent = "whole"

(* server.go, Run: "Graceful shutdown with a fresh context". A request that was *)
(* accepted is answered by the upstream, not by an error the signal caused.     *)
DrainIsGraceful ==
    \A r \in HTTP : req[r].pc = "done" /\ faults = 0 /\ req[r].body # "large"
        => req[r].answer # "502"
=============================================================================
