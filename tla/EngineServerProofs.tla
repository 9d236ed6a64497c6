------------------------- MODULE EngineServerProofs -------------------------
(***************************************************************************)
(* Proofs about EngineServer for any number of requests on both paths, any *)
(* faults and any verdicts of the versions of the WAF: ServerInv is        *)
(* inductive, so one version decides each request, the two paths agree,    *)
(* and errCh never has more reports than senders.                          *)
(***************************************************************************)
EXTENDS EngineServer, FiniteSetTheorems, TLAPS

(* Most steps are first-order and left to Zenon; those that need arithmetic,    *)
(* records or sequences say so.                                                 *)
USE ZenonT(30)

USE EngineServerAssumption DEF Requests

(* Where the request goes is all that Goes changes. *)
LEMMA GoesFields ==
    ASSUME NEW r \in Requests, NEW w \in {"headers", "read", "write", "process", "upstream", "cut"},
           req \in [Requests -> RequestRecord], Goes(r, w)
    PROVE  /\ req' \in [Requests -> RequestRecord]
           /\ \A q \in Requests \ {r} : req'[q] = req[q]
           /\ req'[r].pc = w
           /\ req'[r].tx = req[r].tx
           /\ req'[r].view = req[r].view /\ req'[r].body = req[r].body
           /\ req'[r].sent = req[r].sent /\ req'[r].status = req[r].status
           /\ req'[r].answer = req[r].answer /\ req'[r].left = req[r].left
<1> DEFINE q == [req[r] EXCEPT !.pc = w]
<1>1. req[r] \in RequestRecord /\ req' = [req EXCEPT ![r] = q]
    BY DEF Goes
<1>2. /\ q \in RequestRecord
      /\ q.pc = w /\ q.tx = req[r].tx /\ q.view = req[r].view /\ q.body = req[r].body
      /\ q.sent = req[r].sent /\ q.status = req[r].status
      /\ q.answer = req[r].answer /\ q.left = req[r].left
    BY <1>1, SMTT(30) DEF RequestRecord
<1> HIDE DEF q
<1> QED
    BY <1>1, <1>2

(* Answers ends a request and notes the version that is then in force. *)
LEMMA AnswersFields ==
    ASSUME NEW r \in Requests, NEW a \in Answered, waf \in Nat,
           req \in [Requests -> RequestRecord], Answers(r, a)
    PROVE  /\ req' \in [Requests -> RequestRecord]
           /\ \A q \in Requests \ {r} : req'[q] = req[q]
           /\ req'[r].pc = "done" /\ req'[r].answer = a /\ req'[r].left = waf
           /\ req'[r].tx = req[r].tx
           /\ req'[r].view = req[r].view /\ req'[r].body = req[r].body
           /\ req'[r].sent = req[r].sent /\ req'[r].status = req[r].status
<1> DEFINE q == [req[r] EXCEPT !.pc = "done", !.answer = a, !.left = waf]
<1>1. req[r] \in RequestRecord /\ req' = [req EXCEPT ![r] = q]
    BY DEF Answers
<1>2. /\ q \in RequestRecord
      /\ q.pc = "done" /\ q.answer = a /\ q.left = waf
      /\ q.tx = req[r].tx /\ q.view = req[r].view /\ q.body = req[r].body
      /\ q.sent = req[r].sent /\ q.status = req[r].status
    BY <1>1 DEF RequestRecord
<1> HIDE DEF q
<1> QED
    BY <1>1, <1>2

(* What a request may end with: an answer other than an error says what the     *)
(* request's own version of the WAF decided.                                    *)
ProxyEnds(r, a) ==
    /\ a \notin {"denied", "allowed"}
    /\ a # "error" =>
          /\ (req[r].sent = None) <=> Blocks(req[r].tx, r, RequestPhases)
          /\ (a = "blocked") <=> Blocks(req[r].tx, r, Phases)

AgentEnds(r, a) ==
    /\ a \in {"denied", "allowed", "error"}
    /\ a # "error" => ((a = "denied") <=> Blocks(req[r].tx, r, RequestPhases))

(* Ending a request in that way keeps what holds of it. *)
LEMMA Ended ==
    ASSUME NEW r \in Requests, NEW a \in Answered, Answers(r, a), Handled(r), a # "error" => InFlight(r),
           waf \in Nat \ {0}, req \in [Requests -> RequestRecord], UNCHANGED <<mode, hits, waf>>,
           r \in HTTP => ProxyEnds(r, a), r \in SPOE => AgentEnds(r, a)
    PROVE  /\ req' \in [Requests -> RequestRecord]
           /\ \A q \in Requests \ {r} : req'[q] = req[q]
           /\ Handled(r)'
<1>0. waf \in Nat
    OBVIOUS
<1>1. /\ req' \in [Requests -> RequestRecord]
      /\ \A q \in Requests \ {r} : req'[q] = req[q]
      /\ req'[r].pc = "done" /\ req'[r].answer = a /\ req'[r].left = waf
      /\ req'[r].tx = req[r].tx /\ req'[r].sent = req[r].sent
      /\ req'[r].view = req[r].view /\ req'[r].body = req[r].body
    BY <1>0, AnswersFields
<1>2. \A v, ps : Blocks(v, r, ps)' <=> Blocks(v, r, ps)
    BY <1>1 DEF Blocks, Concerns
<1>3. (a # "error" => req[r].tx # 0) /\ req[r].tx \in 0..waf
    BY DEF Handled
<1>4. req'[r].tx \in 0..waf' /\ req'[r].left \in 0..waf' /\ req'[r].tx <= req'[r].left
    BY <1>1, <1>3, SMTT(30)
<1>5. ~InFlight(r)' /\ a # None /\ req'[r] \in RequestRecord
    BY <1>1 DEF InFlight
<1>6. ASSUME r \in HTTP PROVE InProxy(r)'
    BY <1>1, <1>2, <1>3, <1>5, <1>6 DEF InProxy, ProxyEnds
<1>7. ASSUME r \in SPOE PROVE InAgent(r)'
    BY <1>1, <1>2, <1>3, <1>7 DEF InAgent, AgentEnds
<1> QED
    BY <1>1, <1>4, <1>5, <1>6, <1>7 DEF Handled

(* What holds of a request holds on while it is left alone, whatever version    *)
(* of the WAF is swapped in.                                                    *)
LEMMA LeftAlone ==
    ASSUME NEW q \in Requests, Handled(q), req'[q] = req[q], UNCHANGED <<mode, hits>>,
           waf \in Nat, waf' \in Nat, waf <= waf', Alive => Alive'
    PROVE  Handled(q)'
<1>1. \A v, ps : Blocks(v, q, ps)' <=> Blocks(v, q, ps)
    BY DEF Blocks, Concerns
<1>2. Passed(q)' = Passed(q) /\ (InFlight(q)' <=> InFlight(q))
    BY DEF Passed, InFlight
<1>3. req[q].tx \in 0..waf /\ req[q].left \in 0..waf
    BY DEF Handled
<1>4. req[q].tx \in 0..waf' /\ req[q].left \in 0..waf'
    BY <1>3, SMTT(30)
<1>5. (q \in HTTP => InProxy(q)') /\ (q \in SPOE => InAgent(q)')
    BY <1>1, <1>2 DEF Handled, InProxy, InAgent
<1> QED
    BY <1>1, <1>2, <1>4, <1>5 DEF Handled

(* A step of a request keeps RequestInv when it keeps it for that request. *)
LEMMA RequestStep ==
    ASSUME NEW r \in Requests, RequestInv, Rest, waf \in Nat,
           req' \in [Requests -> RequestRecord],
           \A q \in Requests \ {r} : req'[q] = req[q],
           Handled(r)'
    PROVE  RequestInv'
<1>1. ASSUME NEW q \in Requests \ {r} PROVE Handled(q)'
    <2>1. Handled(q)
        BY DEF RequestInv
    <2> QED
        BY <2>1, LeftAlone, SMTT(30) DEF Rest, Alive
<1> QED
    BY <1>1 DEF RequestInv

(* Versions of the WAF are counted from 1. *)
LEMMA VersionNat == TypeOK => waf \in Nat \ {0} /\ waf \in 0..waf
<1> SUFFICES ASSUME TypeOK PROVE waf \in Nat \ {0} /\ waf \in 0..waf
    OBVIOUS
<1>1. hits \in Seq([Views -> Phases \cup {None}]) /\ DOMAIN hits = 1..Len(hits) /\ Len(hits) \in Nat
    BY SMTT(30) DEF TypeOK
<1> QED
    BY <1>1, SMTT(30) DEF TypeOK

(* The steps of the reverse-proxy path. *)
LEMMA ProxyingStep ==
    ASSUME ServerInv, NEW r \in HTTP, Proxying(r)
    PROVE  RequestInv'
<1>1. /\ RequestInv /\ Handled(r) /\ InProxy(r) /\ r \in Requests
      /\ waf \in Nat \ {0} /\ waf \in 0..waf
      /\ req \in [Requests -> RequestRecord] /\ r \notin SPOE
    BY VersionNat DEF ServerInv, RequestInv, Handled
<1>2. Rest /\ Alive
    BY DEF Proxying, Accept, Inspect, ReadBody, Breaks, Proxied, BadGateway, Aborts, Respond, At
<1> SUFFICES /\ req' \in [Requests -> RequestRecord]
             /\ \A q \in Requests \ {r} : req'[q] = req[q]
             /\ Handled(r)'
    BY <1>1, <1>2, RequestStep
<1>3. UNCHANGED <<mode, hits, waf>> /\ Alive'
    BY <1>2 DEF Rest, Alive
<1> USE DEF Handled, InProxy, Blocks, Concerns, InFlight, Answered
<1>4. ASSUME NEW b \in {"empty", "small", "large"}, Accept(r, b)
      PROVE  /\ req' \in [Requests -> RequestRecord]
             /\ \A q \in Requests \ {r} : req'[q] = req[q]
             /\ Handled(r)'
    <2>1. /\ req' \in [Requests -> RequestRecord]
          /\ \A q \in Requests \ {r} : req'[q] = req[q]
          /\ req'[r].pc = "headers" /\ req'[r].tx = waf
          /\ req'[r].sent = req[r].sent /\ req'[r].status = req[r].status
          /\ req'[r].answer = req[r].answer /\ req'[r].left = req[r].left
        BY <1>1, <1>4 DEF Accept, RequestRecord, Views
    <2>2. req[r].pc = "new"
        BY <1>4 DEF Accept, At
    <2>3. Passed(r)' = {}
        BY <2>1 DEF Passed
    <2> QED
        BY <1>1, <1>3, <2>1, <2>2, <2>3
<1>5. ASSUME Inspect(r)
      PROVE  /\ req' \in [Requests -> RequestRecord]
             /\ \A q \in Requests \ {r} : req'[q] = req[q]
             /\ Handled(r)'
    <2>1. req[r].pc \in RequestPhases
        BY <1>5 DEF Inspect, At
    <2>2. CASE mode = "Blocking" /\ Interrupts(r, req[r].pc)
        <3>1. Answers(r, "blocked")
            BY <1>5, <2>2 DEF Inspect
        <3>2. /\ Blocks(req[r].tx, r, RequestPhases) /\ Blocks(req[r].tx, r, Phases)
              /\ req[r].pc # "response" /\ InFlight(r)
            BY <2>1, <2>2 DEF Interrupts, RequestPhases, Phases
        <3>3. ProxyEnds(r, "blocked")
            BY <1>1, <3>2 DEF ProxyEnds
        <3> QED
            BY <1>1, <1>3, <3>1, <3>2, <3>3, Ended
    <2>3. CASE ~(mode = "Blocking" /\ Interrupts(r, req[r].pc))
        <3>1. /\ Goes(r, Following(req[r].pc))
              /\ Following(req[r].pc) \in {"read", "process", "upstream"}
            BY <1>5, <2>1, <2>3 DEF Inspect, Following, RequestPhases
        <3>2. /\ req' \in [Requests -> RequestRecord]
              /\ \A q \in Requests \ {r} : req'[q] = req[q]
              /\ req'[r].pc = Following(req[r].pc) /\ req'[r].tx = req[r].tx
              /\ req'[r].view = req[r].view /\ req'[r].body = req[r].body
              /\ req'[r].sent = req[r].sent
              /\ req'[r].status = req[r].status /\ req'[r].answer = req[r].answer
              /\ req'[r].left = req[r].left
            BY <1>1, <3>1, GoesFields
        <3>3. ~Blocks(req[r].tx, r, Passed(r)')
            <4>1. ~Blocks(req[r].tx, r, Passed(r)) /\ ~Blocks(req[r].tx, r, {req[r].pc})
                BY <1>1, <2>1, <2>3 DEF Interrupts, RequestPhases
            <4>2. Passed(r)' \subseteq Passed(r) \cup {req[r].pc}
                BY <2>1, <3>2, SMTT(30) DEF Passed, RequestPhases, Following
            <4> QED
                BY <4>1, <4>2
        <3> QED
            BY <1>1, <1>3, <2>1, <3>1, <3>2, <3>3 DEF RequestPhases
    <2> QED
        BY <2>2, <2>3
<1>6. ASSUME ReadBody(r)
      PROVE  /\ req' \in [Requests -> RequestRecord]
             /\ \A q \in Requests \ {r} : req'[q] = req[q]
             /\ Handled(r)'
    <2>1. req[r].pc = "read" /\ Goes(r, "write")
        BY <1>6 DEF ReadBody, At, Following
    <2> QED
        BY <1>1, <1>3, <2>1, GoesFields DEF Passed
<1>7. ASSUME Breaks(r)
      PROVE  /\ req' \in [Requests -> RequestRecord]
             /\ \A q \in Requests \ {r} : req'[q] = req[q]
             /\ Handled(r)'
    <2>1. Answers(r, "error")
        BY <1>7 DEF Breaks
    <2> QED
        BY <1>1, <1>3, <2>1, Ended DEF ProxyEnds
<1>8. ASSUME NEW st \in {"upstream", "502"}, req[r].pc = "upstream",
             req' = [req EXCEPT ![r].pc = "response", ![r].sent = Sent(r), ![r].status = st]
      PROVE  /\ req' \in [Requests -> RequestRecord]
             /\ \A q \in Requests \ {r} : req'[q] = req[q]
             /\ Handled(r)'
    <2>1. Sent(r) \in {"whole", "truncated"}
        BY DEF Sent
    <2>2. /\ req' \in [Requests -> RequestRecord]
          /\ \A q \in Requests \ {r} : req'[q] = req[q]
          /\ req'[r].pc = "response" /\ req'[r].tx = req[r].tx
          /\ req'[r].view = req[r].view /\ req'[r].body = req[r].body
          /\ req'[r].sent = Sent(r) /\ req'[r].status = st
          /\ req'[r].answer = req[r].answer /\ req'[r].left = req[r].left
        BY <1>1, <1>8, <2>1 DEF RequestRecord
    <2>3. Passed(r)' = Passed(r)
        BY <1>8, <2>2 DEF Passed
    <2>4. req'[r].answer = None /\ req'[r].tx # 0 /\ ~Blocks(req[r].tx, r, Passed(r))
        BY <1>1, <1>8, <2>2
    <2>5. ~Blocks(req[r].tx, r, Passed(r))'
        BY <1>3, <2>2, <2>3, <2>4
    <2>6. req'[r] \in RequestRecord /\ req'[r].tx \in 0..waf' /\ req'[r].left \in 0..waf'
        BY <1>1, <1>3, <2>2
    <2>7. req'[r].answer \notin Answered /\ req'[r].sent # None /\ req'[r].status # None
        BY <2>1, <2>2, <2>4
    <2> HIDE DEF Blocks, Concerns
    <2>8. InProxy(r)'
        BY <2>2, <2>7
    <2> HIDE DEF InProxy, InFlight
    <2> QED
        BY <1>1, <1>3, <2>2, <2>4, <2>5, <2>6, <2>8
<1>9. ASSUME Aborts(r)
      PROVE  /\ req' \in [Requests -> RequestRecord]
             /\ \A q \in Requests \ {r} : req'[q] = req[q]
             /\ Handled(r)'
    <2>1. Sent(r) \in {"whole", "truncated"}
        BY DEF Sent
    <2>2. /\ req' \in [Requests -> RequestRecord]
          /\ \A q \in Requests \ {r} : req'[q] = req[q]
          /\ req'[r].pc = "cut" /\ req'[r].tx = req[r].tx
          /\ req'[r].view = req[r].view /\ req'[r].body = req[r].body
          /\ req'[r].status = req[r].status
          /\ req'[r].answer = req[r].answer /\ req'[r].left = req[r].left
        BY <1>1, <1>9, <2>1 DEF Aborts, RequestRecord
    <2>3. req[r].pc = "upstream"
        BY <1>9 DEF Aborts, At
    <2> QED
        BY <1>1, <1>3, <2>2, <2>3
<1>10. ASSUME Respond(r)
      PROVE  /\ req' \in [Requests -> RequestRecord]
             /\ \A q \in Requests \ {r} : req'[q] = req[q]
             /\ Handled(r)'
    <2>1. req[r].pc = "response" /\ req[r].status \in {"upstream", "502"}
        BY <1>1, <1>10 DEF Respond, At, RequestRecord
    <2>2. CASE mode = "Blocking" /\ Interrupts(r, "response")
        <3>1. Answers(r, "blocked")
            BY <1>10, <2>2 DEF Respond
        <3>2. Blocks(req[r].tx, r, Phases) /\ ~Blocks(req[r].tx, r, RequestPhases)
            BY <2>2 DEF Interrupts, RequestPhases, Phases
        <3>3. ProxyEnds(r, "blocked") /\ InFlight(r)
            BY <1>1, <2>1, <3>2 DEF ProxyEnds
        <3> QED
            BY <1>1, <1>3, <3>1, <3>3, Ended
    <2>3. CASE ~(mode = "Blocking" /\ Interrupts(r, "response"))
        <3>1. Answers(r, req[r].status)
            BY <1>10, <2>3 DEF Respond
        <3>2. ~Blocks(req[r].tx, r, RequestPhases)
            BY <1>1, <2>1 DEF RequestPhases, Passed
        <3>3. ~Blocks(req[r].tx, r, Phases)
            BY <2>3, <3>2 DEF Interrupts, RequestPhases, Phases
        <3>4. ProxyEnds(r, req[r].status) /\ InFlight(r)
            BY <1>1, <2>1, <3>2, <3>3 DEF ProxyEnds
        <3> QED
            BY <1>1, <1>3, <2>1, <3>1, <3>4, Ended
    <2> QED
        BY <2>2, <2>3
<1> QED
    BY <1>4, <1>5, <1>6, <1>7, <1>8, <1>9, <1>10
       DEF Proxying, Proxied, BadGateway, At

(* The steps of the SPOA path. *)
LEMMA AnsweringStep ==
    ASSUME ServerInv, NEW r \in SPOE, Answering(r)
    PROVE  RequestInv'
<1>1. /\ RequestInv /\ Handled(r) /\ InAgent(r) /\ r \in Requests
      /\ waf \in Nat \ {0} /\ waf \in 0..waf
      /\ req \in [Requests -> RequestRecord] /\ r \notin HTTP
    BY VersionNat DEF ServerInv, RequestInv, Handled
<1>2. Rest /\ Alive
    BY DEF Answering, Message, Unparsed, Examine, FailsOpen, Disconnects, At
<1> SUFFICES /\ req' \in [Requests -> RequestRecord]
             /\ \A q \in Requests \ {r} : req'[q] = req[q]
             /\ Handled(r)'
    BY <1>1, <1>2, RequestStep
<1>3. UNCHANGED <<mode, hits, waf>> /\ Alive'
    BY <1>2 DEF Rest, Alive
<1> USE DEF Handled, InAgent, Blocks, Concerns, InFlight, Answered
<1>4. ASSUME NEW w \in {"agent", "bare"}, NEW b \in {"empty", "small"}, Message(r, w, b)
      PROVE  /\ req' \in [Requests -> RequestRecord]
             /\ \A q \in Requests \ {r} : req'[q] = req[q]
             /\ Handled(r)'
    <2>1. /\ req' \in [Requests -> RequestRecord]
          /\ \A q \in Requests \ {r} : req'[q] = req[q]
          /\ req'[r].pc = "headers" /\ req'[r].tx = waf
          /\ req'[r].answer = req[r].answer /\ req'[r].left = req[r].left
        BY <1>1, <1>4 DEF Message, RequestRecord, Views
    <2>2. req[r].pc = "new"
        BY <1>4 DEF Message, At
    <2>3. Passed(r)' = {}
        BY <2>1 DEF Passed
    <2> QED
        BY <1>1, <1>3, <2>1, <2>2, <2>3
<1>5. ASSUME Answers(r, "error")
      PROVE  /\ req' \in [Requests -> RequestRecord]
             /\ \A q \in Requests \ {r} : req'[q] = req[q]
             /\ Handled(r)'
    BY <1>1, <1>3, <1>5, Ended DEF AgentEnds
<1>6. ASSUME Examine(r)
      PROVE  /\ req' \in [Requests -> RequestRecord]
             /\ \A q \in Requests \ {r} : req'[q] = req[q]
             /\ Handled(r)'
    <2>1. req[r].pc \in RequestPhases
        BY <1>6 DEF Examine, At
    <2>2. CASE Interrupts(r, req[r].pc)
        <3>1. Answers(r, applyInterruption) /\ applyInterruption \in Answered
            BY <1>6, <2>2 DEF Examine, applyInterruption
        <3>2. (applyInterruption = "denied") <=> Blocks(req[r].tx, r, RequestPhases)
            BY <2>1, <2>2 DEF Interrupts, applyInterruption
        <3>3. AgentEnds(r, applyInterruption) /\ InFlight(r)
            BY <2>1, <3>2 DEF AgentEnds, RequestPhases, applyInterruption
        <3> QED
            BY <1>1, <1>3, <3>1, <3>3, Ended
    <2>3. CASE ~Interrupts(r, req[r].pc) /\ req[r].pc = "process"
        <3>1. Answers(r, "allowed")
            BY <1>6, <2>3 DEF Examine, applyAllow
        <3>2. ~Blocks(req[r].tx, r, RequestPhases)
            BY <1>1, <2>3 DEF Interrupts, RequestPhases, Passed
        <3>3. AgentEnds(r, "allowed") /\ InFlight(r)
            BY <2>3, <3>2 DEF AgentEnds
        <3> QED
            BY <1>1, <1>3, <3>1, <3>3, Ended
    <2>4. CASE ~Interrupts(r, req[r].pc) /\ req[r].pc # "process"
        <3>1. \/ req[r].pc = "headers" /\ Goes(r, "write")
              \/ req[r].pc = "write" /\ Goes(r, "process")
            BY <1>6, <2>1, <2>4 DEF Examine, RequestPhases
        <3> QED
            BY <1>1, <1>3, <2>1, <2>4, <3>1, GoesFields
               DEF Interrupts, RequestPhases, Passed
    <2> QED
        BY <2>2, <2>3, <2>4
<1>7. ASSUME Disconnects(r)
      PROVE  /\ req' \in [Requests -> RequestRecord]
             /\ \A q \in Requests \ {r} : req'[q] = req[q]
             /\ Handled(r)'
    <2>1. Goes(r, "cut") /\ req[r].pc # "done"
        BY <1>7 DEF Disconnects, At, RequestPhases
    <2> QED
        BY <1>1, <1>3, <2>1, GoesFields
<1> QED
    BY <1>4, <1>5, <1>6, <1>7 DEF Answering, Unparsed, FailsOpen

(* The steps of Run: its exit cuts what is in flight. *)
LEMMA ExitStep ==
    ASSUME ServerInv, Exit, UNCHANGED <<mode, hits, waf>>
    PROVE  RequestInv'
<1> DEFINE w(r) == [req[r] EXCEPT !.pc = "cut"]
<1>1. /\ RequestInv /\ waf \in Nat /\ req \in [Requests -> RequestRecord]
      /\ \A r \in Requests : Handled(r)
    BY VersionNat DEF ServerInv, RequestInv
<1>2. ASSUME NEW r \in Requests
      PROVE  /\ w(r) \in RequestRecord /\ w(r).pc = "cut"
             /\ w(r).tx = req[r].tx /\ w(r).view = req[r].view /\ w(r).body = req[r].body
             /\ w(r).left = req[r].left
             /\ w(r).answer = req[r].answer
    <2>1. req[r] \in RequestRecord
        BY <1>1
    <2> QED
        BY <2>1 DEF RequestRecord
<1>3. req' = [r \in Requests |-> IF InFlight(r) THEN w(r) ELSE req[r]]
    BY DEF Exit
<1> HIDE DEF w
<1>4. req' \in [Requests -> RequestRecord]
    BY <1>1, <1>2, <1>3
<1>5. ASSUME NEW r \in Requests PROVE Handled(r)'
    <2>1. CASE InFlight(r)
        <3>1. req'[r] = w(r) /\ Handled(r) /\ req[r].pc # "done"
            BY <1>1, <1>3, <2>1 DEF InFlight
        <3> QED
            BY <1>2, <1>4, <3>1 DEF Handled, InProxy, InAgent, InFlight, Answered
    <2>2. CASE ~InFlight(r)
        <3>1. req'[r] = req[r] /\ Handled(r)
            BY <1>1, <1>3, <2>2
        <3> QED
            BY <2>2, <3>1
               DEF Handled, InProxy, InAgent, Blocks, Concerns, InFlight
    <2> QED
        BY <2>1, <2>2
<1> QED
    BY <1>4, <1>5 DEF RequestInv

(* Every step keeps what requests have come through. *)
LEMMA NextRequestInv == ServerInv /\ [Next]_vars => RequestInv'
<1> SUFFICES ASSUME ServerInv, [Next]_vars PROVE RequestInv'
    OBVIOUS
<1>1. ASSUME UNCHANGED <<mode, hits, req>>, waf' \in {waf, waf + 1}, Alive => Alive'
      PROVE  RequestInv'
    <2>1. waf \in Nat /\ waf' \in Nat /\ waf <= waf'
        BY <1>1, VersionNat, SMTT(30) DEF ServerInv
    <2>2. ASSUME NEW q \in Requests PROVE Handled(q)'
        <3>1. Handled(q)
            BY DEF ServerInv, RequestInv
        <3> QED
            BY <1>1, <2>1, <3>1, LeftAlone
    <2> QED
        BY <1>1, <2>2 DEF ServerInv, RequestInv
<1>2. CASE Swap
    BY <1>1, <1>2 DEF Swap, Alive
<1>3. CASE Signal
    BY <1>1, <1>3 DEF Signal, Alive
<1>4. CASE StopSPOA
    BY <1>1, <1>4 DEF StopSPOA, Alive
<1>5. CASE SelectDone
    BY <1>1, <1>5 DEF SelectDone, Alive
<1>6. CASE SelectError
    <2>1. CASE Head(errCh) = "failed"
        BY <1>6, <2>1, ExitStep DEF SelectError
    <2>2. CASE Head(errCh) # "failed"
        BY <1>1, <1>6, <2>2 DEF SelectError, Alive
    <2> QED
        BY <2>1, <2>2
<1>7. CASE Drained
    BY <1>1, <1>7 DEF Drained, Alive
<1>8. CASE Finish
    BY <1>8, ExitStep DEF Finish
<1>9. ASSUME NEW r \in HTTP, Proxying(r) PROVE RequestInv'
    BY <1>9, ProxyingStep
<1>10. ASSUME NEW r \in SPOE, Answering(r) PROVE RequestInv'
    BY <1>10, AnsweringStep
<1>11. ASSUME NEW s \in Servers, ListenerFails(s) PROVE RequestInv'
    BY <1>1, <1>11 DEF ListenerFails, Alive
<1>12. ASSUME NEW s \in Servers, Report(s) PROVE RequestInv'
    BY <1>1, <1>12 DEF Report, Alive
<1>13. CASE UNCHANGED vars
    BY <1>1, <1>13 DEF vars, Alive
<1> QED
    BY <1>2, <1>3, <1>4, <1>5, <1>6, <1>7, <1>8, <1>9, <1>10, <1>11, <1>12, <1>13
       DEF Next, Running

(* Every step keeps what has been reported and who may still report. *)
LEMMA NextListenerInv == ServerInv /\ [Next]_vars => ListenerInv'
<1> SUFFICES ASSUME ServerInv, [Next]_vars PROVE ListenerInv'
    OBVIOUS
<1> USE DEF ServerInv, ListenerInv
<1>1. server \in [Servers -> {"serving", "failed", "closed", "gone"}]
    BY DEF TypeOK
<1>2. ASSUME UNCHANGED <<server, errCh, run>> PROVE ListenerInv'
    BY <1>2
<1>3. CASE StopSPOA
    BY <1>1, <1>3 DEF StopSPOA
<1>4. CASE SelectDone
    BY <1>1, <1>4 DEF SelectDone
<1>5. CASE SelectError
    <2>1. errCh' = Tail(errCh) /\ errCh # <<>> /\ run' # "select"
        BY <1>5 DEF SelectError, Exit
    <2> QED
        BY <2>1, SMTT(30)
<1>6. CASE Drained
    BY <1>6 DEF Drained
<1>7. CASE Finish
    BY <1>7 DEF Finish, Exit
<1>8. ASSUME NEW s \in Servers, ListenerFails(s) PROVE ListenerInv'
    BY <1>1, <1>8 DEF ListenerFails
<1>9. ASSUME NEW s \in Servers, Report(s) PROVE ListenerInv'
    BY <1>1, <1>9, SMTT(30) DEF Report
<1>10. ASSUME NEW r \in HTTP, Proxying(r) PROVE ListenerInv'
    BY <1>2, <1>10
       DEF Proxying, Accept, Inspect, ReadBody, Breaks, Proxied, BadGateway, Aborts, Respond, Rest
<1>11. ASSUME NEW r \in SPOE, Answering(r) PROVE ListenerInv'
    BY <1>2, <1>11 DEF Answering, Message, Unparsed, Examine, FailsOpen, Disconnects, Rest
<1>12. CASE Swap \/ Signal
    BY <1>2, <1>12 DEF Swap, Signal
<1>13. CASE UNCHANGED vars
    BY <1>2, <1>13 DEF vars
<1> QED
    BY <1>3, <1>4, <1>5, <1>6, <1>7, <1>8, <1>9, <1>10, <1>11, <1>12, <1>13
       DEF Next, Running

(* The goroutines that have not reported yet. *)
Senders == {s \in Servers : server[s] # "gone"}

(* There are three of them to begin with. *)
LEMMA ThreeServers == IsFiniteSet(Servers) /\ Cardinality(Servers) = 3
<1> DEFINE A == {"main"}
           B == A \cup {"spoa"}
<1>1. "spoa" \notin A /\ "metrics" \notin B /\ Servers = B \cup {"metrics"}
    BY DEF Servers
<1>2. IsFiniteSet(A) /\ Cardinality(A) = 1
    BY FS_Singleton
<1> HIDE DEF A
<1>3. IsFiniteSet(B) /\ Cardinality(B) = Cardinality(A) + 1
    BY <1>1, <1>2, FS_AddElement
<1> HIDE DEF B
<1>4. IsFiniteSet(Servers) /\ Cardinality(Servers) = Cardinality(B) + 1
    BY <1>1, <1>3, FS_AddElement
<1> QED
    BY <1>2, <1>3, <1>4, SMTT(30)

(* They and what is in errCh are never more than three. *)
LEMMA NextReports ==
    ServerInv /\ [Next]_vars =>
        /\ Len(errCh') + Cardinality(Senders') <= 3
        /\ Len(errCh') <= errChSize
        /\ server' \in [Servers -> {"serving", "failed", "closed", "gone"}]
        /\ run' = "select" => "closed" \notin {errCh'[i] : i \in DOMAIN errCh'}
<1> DEFINE Goal == /\ Len(errCh') + Cardinality(Senders') <= 3
                   /\ Len(errCh') <= errChSize
                   /\ server' \in [Servers -> {"serving", "failed", "closed", "gone"}]
                   /\ run' = "select" => "closed" \notin {errCh'[i] : i \in DOMAIN errCh'}
<1> SUFFICES ASSUME ServerInv, [Next]_vars PROVE Goal
    OBVIOUS
<1>1. /\ server \in [Servers -> {"serving", "failed", "closed", "gone"}]
      /\ errCh \in Seq({"failed", "closed"}) /\ Len(errCh) \in Nat
      /\ Len(errCh) + Cardinality(Senders) <= 3 /\ Len(errCh) <= errChSize
      /\ run = "select" => "closed" \notin {errCh[i] : i \in DOMAIN errCh}
      /\ run = "select" => \A s \in Servers : server[s] # "closed"
    BY SMTT(30) DEF ServerInv, TypeOK, ListenerInv, Senders
<1>2. IsFiniteSet(Senders) /\ Cardinality(Senders) \in Nat
    BY ThreeServers, FS_Subset, FS_CardinalityType DEF Senders
<1>3. ASSUME UNCHANGED <<server, errCh, run>> PROVE Goal
    BY <1>1, <1>3 DEF Senders
<1>4. CASE StopSPOA
    <2>1. /\ server["spoa"] = "serving" /\ server' = [server EXCEPT !["spoa"] = "gone"]
          /\ UNCHANGED <<errCh, run>>
        BY <1>4 DEF StopSPOA
    <2>2. "spoa" \in Senders /\ Senders' = Senders \ {"spoa"}
        BY <1>1, <2>1 DEF Senders, Servers
    <2>3. Cardinality(Senders') = Cardinality(Senders) - 1
        BY <1>2, <2>2, FS_RemoveElement
    <2>4. server' \in [Servers -> {"serving", "failed", "closed", "gone"}]
        BY <1>1, <2>1
    <2>5. Len(errCh') + Cardinality(Senders') <= 3
        BY <1>1, <1>2, <2>1, <2>3, SMTT(30)
    <2> QED
        BY <1>1, <2>1, <2>4, <2>5
<1>5. ASSUME NEW s \in Servers, Close(s), UNCHANGED errCh, run' # "select" PROVE Goal
    <2>1. server' \in [Servers -> {"serving", "failed", "closed", "gone"}] /\ Senders' = Senders
        BY <1>1, <1>5 DEF Close, Senders
    <2> QED
        BY <1>1, <1>5, <2>1
<1>6. CASE SelectError
    <2>1. errCh # <<>> /\ errCh' = Tail(errCh) /\ run' # "select"
        BY <1>6 DEF SelectError, Exit
    <2>2. UNCHANGED server \/ Close("main")
        BY <1>6 DEF SelectError
    <2>3. server' \in [Servers -> {"serving", "failed", "closed", "gone"}] /\ Senders' = Senders
        BY <1>1, <2>2 DEF Close, Senders
    <2>4. Len(errCh') = Len(errCh) - 1
        BY <1>1, <2>1, SMTT(30)
    <2>5. Len(errCh') + Cardinality(Senders') <= 3 /\ Len(errCh') <= errChSize
        BY <1>1, <1>2, <2>3, <2>4, SMTT(30) DEF errChSize
    <2> QED
        BY <2>1, <2>3, <2>5
<1>7. CASE Finish
    BY <1>1, <1>7 DEF Finish, Exit, Senders
<1>8. ASSUME NEW s \in Servers, ListenerFails(s) PROVE Goal
    <2>1. /\ server[s] = "serving" /\ server' = [server EXCEPT ![s] = "failed"]
          /\ UNCHANGED <<errCh, run>>
        BY <1>8 DEF ListenerFails
    <2>2. Senders' = Senders
        BY <1>1, <2>1 DEF Senders
    <2> QED
        BY <1>1, <2>1, <2>2
<1>9. ASSUME NEW s \in Servers, Report(s) PROVE Goal
    <2>1. /\ server[s] \in {"failed", "closed"} /\ server' = [server EXCEPT ![s] = "gone"]
          /\ Len(errCh) < errChSize /\ errCh' = Append(errCh, server[s]) /\ UNCHANGED run
        BY <1>9 DEF Report
    <2>2. s \in Senders /\ Senders' = Senders \ {s}
        BY <1>1, <2>1 DEF Senders
    <2>3. Cardinality(Senders') = Cardinality(Senders) - 1
        BY <1>2, <2>2, FS_RemoveElement
    <2>4. Len(errCh') = Len(errCh) + 1
        BY <1>1, <2>1, SMTT(30)
    <2>5. ASSUME run' = "select", NEW i \in DOMAIN errCh' PROVE errCh'[i] # "closed"
        <3>1. run = "select" /\ server[s] # "closed"
            BY <1>1, <2>1, <2>5
        <3> QED
            BY <1>1, <2>1, <2>5, <3>1, SMTT(30)
    <2> QED
        BY <1>1, <1>2, <2>1, <2>3, <2>4, <2>5, SMTT(30) DEF errChSize
<1>10. ASSUME NEW r \in HTTP, Proxying(r) PROVE Goal
    BY <1>3, <1>10
       DEF Proxying, Accept, Inspect, ReadBody, Breaks, Proxied, BadGateway, Aborts, Respond, Rest
<1>11. ASSUME NEW r \in SPOE, Answering(r) PROVE Goal
    BY <1>3, <1>11 DEF Answering, Message, Unparsed, Examine, FailsOpen, Disconnects, Rest
<1>12. CASE Swap \/ Signal
    BY <1>3, <1>12 DEF Swap, Signal
<1>13. CASE UNCHANGED vars
    BY <1>3, <1>13 DEF vars
<1>14. CASE SelectDone
    BY <1>5, <1>14 DEF SelectDone, Servers
<1>15. CASE Drained
    BY <1>5, <1>15 DEF Drained, Servers
<1> HIDE DEF Goal
<1> QED
    BY <1>4, <1>6, <1>7, <1>8, <1>9, <1>10, <1>11, <1>12, <1>13, <1>14, <1>15
       DEF Next, Running

(* The remaining variables keep their types. *)
LEMMA NextScalars ==
    ServerInv /\ [Next]_vars =>
        /\ mode' \in {"Blocking", "Detection"} /\ hits' \in Verdicts /\ waf' \in DOMAIN hits'
        /\ run' \in {"select", "draining", "closing", "exited"}
        /\ term' \in BOOLEAN /\ faults' \in 0..MaxFaults
<1> SUFFICES ASSUME ServerInv, [Next]_vars
             PROVE  /\ mode' \in {"Blocking", "Detection"} /\ hits' \in Verdicts
                    /\ waf' \in DOMAIN hits'
                    /\ run' \in {"select", "draining", "closing", "exited"}
                    /\ term' \in BOOLEAN /\ faults' \in 0..MaxFaults
    OBVIOUS
<1>1. /\ mode \in {"Blocking", "Detection"} /\ hits \in Verdicts /\ waf \in DOMAIN hits
      /\ run \in {"select", "draining", "closing", "exited"}
      /\ term \in BOOLEAN /\ faults \in 0..MaxFaults
    BY DEF ServerInv, TypeOK
<1>2. UNCHANGED <<mode, hits>> /\ waf' \in DOMAIN hits
    BY <1>1, ZenonT(40) DEF Next, Swap, Signal, StopSPOA, Running, SelectDone, SelectError, Drained, Finish,
       ListenerFails, Report, Proxying, Accept, Inspect, ReadBody, Breaks, Proxied, BadGateway,
       Aborts, Respond, Answering, Message, Unparsed, Examine, FailsOpen, Disconnects, Rest, vars
<1>3. run' \in {run, "draining", "closing", "exited"}
    BY ZenonT(40) DEF Next, Swap, Signal, StopSPOA, Running, SelectDone, SelectError, Drained,
       Finish, ListenerFails, Report, Proxying, Accept, Inspect, ReadBody, Breaks, Proxied,
       BadGateway, Aborts, Respond, Answering, Message, Unparsed, Examine, FailsOpen,
       Disconnects, Rest, Exit, vars
<1>4. term' = term \/ term' = TRUE
    BY ZenonT(40) DEF Next, Swap, Signal, StopSPOA, Running, SelectDone, SelectError, Drained,
       Finish, ListenerFails, Report, Proxying, Accept, Inspect, ReadBody, Breaks, Proxied,
       BadGateway, Aborts, Respond, Answering, Message, Unparsed, Examine, FailsOpen,
       Disconnects, Rest, vars
<1>5. UNCHANGED faults \/ Fault
    BY ZenonT(40) DEF Next, Swap, Signal, StopSPOA, Running, SelectDone, SelectError, Drained, Finish,
       ListenerFails, Report, Proxying, Accept, Inspect, ReadBody, Breaks, Proxied, BadGateway,
       Aborts, Respond, Answering, Message, Unparsed, Examine, FailsOpen, Disconnects, vars
<1>6. faults' \in 0..MaxFaults
    BY <1>1, <1>5, SMTT(30) DEF Fault
<1> QED
    BY <1>1, <1>2, <1>3, <1>4, <1>6

(* The start of Run satisfies the invariant. *)
LEMMA InitServerInv == Init => ServerInv
<1> SUFFICES ASSUME Init PROVE ServerInv
    OBVIOUS
<1> USE DEF Init
<1>1. hits \in Seq([Views -> Phases \cup {None}]) /\ hits # <<>>
    OBVIOUS
<1>2. waf \in DOMAIN hits /\ waf \in Nat
    BY <1>1, SMTT(30)
<1>3. NoRequest \in RequestRecord
    BY DEF NoRequest, RequestRecord
<1>4. req \in [Requests -> RequestRecord]
    BY <1>3
<1>5. ASSUME NEW r \in Requests PROVE Handled(r)
    BY <1>2, <1>4, <1>5, SMTT(30)
       DEF Handled, InProxy, InAgent, InFlight, NoRequest, Answered
<1>6. ListenerInv
    BY SMTT(30) DEF ListenerInv
<1>7. Senders = Servers /\ Len(errCh) = 0
    BY DEF Senders
<1>8. /\ Len(errCh) + Cardinality(Senders) <= 3 /\ Len(errCh) <= errChSize
      /\ "closed" \notin {errCh[i] : i \in DOMAIN errCh}
    BY <1>7, ThreeServers, SMTT(30) DEF errChSize
<1>9. TypeOK
    <2>1. \A r \in Requests :
             /\ req[r].tx \in 0..waf /\ req[r].left \in 0..waf
             /\ (req[r].pc = "done") <=> (req[r].answer # None)
             /\ InFlight(r) => req[r].tx # 0 /\ Alive
        BY <1>5 DEF Handled
    <2>2. /\ mode \in {"Blocking", "Detection"} /\ hits \in Verdicts
          /\ server \in [Servers -> {"serving", "failed", "closed", "gone"}]
          /\ run \in {"select", "draining", "closing", "exited"}
        OBVIOUS
    <2>3. faults \in 0..MaxFaults
        BY SMTT(30)
    <2>4. term \in BOOLEAN
        OBVIOUS
    <2> HIDE DEF Init
    <2> QED
        BY <1>2, <1>8, <2>1, <2>2, <2>3, <2>4 DEF TypeOK, Senders
<1> QED
    BY <1>4, <1>5, <1>6, <1>9 DEF ServerInv, RequestInv

(* Every step keeps the invariant. *)
LEMMA NextServerInv == ServerInv /\ [Next]_vars => ServerInv'
<1> SUFFICES ASSUME ServerInv, [Next]_vars PROVE ServerInv'
    OBVIOUS
<1>1. RequestInv' /\ ListenerInv'
    BY NextRequestInv, NextListenerInv
<1>2. TypeOK'
    BY <1>1, NextReports, NextScalars DEF TypeOK, RequestInv, Handled, Senders
<1> QED
    BY <1>1, <1>2 DEF ServerInv

(* The inductive invariant always holds. *)
THEOREM ServerInvariant == Spec => []ServerInv
BY InitServerInv, NextServerInv, PTL DEF Spec

(* Every variable keeps its type; in particular errCh, with its two slots, is   *)
(* never asked to hold more than the goroutines of Run can report.              *)
THEOREM ServerTypeOK == Spec => []TypeOK
<1>1. ServerInv => TypeOK
    BY DEF ServerInv
<1> QED
    BY <1>1, ServerInvariant, PTL

(* One version of the WAF decides a request, over all its phases, however often *)
(* Swap replaces it meanwhile (BuildHandler, HandleSPOE).                       *)
THEOREM ServerOneVersionDecides == Spec => []OneVersionDecides
<1>1. ServerInv => OneVersionDecides
    <2> SUFFICES ASSUME ServerInv, NEW r \in Requests, req[r].pc = "done"
                 PROVE  \E v \in req[r].tx..req[r].left : v # 0 => Fits(v, r)
        BY DEF OneVersionDecides
    <2>1. /\ Handled(r) /\ req[r].answer \in Answered
          /\ req[r].tx \in Nat /\ req[r].left \in Nat
        BY DEF ServerInv, RequestInv, Handled, RequestRecord
    <2>2. CASE req[r].answer = "error"
        <3>1. req[r].tx \in req[r].tx..req[r].left /\ Fits(req[r].tx, r)
            BY <2>1, <2>2, SMTT(30) DEF Handled, Fits
        <3> QED
            BY <3>1
    <2>3. CASE req[r].answer # "error"
        <3>1. req[r].tx \in req[r].tx..req[r].left /\ Fits(req[r].tx, r)
            BY <2>1, <2>3, SMTT(30) DEF Handled, InProxy, InAgent, Fits, Answered
        <3> QED
            BY <3>1
    <2> QED
        BY <2>2, <2>3
<1> QED
    BY <1>1, ServerInvariant, PTL

(* The reverse proxy and the SPOA agent decide alike what a version of the WAF  *)
(* judges alike in what each of them shows it (inspectRequest, HandleSPOE).     *)
THEOREM ServerPathsAgree == Spec => []PathsAgree
<1>1. ServerInv => PathsAgree
    <2> SUFFICES ASSUME ServerInv, NEW h \in HTTP, NEW s \in SPOE,
                        {req[h].pc, req[s].pc} = {"done"},
                        "error" \notin {req[h].answer, req[s].answer},
                        req[h].tx = req[s].tx, req[h].body = req[s].body,
                        hits[req[h].tx][req[h].view] = hits[req[s].tx][req[s].view]
                 PROVE  (req[s].answer = "denied") <=> (req[h].sent = None)
        BY DEF PathsAgree
    <2>1. Handled(h) /\ Handled(s)
        BY DEF ServerInv, RequestInv
    <2>2. req[h].answer \in {"blocked", "upstream", "502"}
        BY <2>1 DEF Handled, InProxy, RequestRecord, Answered
    <2>3. req[s].answer \in {"denied", "allowed"}
        BY <2>1 DEF Handled, InAgent
    <2> QED
        BY <2>1, <2>2, <2>3 DEF Handled, InProxy, InAgent, Blocks, Concerns
<1> QED
    BY <1>1, ServerInvariant, PTL
=============================================================================
