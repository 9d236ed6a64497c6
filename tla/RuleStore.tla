----------------------------- MODULE RuleStore -----------------------------
(***************************************************************************)
(* The operator's in-memory store of compiled rule bundles                 *)
(* (internal/rulestore/store.go) with the goroutines that use it: the      *)
(* controllers that publish, and the gRPC Subscribe handlers               *)
(* (internal/grpcserver/server.go) that register a subscription and stream *)
(* what arrives on its channel to one engine.                              *)
(*                                                                         *)
(* s.mu is held from the map update to the end of the fan-out, but the     *)
(* channels are not protected by it: a handler receives, and Subscribe     *)
(* sends its initial bundle, while a publisher is inside sendLatest.       *)
(* Every channel operation is therefore a step of its own.                 *)
(***************************************************************************)
EXTENDS Naturals

CONSTANTS
    Keys,        \* engine identities (namespace/name)
    Publishers,  \* goroutines that publish (the reconcile workers)
    Handlers,    \* gRPC Subscribe handler goroutines, one stream each
    Shas,        \* content hashes of bundles
    None,        \* no hash, no lock holder, no subscriber
    MaxPublish   \* bound: bundles the store accepts per key

ASSUME StoreAssumption ==
    /\ None \notin Publishers \cup Handlers \cup Shas
    /\ Publishers \cap Handlers = {}
    /\ Keys # {}
    /\ MaxPublish \in Nat

VARIABLES
    lock,         \* s.mu: None or the publisher in its critical section
    bundles,      \* s.bundles: the current bundle of each key
    subscribers,  \* s.subscribers: the registered handlers of each key
    ch,           \* the one slot of each subscription's channel
    pc,           \* where each publisher and handler is
    arg,          \* publisher: the bundle it was called with, and for whom
    todo,         \* publisher: subscribers its range loop has still to serve
    cur,          \* publisher: the subscriber sendLatest is working on
    key,          \* handler: the engine its stream is for
    hand,         \* handler: the bundle in its hands (snapshot or received)
    sent,         \* handler: the last bundle given to stream.Send
    done          \* handler: stream.Context() is done

vars == <<lock, bundles, subscribers, ch, pc, arg, todo, cur, key, hand, sent, done>>
publisherVars == <<arg, todo, cur>>
handlerVars == <<key, hand, sent, done>>

(* seq numbers the bundles a key has accepted. It is not a field of the code's *)
(* Bundle: it tells two publications of the same content apart.                *)
Bundle == [sha : Shas \cup {None}, seq : Nat]
NoBundle == [sha |-> None, seq |-> 0]

(* The dead values of the locals of a goroutine that is not in a call. *)
AnyKey == CHOOSE k \in Keys : TRUE
NoCall == [key |-> AnyKey, bundle |-> NoBundle, always |-> FALSE]

Present(b) == b.seq > 0
Goto(t, l) == pc' = [pc EXCEPT ![t] = l]

Init ==
    /\ lock = None
    /\ bundles = [k \in Keys |-> NoBundle]
    /\ subscribers = [k \in Keys |-> {}]
    /\ ch = [h \in Handlers |-> NoBundle]
    /\ pc = [t \in Publishers \cup Handlers |-> "idle"]
    /\ arg = [p \in Publishers |-> NoCall]
    /\ todo = [p \in Publishers |-> {}]
    /\ cur = [p \in Publishers |-> None]
    /\ key = [h \in Handlers |-> AnyKey]
    /\ hand = [h \in Handlers |-> NoBundle]
    /\ sent = [h \in Handlers |-> NoBundle]
    /\ done = [h \in Handlers |-> FALSE]

-----------------------------------------------------------------------------
(* Publish and PublishIfChanged *)

(* A controller calls Publish (always) or PublishIfChanged for key k. *)
CallPublish(p, k, s, always) ==
    /\ pc[p] = "idle"
    /\ bundles[k].seq < MaxPublish
    /\ arg' = [arg EXCEPT ![p] = [key |-> k, always |-> always,
                                  bundle |-> [sha |-> s, seq |-> 0]]]
    /\ Goto(p, "lock")
    /\ UNCHANGED <<lock, bundles, subscribers, ch, todo, cur, handlerVars>>

Unchanged(p) ==
    /\ ~arg[p].always
    /\ Present(bundles[arg[p].key])
    /\ bundles[arg[p].key].sha = arg[p].bundle.sha

(* The lock is taken, the content is what the store already has: return false. *)
PublishUnchanged(p) ==
    /\ pc[p] = "lock"
    /\ lock = None
    /\ Unchanged(p)
    /\ arg' = [arg EXCEPT ![p] = NoCall]
    /\ Goto(p, "idle")
    /\ UNCHANGED <<lock, bundles, subscribers, ch, todo, cur, handlerVars>>

PublishNotStored(p) ==
    LET k == arg[p].key
        b == [sha |-> arg[p].bundle.sha, seq |-> bundles[k].seq + 1]
    IN  /\ pc[p] = "lock"
        /\ lock = None
        /\ ~Unchanged(p)
        /\ lock' = p
        /\ arg' = [arg EXCEPT ![p].bundle = b]
        /\ todo' = [todo EXCEPT ![p] = subscribers[k]]
        /\ Goto(p, "fanout")
        /\ UNCHANGED <<bundles, subscribers, ch, cur, handlerVars>>

(* The lock is taken and the map updated; the fan-out begins. *)
PublishStore(p) ==
    LET k == arg[p].key
        b == [sha |-> arg[p].bundle.sha, seq |-> bundles[k].seq + 1]
    IN  /\ pc[p] = "lock"
        /\ lock = None
        /\ ~Unchanged(p)
        /\ lock' = p
        /\ bundles' = [bundles EXCEPT ![k] = b]
        /\ arg' = [arg EXCEPT ![p].bundle = b]
        /\ todo' = [todo EXCEPT ![p] = subscribers[k]]
        /\ Goto(p, "fanout")
        /\ UNCHANGED <<subscribers, ch, cur, handlerVars>>

(* sendLatest, first select: there is room, the bundle is queued. *)
SendNow(p, h) ==
    /\ pc[p] = "fanout"
    /\ h \in todo[p]
    /\ ~Present(ch[h])
    /\ ch' = [ch EXCEPT ![h] = arg[p].bundle]
    /\ todo' = [todo EXCEPT ![p] = @ \ {h}]
    /\ UNCHANGED <<lock, bundles, subscribers, pc, arg, cur, handlerVars>>

SendFullDrops(p, h) ==
    /\ pc[p] = "fanout"
    /\ h \in todo[p]
    /\ Present(ch[h])
    /\ todo' = [todo EXCEPT ![p] = @ \ {h}]
    /\ UNCHANGED <<lock, bundles, subscribers, ch, pc, arg, cur, handlerVars>>

SendFullWaits(p, h) ==
    /\ pc[p] = "fanout"
    /\ h \in todo[p]
    /\ Present(ch[h])
    /\ cur' = [cur EXCEPT ![p] = h]
    /\ Goto(p, "send")
    /\ UNCHANGED <<lock, bundles, subscribers, ch, arg, todo, handlerVars>>

(* sendLatest, first select: the channel is full, its default is taken. *)
SendFull(p, h) ==
    /\ pc[p] = "fanout"
    /\ h \in todo[p]
    /\ Present(ch[h])
    /\ cur' = [cur EXCEPT ![p] = h]
    /\ Goto(p, "drain")
    /\ UNCHANGED <<lock, bundles, subscribers, ch, arg, todo, handlerVars>>

(* sendLatest, second select: take the stale bundle out, if it is still there. *)
Drain(p) ==
    /\ pc[p] = "drain"
    /\ ch' = [ch EXCEPT ![cur[p]] = NoBundle]
    /\ Goto(p, "send")
    /\ UNCHANGED <<lock, bundles, subscribers, publisherVars, handlerVars>>

(* sendLatest, last statement: a send that blocks while the channel is full. *)
SendBlocking(p) ==
    /\ pc[p] = "send"
    /\ ~Present(ch[cur[p]])
    /\ ch' = [ch EXCEPT ![cur[p]] = arg[p].bundle]
    /\ todo' = [todo EXCEPT ![p] = @ \ {cur[p]}]
    /\ cur' = [cur EXCEPT ![p] = None]
    /\ Goto(p, "fanout")
    /\ UNCHANGED <<lock, bundles, subscribers, arg, handlerVars>>

PublishReturnLocked(p) ==
    /\ pc[p] = "fanout"
    /\ todo[p] = {}
    /\ arg' = [arg EXCEPT ![p] = NoCall]
    /\ Goto(p, "idle")
    /\ UNCHANGED <<lock, bundles, subscribers, ch, todo, cur, handlerVars>>

(* Every subscriber is served: the deferred Unlock runs. *)
PublishReturn(p) ==
    /\ pc[p] = "fanout"
    /\ todo[p] = {}
    /\ lock' = None
    /\ arg' = [arg EXCEPT ![p] = NoCall]
    /\ Goto(p, "idle")
    /\ UNCHANGED <<bundles, subscribers, ch, todo, cur, handlerVars>>

-----------------------------------------------------------------------------
(* Subscribe, and the handler that called it *)

(* An engine opens a stream; the handler enters Store.Subscribe. *)
OpenStream(h, k) ==
    /\ pc[h] = "idle"
    /\ key' = [key EXCEPT ![h] = k]
    /\ Goto(h, "register")
    /\ UNCHANGED <<lock, bundles, subscribers, ch, publisherVars, hand, sent, done>>

(* Subscribe's critical section: a fresh channel is registered and the current *)
(* bundle read. The bundle is sent after the Unlock, in SendInitial.           *)
Register(h) ==
    LET k == key[h] IN
    /\ pc[h] = "register"
    /\ lock = None
    /\ subscribers' = [subscribers EXCEPT ![k] = @ \cup {h}]
    /\ hand' = [hand EXCEPT ![h] = bundles[k]]
    /\ Goto(h, IF Present(bundles[k]) THEN "initial" ELSE "select")
    /\ UNCHANGED <<lock, bundles, ch, publisherVars, key, sent, done>>

SendInitialReread(h) ==
    /\ pc[h] = "initial"
    /\ ~Present(ch[h])
    /\ ch' = [ch EXCEPT ![h] = bundles[key[h]]]
    /\ hand' = [hand EXCEPT ![h] = NoBundle]
    /\ Goto(h, "select")
    /\ UNCHANGED <<lock, bundles, subscribers, publisherVars, key, sent, done>>

(* sub.ch <- current, which blocks while the channel is full. *)
SendInitial(h) ==
    /\ pc[h] = "initial"
    /\ ~Present(ch[h])
    /\ ch' = [ch EXCEPT ![h] = hand[h]]
    /\ hand' = [hand EXCEPT ![h] = NoBundle]
    /\ Goto(h, "select")
    /\ UNCHANGED <<lock, bundles, subscribers, publisherVars, key, sent, done>>

(* The handler's select takes a bundle from the channel. *)
Receive(h) ==
    /\ pc[h] = "select"
    /\ Present(ch[h])
    /\ hand' = [hand EXCEPT ![h] = ch[h]]
    /\ ch' = [ch EXCEPT ![h] = NoBundle]
    /\ Goto(h, "sending")
    /\ UNCHANGED <<lock, bundles, subscribers, publisherVars, key, sent, done>>

(* stream.Send succeeds. *)
StreamSend(h) ==
    /\ pc[h] = "sending"
    /\ sent' = [sent EXCEPT ![h] = hand[h]]
    /\ hand' = [hand EXCEPT ![h] = NoBundle]
    /\ Goto(h, "select")
    /\ UNCHANGED <<lock, bundles, subscribers, ch, publisherVars, key, done>>

(* stream.Send fails: the handler returns and its deferred unsub runs. *)
StreamError(h) ==
    /\ pc[h] = "sending"
    /\ hand' = [hand EXCEPT ![h] = NoBundle]
    /\ Goto(h, "unsub")
    /\ UNCHANGED <<lock, bundles, subscribers, ch, publisherVars, key, sent, done>>

(* The client goes away, or the server shuts down, at any moment of the call. *)
ContextDone(h) ==
    /\ pc[h] # "idle"
    /\ ~done[h]
    /\ done' = [done EXCEPT ![h] = TRUE]
    /\ UNCHANGED <<lock, bundles, subscribers, ch, pc, publisherVars, key, hand, sent>>

(* The handler's select sees the done context. *)
Disconnect(h) ==
    /\ pc[h] = "select"
    /\ done[h]
    /\ Goto(h, "unsub")
    /\ UNCHANGED <<lock, bundles, subscribers, ch, publisherVars, handlerVars>>

(* unsub takes the lock and removes the subscription; the channel, and all the *)
(* handler's state, are garbage after it.                                      *)
Unsubscribe(h) ==
    /\ pc[h] = "unsub"
    /\ lock = None
    /\ subscribers' = [subscribers EXCEPT ![key[h]] = @ \ {h}]
    /\ ch' = [ch EXCEPT ![h] = NoBundle]
    /\ key' = [key EXCEPT ![h] = AnyKey]
    /\ sent' = [sent EXCEPT ![h] = NoBundle]
    /\ done' = [done EXCEPT ![h] = FALSE]
    /\ Goto(h, "idle")
    /\ UNCHANGED <<lock, bundles, publisherVars, hand>>

-----------------------------------------------------------------------------
PublisherStep(p) ==
    \/ PublishUnchanged(p)
    \/ PublishStore(p)
    \/ \E h \in Handlers : SendNow(p, h) \/ SendFull(p, h)
    \/ Drain(p)
    \/ SendBlocking(p)
    \/ PublishReturn(p)

HandlerStep(h) ==
    \/ Register(h)
    \/ SendInitial(h)
    \/ Receive(h)
    \/ StreamSend(h)
    \/ Disconnect(h)
    \/ Unsubscribe(h)

Next ==
    \/ \E p \in Publishers, k \in Keys, s \in Shas, always \in BOOLEAN :
            CallPublish(p, k, s, always)
    \/ \E p \in Publishers : PublisherStep(p)
    \/ \E h \in Handlers, k \in Keys : OpenStream(h, k)
    \/ \E h \in Handlers : HandlerStep(h)
    \/ \E h \in Handlers : StreamError(h) \/ ContextDone(h)

(* A runnable goroutine is scheduled; sync.RWMutex hands the lock to a waiter *)
(* that has waited long enough (starvation mode), so its takers are strongly  *)
(* fair. Calls, new streams, errors and disconnects need never happen.        *)
Fairness ==
    /\ \A p \in Publishers : SF_vars(PublisherStep(p))
    /\ \A h \in Handlers : SF_vars(HandlerStep(h))

Spec == Init /\ [][Next]_vars
FairSpec == Spec /\ Fairness

-----------------------------------------------------------------------------
(* Every variable keeps its type, and the publisher inside the critical section *)
(* of Publish is the one that holds s.mu: at most one is, and none leaves it    *)
(* without unlocking.                                                           *)
TypeOK ==
    /\ lock \in Publishers \cup {None}
    /\ bundles \in [Keys -> Bundle]
    /\ subscribers \in [Keys -> SUBSET Handlers]
    /\ ch \in [Handlers -> Bundle]
    /\ pc \in [Publishers \cup Handlers ->
                 {"idle", "lock", "fanout", "drain", "send",
                  "register", "initial", "select", "sending", "unsub"}]
    /\ arg \in [Publishers -> [key : Keys, bundle : Bundle, always : BOOLEAN]]
    /\ todo \in [Publishers -> SUBSET Handlers]
    /\ cur \in [Publishers -> Handlers \cup {None}]
    /\ key \in [Handlers -> Keys]
    /\ hand \in [Handlers -> Bundle]
    /\ sent \in [Handlers -> Bundle]
    /\ done \in [Handlers -> BOOLEAN]
    /\ \A p \in Publishers : lock = p <=> pc[p] \in {"fanout", "drain", "send"}

(* A publisher's range loop has still to serve h. *)
Pending(h) == \E p \in Publishers : h \in todo[p]

(* The newest bundle that is on its way to, or with, the engine of h. *)
Newest(h) ==
    IF Present(ch[h]) THEN ch[h]
    ELSE IF pc[h] = "sending" THEN hand[h] ELSE sent[h]

(* No update is lost (store.go Publish, "the consumer sees the most recent     *)
(* bundle"): once Subscribe has returned and no fan-out is still to reach the  *)
(* subscriber, the newest bundle queued for or sent to its engine is the       *)
(* store's current one, whatever the interleaving of the initial send, the     *)
(* drain and the receives.                                                     *)
NoLostUpdate ==
    \A h \in Handlers :
        pc[h] \in {"select", "sending"} /\ ~Pending(h)
            => Newest(h) = bundles[key[h]]

(* The handler's subscription is in s.subscribers. *)
Registered(h) == pc[h] \in {"initial", "select", "sending", "unsub"}

(* s.subscribers holds exactly the handlers between Register and Unsubscribe. *)
RegistryInv ==
    \A h \in Handlers, k \in Keys :
        h \in subscribers[k] <=> Registered(h) /\ key[h] = k

(* Fan-out serves registered subscribers of the published key, under the lock, *)
(* with the bundle the map holds.                                              *)
FanOutInv ==
    \A p \in Publishers :
        /\ todo[p] # {} => lock = p
        /\ todo[p] \subseteq subscribers[arg[p].key]
        /\ lock = p => arg[p].bundle = bundles[arg[p].key] /\ Present(arg[p].bundle)
        /\ pc[p] \in {"drain", "send"} => cur[p] \in todo[p]

(* Bundles that are not there are all the same, and a handler that is not      *)
(* registered holds none.                                                      *)
AbsenceInv ==
    /\ \A k \in Keys : ~Present(bundles[k]) => bundles[k] = NoBundle
    /\ \A h \in Handlers : ~Registered(h) => ch[h] = NoBundle /\ sent[h] = NoBundle
    /\ \A h \in Handlers : pc[h] \notin {"initial", "sending"} => hand[h] = NoBundle

(* Between Subscribe's unlock and its initial send the current bundle is in the *)
(* channel (a publisher was faster) or still in the snapshot.                   *)
SnapshotInv ==
    \A h \in Handlers :
        pc[h] = "initial" /\ ~Pending(h)
            => (IF Present(ch[h]) THEN ch[h] ELSE hand[h]) = bundles[key[h]]

(* Sent, held and queued bundles of a stream are in the order of publication,  *)
(* and none is as new as a bundle that a publisher has still to queue.         *)
OrderInv ==
    \A h \in Handlers : Registered(h) =>
        LET top == bundles[key[h]].seq IN
        /\ pc[h] \in {"initial", "sending"} => sent[h].seq < hand[h].seq
        /\ Present(ch[h]) => sent[h].seq < ch[h].seq /\ hand[h].seq < ch[h].seq
        /\ \A b \in {sent[h], hand[h], ch[h]} :
              /\ b.seq <= top
              /\ Pending(h) => b.seq < top

(* The inductive invariant: how the registry, the fan-out, the snapshot and the *)
(* order of bundles fit together at every step of Publish and Subscribe.        *)
StoreInv ==
    /\ TypeOK
    /\ RegistryInv
    /\ FanOutInv
    /\ AbsenceInv
    /\ SnapshotInv
    /\ NoLostUpdate
    /\ OrderInv

(* Within one stream an engine is sent strictly newer bundles: none twice, none *)
(* after a newer one, although Subscribe sends its snapshot after unlocking.    *)
NeverBackwards ==
    [][\A h \in Handlers :
         pc[h] = "sending" /\ pc'[h] = "select" => sent'[h].seq > sent[h].seq]_vars

(* While no stream is torn down, every engine whose Subscribe has returned is   *)
(* eventually sent the store's current bundle.                                  *)
StreamCatchesUp ==
    [](\A g \in Handlers : pc[g] # "unsub")
        => \A h \in Handlers : pc[h] = "select" ~> sent[h] = bundles[key[h]]

(* The store as the engines see it: the streams are the handlers inside their   *)
(* call, and what a stream was sent last is the last bundle given to its Send.  *)
Latest == INSTANCE LatestBundle WITH
              Streams <- Handlers,
              Contents <- Shas \cup {None},
              current <- bundles,
              open <- {h \in Handlers : pc[h] # "idle"},
              last <- sent

(* The lock, the one-slot channels, the drain and the late initial send together *)
(* behave like a register with subscribers: every stream is sent newer and newer *)
(* bundles of its own key, and the newest of them only as it was published.      *)
ImplementsLatest == Latest!Spec

(* store.go, Subscribe: "Non-blocking: channel is fresh (buffer=1), so this     *)
(* always succeeds." The initial send of a subscription always completes.       *)
SubscribeReturns ==
    \A h \in Handlers : pc[h] = "initial" ~> pc[h] # "initial"

(* store.go, Publish: the newest bundle is delivered "without blocking the      *)
(* publisher". A publisher that took the lock eventually returns it.            *)
PublishReturns ==
    \A p \in Publishers : pc[p] = "fanout" ~> pc[p] = "idle"
=============================================================================
