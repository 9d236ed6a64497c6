-------------------------- MODULE RuleStoreProofs --------------------------
(***************************************************************************)
(* Proofs about RuleStore for any number of engines, publishers and        *)
(* streams: StoreInv is inductive, so no update is lost (NoLostUpdate),    *)
(* no stream goes back to an older bundle (NeverBackwards), and the store  *)
(* implements the register with subscribers of LatestBundle.               *)
(* One lemma per action; under it one step per conjunct of StoreInv.       *)
(***************************************************************************)
EXTENDS RuleStore, TLAPS

(* Most steps are first-order and left to Zenon; those that need arithmetic,    *)
(* records or sequences say so.                                                 *)
USE ZenonT(30)

USE StoreAssumption

(* A call of Publish or PublishIfChanged changes only the locals of its goroutine. *)
LEMMA CallPublishPreserves ==
    ASSUME NEW p \in Publishers, NEW k \in Keys, NEW s \in Shas,
           NEW always \in BOOLEAN, StoreInv, CallPublish(p, k, s, always)
    PROVE  StoreInv'
<1> USE DEF StoreInv, CallPublish, Goto, publisherVars, handlerVars,
           Present, Bundle, NoBundle, NoCall, Registered, Pending
<1>1. TypeOK'
    BY SMTT(30) DEF TypeOK, FanOutInv, AnyKey
<1>2. RegistryInv'
    BY DEF TypeOK, RegistryInv
<1>3. FanOutInv'
    BY SMTT(30) DEF TypeOK, RegistryInv, FanOutInv
<1>4. AbsenceInv'
    BY DEF TypeOK, FanOutInv, RegistryInv, AbsenceInv
<1>5. SnapshotInv'
    BY DEF TypeOK, FanOutInv, RegistryInv, AbsenceInv, SnapshotInv
<1>6. NoLostUpdate'
    BY SMTT(30) DEF TypeOK, FanOutInv, RegistryInv, AbsenceInv, SnapshotInv, NoLostUpdate, Newest
<1>7. OrderInv'
    BY DEF TypeOK, FanOutInv, RegistryInv, AbsenceInv, OrderInv
<1> QED
    BY <1>1, <1>2, <1>3, <1>4, <1>5, <1>6, <1>7

(* PublishIfChanged returns early when the content is the stored one. *)
LEMMA PublishUnchangedPreserves ==
    ASSUME NEW p \in Publishers, StoreInv, PublishUnchanged(p)
    PROVE  StoreInv'
<1> USE DEF StoreInv, PublishUnchanged, Goto, publisherVars, handlerVars,
           Present, Bundle, NoBundle, NoCall, Registered, Pending
<1>1. TypeOK'
    BY DEF TypeOK, FanOutInv, AnyKey
<1>2. RegistryInv'
    BY DEF TypeOK, RegistryInv
<1>3. FanOutInv'
    BY SMTT(30) DEF TypeOK, RegistryInv, FanOutInv
<1>4. AbsenceInv'
    BY DEF TypeOK, FanOutInv, RegistryInv, AbsenceInv
<1>5. SnapshotInv'
    BY DEF TypeOK, FanOutInv, RegistryInv, AbsenceInv, SnapshotInv
<1>6. NoLostUpdate'
    BY SMTT(30) DEF TypeOK, FanOutInv, RegistryInv, AbsenceInv, SnapshotInv, NoLostUpdate, Newest
<1>7. OrderInv'
    BY DEF TypeOK, FanOutInv, RegistryInv, AbsenceInv, OrderInv
<1> QED
    BY <1>1, <1>2, <1>3, <1>4, <1>5, <1>6, <1>7

(* The map update makes every subscriber of the key pending: nothing is *)
(* promised of them until the fan-out has reached them. *)
LEMMA PublishStorePreserves ==
    ASSUME NEW p \in Publishers, StoreInv, PublishStore(p)
    PROVE  StoreInv'
<1> USE DEF StoreInv, PublishStore, Goto, publisherVars, handlerVars,
           Present, Bundle, NoBundle, NoCall, Registered, Pending
<1> DEFINE kk == arg[p].key
           b == [sha |-> arg[p].bundle.sha, seq |-> bundles[kk].seq + 1]
<1>a. kk \in Keys /\ b \in Bundle /\ Present(b)
    <2>1. /\ arg[p] \in [key : Keys, bundle : Bundle, always : BOOLEAN]
          /\ bundles \in [Keys -> Bundle]
        BY DEF TypeOK
    <2> QED
        BY <2>1, SMTT(30)
<1>b. /\ lock' = p
      /\ bundles' = [bundles EXCEPT ![kk] = b]
      /\ arg' = [arg EXCEPT ![p].bundle = b]
      /\ todo' = [todo EXCEPT ![p] = subscribers[kk]]
    OBVIOUS
<1>c. \A q \in Publishers : todo[q] = {}
    <2>1. lock = None /\ FanOutInv
        OBVIOUS
    <2> HIDE DEF PublishStore, StoreInv
    <2> QED
        BY <2>1 DEF FanOutInv
<1>1. TypeOK'
    <2>1. pc' = [pc EXCEPT ![p] = "fanout"] /\ lock = None
        OBVIOUS
    <2>2. TypeOK /\ UNCHANGED <<subscribers, ch, cur, key, hand, sent, done>>
        OBVIOUS
    <2> HIDE DEF PublishStore, StoreInv, b, kk
    <2>3. arg' \in [Publishers -> [key : Keys, bundle : Bundle, always : BOOLEAN]]
        <3>1. arg \in [Publishers -> [key : Keys, bundle : Bundle, always : BOOLEAN]]
            BY <2>2 DEF TypeOK
        <3> HIDE DEF Bundle
        <3> QED
            BY <1>a, <1>b, <3>1
    <2>4. bundles' \in [Keys -> Bundle] /\ todo' \in [Publishers -> SUBSET Handlers]
        BY <1>a, <1>b, <2>2 DEF TypeOK
    <2>5. \A q \in Publishers : lock' = q <=> pc'[q] \in {"fanout", "drain", "send"}
        BY <1>b, <2>1, <2>2 DEF TypeOK
    <2> QED
        BY <1>b, <2>1, <2>2, <2>3, <2>4, <2>5 DEF TypeOK
<1>2. RegistryInv'
    BY DEF TypeOK, RegistryInv
<1>3. FanOutInv'
    <2> HIDE DEF b
    <2>1. arg'[p].bundle = b /\ arg'[p].key = kk /\ bundles'[kk] = b
        BY <1>a, <1>b, SMTT(30) DEF TypeOK
    <2>2. \A q \in Publishers \ {p} : arg'[q] = arg[q] /\ todo'[q] = {} /\ lock' # q
        BY <1>b, <1>c DEF TypeOK
    <2>3. \A q \in Publishers \ {p} : pc'[q] \notin {"drain", "send"}
        BY DEF TypeOK
    <2> QED
        BY <1>a, <1>b, <2>1, <2>2, <2>3, SMTT(30) DEF TypeOK, FanOutInv
<1>4. AbsenceInv'
    BY SMTT(30) DEF TypeOK, FanOutInv, RegistryInv, AbsenceInv
<1>5. SnapshotInv'
    <2> SUFFICES ASSUME NEW h \in Handlers, pc'[h] \in {"initial"}, ~Pending(h)'
                 PROVE  (IF Present(ch'[h]) THEN ch'[h] ELSE hand'[h]) = bundles'[key'[h]]
        BY DEF SnapshotInv
    <2>1. Registered(h) /\ h \notin subscribers[kk]
        BY <1>b, SMTT(30) DEF TypeOK
    <2>2. key[h] # kk /\ bundles'[key[h]] = bundles[key[h]]
        BY <1>a, <1>b, <2>1, SMTT(30) DEF TypeOK, RegistryInv
    <2>3. ~Pending(h)
        BY <1>c
    <2> QED
        BY <2>2, <2>3 DEF TypeOK, SnapshotInv
<1>6. NoLostUpdate'
    <2> SUFFICES ASSUME NEW h \in Handlers, pc'[h] \in {"select", "sending"}, ~Pending(h)'
                 PROVE  Newest(h)' = bundles'[key'[h]]
        BY DEF NoLostUpdate
    <2>1. Registered(h) /\ h \notin subscribers[kk]
        BY <1>b, SMTT(30) DEF TypeOK
    <2>2. key[h] # kk /\ bundles'[key[h]] = bundles[key[h]]
        BY <1>a, <1>b, <2>1, SMTT(30) DEF TypeOK, RegistryInv
    <2>3. ~Pending(h)
        BY <1>c
    <2> QED
        BY <2>2, <2>3 DEF TypeOK, NoLostUpdate, Newest
<1>7. OrderInv'
    BY SMTT(30) DEF TypeOK, FanOutInv, RegistryInv, AbsenceInv, OrderInv
<1> QED
    BY <1>1, <1>2, <1>3, <1>4, <1>5, <1>6, <1>7

(* Queueing the new bundle in an empty channel serves the subscriber. *)
LEMMA SendNowPreserves ==
    ASSUME NEW p \in Publishers, NEW h \in Handlers, StoreInv, SendNow(p, h)
    PROVE  StoreInv'
<1> USE DEF StoreInv, SendNow, Goto, publisherVars, handlerVars,
           Present, Bundle, NoBundle, NoCall, Registered, Pending
<1>1. TypeOK'
    BY SMTT(30) DEF TypeOK, FanOutInv, AnyKey
<1>2. RegistryInv'
    BY DEF TypeOK, RegistryInv
<1>3. FanOutInv'
    BY SMTT(30) DEF TypeOK, RegistryInv, FanOutInv
<1>4. AbsenceInv'
    BY SMTT(30) DEF TypeOK, FanOutInv, RegistryInv, AbsenceInv
<1>5. SnapshotInv'
    BY SMTT(30) DEF TypeOK, FanOutInv, RegistryInv, AbsenceInv, SnapshotInv
<1>6. NoLostUpdate'
    BY SMTT(20) DEF TypeOK, FanOutInv, RegistryInv, AbsenceInv, SnapshotInv, NoLostUpdate, Newest
<1>7. OrderInv'
    BY SMTT(30) DEF TypeOK, FanOutInv, RegistryInv, AbsenceInv, OrderInv
<1> QED
    BY <1>1, <1>2, <1>3, <1>4, <1>5, <1>6, <1>7

(* The full channel of a pending subscriber is left as it is. *)
LEMMA SendFullPreserves ==
    ASSUME NEW p \in Publishers, NEW h \in Handlers, StoreInv, SendFull(p, h)
    PROVE  StoreInv'
<1> USE DEF StoreInv, SendFull, Goto, publisherVars, handlerVars,
           Present, Bundle, NoBundle, NoCall, Registered, Pending
<1>1. TypeOK'
    BY DEF TypeOK, FanOutInv, AnyKey
<1>2. RegistryInv'
    BY DEF TypeOK, RegistryInv
<1>3. FanOutInv'
    BY SMTT(30) DEF TypeOK, RegistryInv, FanOutInv
<1>4. AbsenceInv'
    BY DEF TypeOK, FanOutInv, RegistryInv, AbsenceInv
<1>5. SnapshotInv'
    BY DEF TypeOK, FanOutInv, RegistryInv, AbsenceInv, SnapshotInv
<1>6. NoLostUpdate'
    BY SMTT(30) DEF TypeOK, FanOutInv, RegistryInv, AbsenceInv, SnapshotInv, NoLostUpdate, Newest
<1>7. OrderInv'
    BY DEF TypeOK, FanOutInv, RegistryInv, AbsenceInv, OrderInv
<1> QED
    BY <1>1, <1>2, <1>3, <1>4, <1>5, <1>6, <1>7

(* Only the channel of a subscriber that is still pending is drained. *)
LEMMA DrainPreserves ==
    ASSUME NEW p \in Publishers, StoreInv, Drain(p)
    PROVE  StoreInv'
<1> USE DEF StoreInv, Drain, Goto, publisherVars, handlerVars,
           Present, Bundle, NoBundle, NoCall, Registered, Pending
<1>1. TypeOK'
    BY DEF TypeOK, FanOutInv, AnyKey
<1>2. RegistryInv'
    BY DEF TypeOK, RegistryInv
<1>3. FanOutInv'
    BY DEF TypeOK, RegistryInv, FanOutInv
<1>4. AbsenceInv'
    BY SMTT(30) DEF TypeOK, FanOutInv, RegistryInv, AbsenceInv
<1>5. SnapshotInv'
    <2> SUFFICES ASSUME NEW g \in Handlers, pc'[g] \in {"initial"}, ~Pending(g)'
                 PROVE  (IF Present(ch'[g]) THEN ch'[g] ELSE hand'[g]) = bundles'[key'[g]]
        BY DEF SnapshotInv
    <2>1. g # cur[p] /\ ~Pending(g)
        BY SMTT(30) DEF TypeOK, FanOutInv
    <2>2. ch'[g] = ch[g]
        BY <2>1 DEF TypeOK
    <2> QED
        BY <2>1, <2>2 DEF TypeOK, SnapshotInv
<1>6. NoLostUpdate'
    <2> SUFFICES ASSUME NEW g \in Handlers, pc'[g] \in {"select", "sending"}, ~Pending(g)'
                 PROVE  Newest(g)' = bundles'[key'[g]]
        BY DEF NoLostUpdate
    <2>1. g # cur[p] /\ ~Pending(g)
        BY SMTT(30) DEF TypeOK, FanOutInv
    <2>2. ch'[g] = ch[g]
        BY <2>1 DEF TypeOK
    <2> QED
        BY <2>1, <2>2 DEF TypeOK, NoLostUpdate, Newest
<1>7. OrderInv'
    BY SMTT(30) DEF TypeOK, FanOutInv, RegistryInv, AbsenceInv, OrderInv
<1> QED
    BY <1>1, <1>2, <1>3, <1>4, <1>5, <1>6, <1>7

(* The blocking send of sendLatest serves the drained subscriber. *)
LEMMA SendBlockingPreserves ==
    ASSUME NEW p \in Publishers, StoreInv, SendBlocking(p)
    PROVE  StoreInv'
<1> USE DEF StoreInv, SendBlocking, Goto, publisherVars, handlerVars,
           Present, Bundle, NoBundle, NoCall, Registered, Pending
<1>1. TypeOK'
    BY SMTT(30) DEF TypeOK, FanOutInv, AnyKey
<1>2. RegistryInv'
    BY DEF TypeOK, RegistryInv
<1>3. FanOutInv'
    BY SMTT(30) DEF TypeOK, RegistryInv, FanOutInv
<1>4. AbsenceInv'
    BY SMTT(30) DEF TypeOK, FanOutInv, RegistryInv, AbsenceInv
<1>5. SnapshotInv'
    <2> SUFFICES ASSUME NEW g \in Handlers, pc'[g] \in {"initial"}, ~Pending(g)'
                 PROVE  (IF Present(ch'[g]) THEN ch'[g] ELSE hand'[g]) = bundles'[key'[g]]
        BY DEF SnapshotInv
    <2>1. cur[p] \in Handlers /\ key[cur[p]] = arg[p].key
        BY SMTT(30) DEF TypeOK, FanOutInv, RegistryInv
    <2>2. CASE g = cur[p]
        BY <2>1, <2>2, SMTT(30) DEF TypeOK, FanOutInv, Newest
    <2>3. CASE g # cur[p]
        <3>1. ~Pending(g) /\ ch'[g] = ch[g]
            BY <2>3 DEF TypeOK
        <3> QED
            BY <3>1 DEF TypeOK, SnapshotInv
    <2> QED
        BY <2>2, <2>3
<1>6. NoLostUpdate'
    <2> SUFFICES ASSUME NEW g \in Handlers, pc'[g] \in {"select", "sending"}, ~Pending(g)'
                 PROVE  Newest(g)' = bundles'[key'[g]]
        BY DEF NoLostUpdate
    <2>1. cur[p] \in Handlers /\ key[cur[p]] = arg[p].key
        BY SMTT(30) DEF TypeOK, FanOutInv, RegistryInv
    <2>2. CASE g = cur[p]
        BY <2>1, <2>2, SMTT(30) DEF TypeOK, FanOutInv, Newest
    <2>3. CASE g # cur[p]
        <3>1. ~Pending(g) /\ ch'[g] = ch[g]
            BY <2>3 DEF TypeOK
        <3> QED
            BY <3>1 DEF TypeOK, NoLostUpdate, Newest
    <2> QED
        BY <2>2, <2>3
<1>7. OrderInv'
    BY SMTT(30) DEF TypeOK, FanOutInv, RegistryInv, AbsenceInv, OrderInv
<1> QED
    BY <1>1, <1>2, <1>3, <1>4, <1>5, <1>6, <1>7

(* The lock is released when no subscriber is pending. *)
LEMMA PublishReturnPreserves ==
    ASSUME NEW p \in Publishers, StoreInv, PublishReturn(p)
    PROVE  StoreInv'
<1> USE DEF StoreInv, PublishReturn, Goto, publisherVars, handlerVars,
           Present, Bundle, NoBundle, NoCall, Registered, Pending
<1>1. TypeOK'
    BY SMTT(30) DEF TypeOK, FanOutInv, AnyKey
<1>2. RegistryInv'
    BY DEF TypeOK, RegistryInv
<1>3. FanOutInv'
    BY SMTT(30) DEF TypeOK, RegistryInv, FanOutInv
<1>4. AbsenceInv'
    BY DEF TypeOK, FanOutInv, RegistryInv, AbsenceInv
<1>5. SnapshotInv'
    BY DEF TypeOK, FanOutInv, RegistryInv, AbsenceInv, SnapshotInv
<1>6. NoLostUpdate'
    BY SMTT(30) DEF TypeOK, FanOutInv, RegistryInv, AbsenceInv, SnapshotInv, NoLostUpdate, Newest
<1>7. OrderInv'
    BY DEF TypeOK, FanOutInv, RegistryInv, AbsenceInv, OrderInv
<1> QED
    BY <1>1, <1>2, <1>3, <1>4, <1>5, <1>6, <1>7

(* A handler that has not registered holds nothing. *)
LEMMA OpenStreamPreserves ==
    ASSUME NEW h \in Handlers, NEW k \in Keys, StoreInv, OpenStream(h, k)
    PROVE  StoreInv'
<1> USE DEF StoreInv, OpenStream, Goto, publisherVars, handlerVars,
           Present, Bundle, NoBundle, NoCall, Registered, Pending
<1>1. TypeOK'
    BY DEF TypeOK, FanOutInv, AnyKey
<1>2. RegistryInv'
    BY SMTT(30) DEF TypeOK, RegistryInv
<1>3. FanOutInv'
    BY DEF TypeOK, RegistryInv, FanOutInv
<1>4. AbsenceInv'
    BY DEF TypeOK, FanOutInv, RegistryInv, AbsenceInv
<1>5. SnapshotInv'
    BY SMTT(30) DEF TypeOK, FanOutInv, RegistryInv, AbsenceInv, SnapshotInv
<1>6. NoLostUpdate'
    BY SMTT(30) DEF TypeOK, FanOutInv, RegistryInv, AbsenceInv, SnapshotInv, NoLostUpdate, Newest
<1>7. OrderInv'
    BY SMTT(30) DEF TypeOK, FanOutInv, RegistryInv, AbsenceInv, OrderInv
<1> QED
    BY <1>1, <1>2, <1>3, <1>4, <1>5, <1>6, <1>7

(* The snapshot is taken under the lock, so it is the current bundle. *)
LEMMA RegisterPreserves ==
    ASSUME NEW h \in Handlers, StoreInv, Register(h)
    PROVE  StoreInv'
<1> USE DEF StoreInv, Register, Goto, publisherVars, handlerVars,
           Present, Bundle, NoBundle, NoCall, Registered, Pending
<1>1. TypeOK'
    BY SMTT(30) DEF TypeOK, FanOutInv, AnyKey
<1>2. RegistryInv'
    BY SMTT(30) DEF TypeOK, RegistryInv
<1>3. FanOutInv'
    BY SMTT(30) DEF TypeOK, RegistryInv, FanOutInv
<1>4. AbsenceInv'
    BY SMTT(30) DEF TypeOK, FanOutInv, RegistryInv, AbsenceInv
<1>5. SnapshotInv'
    <2> SUFFICES ASSUME NEW g \in Handlers, pc'[g] \in {"initial"}, ~Pending(g)'
                 PROVE  (IF Present(ch'[g]) THEN ch'[g] ELSE hand'[g]) = bundles'[key'[g]]
        BY DEF SnapshotInv
    <2>1. ~Pending(g) /\ pc[g] # "unsub"
        BY DEF TypeOK
    <2>2. CASE g = h
        <3>1. ch[h] = NoBundle /\ sent[h] = NoBundle
            BY DEF TypeOK, AbsenceInv
        <3>2. ch'[h] = NoBundle /\ sent'[h] = NoBundle /\ key'[h] = key[h]
            BY <3>1
        <3>3. bundles' = bundles /\ hand'[h] = bundles[key[h]]
            BY DEF TypeOK
        <3>4. pc'[h] = IF Present(bundles[key[h]]) THEN "initial" ELSE "select"
            BY DEF TypeOK
        <3>5. key[h] \in Keys /\ (~Present(bundles[key[h]]) => bundles[key[h]] = NoBundle)
            BY DEF TypeOK, AbsenceInv
        <3> QED
            BY <2>2, <3>2, <3>3, <3>4, <3>5, SMTT(30) DEF Newest
    <2>3. CASE g # h
        BY <2>1, <2>3 DEF TypeOK, SnapshotInv
    <2> QED
        BY <2>2, <2>3
<1>6. NoLostUpdate'
    <2> SUFFICES ASSUME NEW g \in Handlers, pc'[g] \in {"select", "sending"}, ~Pending(g)'
                 PROVE  Newest(g)' = bundles'[key'[g]]
        BY DEF NoLostUpdate
    <2>1. ~Pending(g) /\ pc[g] # "unsub"
        BY DEF TypeOK
    <2>2. CASE g = h
        <3>1. ch[h] = NoBundle /\ sent[h] = NoBundle
            BY DEF TypeOK, AbsenceInv
        <3>2. ch'[h] = NoBundle /\ sent'[h] = NoBundle /\ key'[h] = key[h]
            BY <3>1
        <3>3. bundles' = bundles /\ hand'[h] = bundles[key[h]]
            BY DEF TypeOK
        <3>4. pc'[h] = IF Present(bundles[key[h]]) THEN "initial" ELSE "select"
            BY DEF TypeOK
        <3>5. key[h] \in Keys /\ (~Present(bundles[key[h]]) => bundles[key[h]] = NoBundle)
            BY DEF TypeOK, AbsenceInv
        <3> QED
            BY <2>2, <3>2, <3>3, <3>4, <3>5, SMTT(30) DEF Newest
    <2>3. CASE g # h
        BY <2>1, <2>3 DEF TypeOK, NoLostUpdate, Newest
    <2> QED
        BY <2>2, <2>3
<1>7. OrderInv'
    BY SMTT(30) DEF TypeOK, FanOutInv, RegistryInv, AbsenceInv, OrderInv
<1> QED
    BY <1>1, <1>2, <1>3, <1>4, <1>5, <1>6, <1>7

(* The initial send finds the channel empty only if no newer bundle is *)
(* queued: what it queues is current, or the subscriber is pending. *)
LEMMA SendInitialPreserves ==
    ASSUME NEW h \in Handlers, StoreInv, SendInitial(h)
    PROVE  StoreInv'
<1> USE DEF StoreInv, SendInitial, Goto, publisherVars, handlerVars,
           Present, Bundle, NoBundle, NoCall, Registered, Pending
<1>1. TypeOK'
    BY DEF TypeOK, FanOutInv, AnyKey
<1>2. RegistryInv'
    BY DEF TypeOK, RegistryInv
<1>3. FanOutInv'
    BY DEF TypeOK, RegistryInv, FanOutInv
<1>4. AbsenceInv'
    BY SMTT(30) DEF TypeOK, FanOutInv, RegistryInv, AbsenceInv
<1>5. SnapshotInv'
    BY SMTT(30) DEF TypeOK, FanOutInv, RegistryInv, AbsenceInv, SnapshotInv
<1>6. NoLostUpdate'
    <2> SUFFICES ASSUME NEW g \in Handlers, pc'[g] \in {"select", "sending"}, ~Pending(g)'
                 PROVE  Newest(g)' = bundles'[key'[g]]
        BY DEF NoLostUpdate
    <2>1. ~Pending(g) /\ pc[g] # "unsub"
        BY DEF TypeOK
    <2>2. CASE g = h
        <3>1. hand[h] = bundles[key[h]]
            BY <2>1, <2>2 DEF TypeOK, SnapshotInv
        <3>2. ch'[h] = hand[h] /\ Present(hand[h])
            BY SMTT(30) DEF TypeOK, OrderInv
        <3> QED
            BY <2>2, <3>1, <3>2 DEF Newest
    <2>3. CASE g # h
        BY <2>1, <2>3 DEF TypeOK, NoLostUpdate, Newest
    <2> QED
        BY <2>2, <2>3
<1>7. OrderInv'
    BY SMTT(30) DEF TypeOK, FanOutInv, RegistryInv, AbsenceInv, OrderInv
<1> QED
    BY <1>1, <1>2, <1>3, <1>4, <1>5, <1>6, <1>7

(* A receive moves the newest bundle from the channel to the handler. *)
LEMMA ReceivePreserves ==
    ASSUME NEW h \in Handlers, StoreInv, Receive(h)
    PROVE  StoreInv'
<1> USE DEF StoreInv, Receive, Goto, publisherVars, handlerVars,
           Present, Bundle, NoBundle, NoCall, Registered, Pending
<1>1. TypeOK'
    BY SMTT(30) DEF TypeOK, FanOutInv, AnyKey
<1>2. RegistryInv'
    BY DEF TypeOK, RegistryInv
<1>3. FanOutInv'
    BY DEF TypeOK, RegistryInv, FanOutInv
<1>4. AbsenceInv'
    BY SMTT(30) DEF TypeOK, FanOutInv, RegistryInv, AbsenceInv
<1>5. SnapshotInv'
    BY SMTT(30) DEF TypeOK, FanOutInv, RegistryInv, AbsenceInv, SnapshotInv
<1>6. NoLostUpdate'
    <2> SUFFICES ASSUME NEW g \in Handlers, pc'[g] \in {"select", "sending"}, ~Pending(g)'
                 PROVE  Newest(g)' = bundles'[key'[g]]
        BY DEF NoLostUpdate
    <2>1. ~Pending(g) /\ pc[g] # "unsub"
        BY DEF TypeOK
    <2>2. CASE g = h
        <3>1. ch[h] = bundles[key[h]]
            BY <2>1, <2>2 DEF TypeOK, NoLostUpdate, Newest
        <3>2. hand'[h] = ch[h] /\ ~Present(ch'[h]) /\ pc'[h] = "sending"
            BY SMTT(30) DEF TypeOK
        <3> QED
            BY <2>2, <3>1, <3>2 DEF Newest
    <2>3. CASE g # h
        BY <2>1, <2>3 DEF TypeOK, NoLostUpdate, Newest
    <2> QED
        BY <2>2, <2>3
<1>7. OrderInv'
    BY SMTT(30) DEF TypeOK, FanOutInv, RegistryInv, AbsenceInv, OrderInv
<1> QED
    BY <1>1, <1>2, <1>3, <1>4, <1>5, <1>6, <1>7

(* stream.Send moves the newest bundle from the handler to the engine. *)
LEMMA StreamSendPreserves ==
    ASSUME NEW h \in Handlers, StoreInv, StreamSend(h)
    PROVE  StoreInv'
<1> USE DEF StoreInv, StreamSend, Goto, publisherVars, handlerVars,
           Present, Bundle, NoBundle, NoCall, Registered, Pending
<1>1. TypeOK'
    BY DEF TypeOK, FanOutInv, AnyKey
<1>2. RegistryInv'
    BY DEF TypeOK, RegistryInv
<1>3. FanOutInv'
    BY DEF TypeOK, RegistryInv, FanOutInv
<1>4. AbsenceInv'
    BY SMTT(30) DEF TypeOK, FanOutInv, RegistryInv, AbsenceInv
<1>5. SnapshotInv'
    BY SMTT(30) DEF TypeOK, FanOutInv, RegistryInv, AbsenceInv, SnapshotInv
<1>6. NoLostUpdate'
    <2> SUFFICES ASSUME NEW g \in Handlers, pc'[g] \in {"select", "sending"}, ~Pending(g)'
                 PROVE  Newest(g)' = bundles'[key'[g]]
        BY DEF NoLostUpdate
    <2>1. ~Pending(g) /\ pc[g] # "unsub"
        BY DEF TypeOK
    <2>2. CASE g = h
        BY <2>1, <2>2 DEF TypeOK, AbsenceInv, NoLostUpdate, SnapshotInv, Newest
    <2>3. CASE g # h
        BY <2>1, <2>3 DEF TypeOK, NoLostUpdate, Newest
    <2> QED
        BY <2>2, <2>3
<1>7. OrderInv'
    BY SMTT(30) DEF TypeOK, FanOutInv, RegistryInv, AbsenceInv, OrderInv
<1> QED
    BY <1>1, <1>2, <1>3, <1>4, <1>5, <1>6, <1>7

(* A failed stream.Send ends the stream: nothing is promised to it any more. *)
LEMMA StreamErrorPreserves ==
    ASSUME NEW h \in Handlers, StoreInv, StreamError(h)
    PROVE  StoreInv'
<1> USE DEF StoreInv, StreamError, Goto, publisherVars, handlerVars,
           Present, Bundle, NoBundle, NoCall, Registered, Pending
<1>1. TypeOK'
    BY DEF TypeOK, FanOutInv, AnyKey
<1>2. RegistryInv'
    BY DEF TypeOK, RegistryInv
<1>3. FanOutInv'
    BY DEF TypeOK, RegistryInv, FanOutInv
<1>4. AbsenceInv'
    BY SMTT(30) DEF TypeOK, FanOutInv, RegistryInv, AbsenceInv
<1>5. SnapshotInv'
    BY SMTT(30) DEF TypeOK, FanOutInv, RegistryInv, AbsenceInv, SnapshotInv
<1>6. NoLostUpdate'
    BY SMTT(30) DEF TypeOK, FanOutInv, RegistryInv, AbsenceInv, SnapshotInv, NoLostUpdate, Newest
<1>7. OrderInv'
    BY SMTT(30) DEF TypeOK, FanOutInv, RegistryInv, AbsenceInv, OrderInv
<1> QED
    BY <1>1, <1>2, <1>3, <1>4, <1>5, <1>6, <1>7

(* The end of the context is seen by the handler only in its select. *)
LEMMA ContextDonePreserves ==
    ASSUME NEW h \in Handlers, StoreInv, ContextDone(h)
    PROVE  StoreInv'
<1> USE DEF StoreInv, ContextDone, Goto, publisherVars, handlerVars,
           Present, Bundle, NoBundle, NoCall, Registered, Pending
<1>1. TypeOK'
    BY DEF TypeOK, FanOutInv, AnyKey
<1>2. RegistryInv'
    BY DEF TypeOK, RegistryInv
<1>3. FanOutInv'
    BY DEF TypeOK, RegistryInv, FanOutInv
<1>4. AbsenceInv'
    BY DEF TypeOK, FanOutInv, RegistryInv, AbsenceInv
<1>5. SnapshotInv'
    BY DEF TypeOK, FanOutInv, RegistryInv, AbsenceInv, SnapshotInv
<1>6. NoLostUpdate'
    BY DEF TypeOK, FanOutInv, RegistryInv, AbsenceInv, SnapshotInv, NoLostUpdate, Newest
<1>7. OrderInv'
    BY DEF TypeOK, FanOutInv, RegistryInv, AbsenceInv, OrderInv
<1> QED
    BY <1>1, <1>2, <1>3, <1>4, <1>5, <1>6, <1>7

(* A handler that leaves its loop stays registered until unsub has the lock. *)
LEMMA DisconnectPreserves ==
    ASSUME NEW h \in Handlers, StoreInv, Disconnect(h)
    PROVE  StoreInv'
<1> USE DEF StoreInv, Disconnect, Goto, publisherVars, handlerVars,
           Present, Bundle, NoBundle, NoCall, Registered, Pending
<1>1. TypeOK'
    BY DEF TypeOK, FanOutInv, AnyKey
<1>2. RegistryInv'
    BY DEF TypeOK, RegistryInv
<1>3. FanOutInv'
    BY DEF TypeOK, RegistryInv, FanOutInv
<1>4. AbsenceInv'
    BY DEF TypeOK, FanOutInv, RegistryInv, AbsenceInv
<1>5. SnapshotInv'
    BY DEF TypeOK, FanOutInv, RegistryInv, AbsenceInv, SnapshotInv
<1>6. NoLostUpdate'
    BY SMTT(30) DEF TypeOK, FanOutInv, RegistryInv, AbsenceInv, SnapshotInv, NoLostUpdate, Newest
<1>7. OrderInv'
    BY SMTT(30) DEF TypeOK, FanOutInv, RegistryInv, AbsenceInv, OrderInv
<1> QED
    BY <1>1, <1>2, <1>3, <1>4, <1>5, <1>6, <1>7

(* unsub runs while nobody fans out, so no publisher works on the subscription. *)
LEMMA UnsubscribePreserves ==
    ASSUME NEW h \in Handlers, StoreInv, Unsubscribe(h)
    PROVE  StoreInv'
<1> USE DEF StoreInv, Unsubscribe, Goto, publisherVars, handlerVars,
           Present, Bundle, NoBundle, NoCall, Registered, Pending
<1>1. TypeOK'
    BY SMTT(30) DEF TypeOK, FanOutInv, AnyKey
<1>2. RegistryInv'
    BY SMTT(30) DEF TypeOK, RegistryInv
<1>3. FanOutInv'
    BY SMTT(30) DEF TypeOK, RegistryInv, FanOutInv
<1>4. AbsenceInv'
    BY SMTT(30) DEF TypeOK, FanOutInv, RegistryInv, AbsenceInv
<1>5. SnapshotInv'
    <2> SUFFICES ASSUME NEW g \in Handlers, pc'[g] \in {"initial"}, ~Pending(g)'
                 PROVE  (IF Present(ch'[g]) THEN ch'[g] ELSE hand'[g]) = bundles'[key'[g]]
        BY DEF SnapshotInv
    <2>1. ~Pending(g) /\ pc[g] # "unsub"
        BY DEF TypeOK
    <2>2. CASE g = h
        BY <2>1, <2>2 DEF TypeOK, AbsenceInv, NoLostUpdate, SnapshotInv, Newest
    <2>3. CASE g # h
        BY <2>1, <2>3 DEF TypeOK, SnapshotInv
    <2> QED
        BY <2>2, <2>3
<1>6. NoLostUpdate'
    <2> SUFFICES ASSUME NEW g \in Handlers, pc'[g] \in {"select", "sending"}, ~Pending(g)'
                 PROVE  Newest(g)' = bundles'[key'[g]]
        BY DEF NoLostUpdate
    <2>1. ~Pending(g) /\ pc[g] # "unsub"
        BY DEF TypeOK
    <2>2. CASE g = h
        BY <2>1, <2>2 DEF TypeOK, AbsenceInv, NoLostUpdate, SnapshotInv, Newest
    <2>3. CASE g # h
        BY <2>1, <2>3 DEF TypeOK, NoLostUpdate, Newest
    <2> QED
        BY <2>2, <2>3
<1>7. OrderInv'
    BY SMTT(30) DEF TypeOK, FanOutInv, RegistryInv, AbsenceInv, OrderInv
<1> QED
    BY <1>1, <1>2, <1>3, <1>4, <1>5, <1>6, <1>7

(* The store starts empty, with nobody subscribed. *)
LEMMA InitStoreInv == Init => StoreInv
<1> SUFFICES ASSUME Init PROVE StoreInv
    OBVIOUS
<1>1. AnyKey \in Keys
    BY DEF AnyKey
<1> USE <1>1 DEF Init, NoCall, NoBundle, Bundle, Present, Registered, Pending
<1>2. TypeOK
    BY DEF TypeOK
<1>3. RegistryInv /\ FanOutInv
    BY DEF RegistryInv, FanOutInv
<1>4. AbsenceInv /\ SnapshotInv /\ OrderInv
    BY DEF AbsenceInv, SnapshotInv, OrderInv
<1>5. NoLostUpdate
    BY DEF NoLostUpdate
<1> QED
    BY <1>2, <1>3, <1>4, <1>5 DEF StoreInv

(* Every step of a publisher or a handler preserves StoreInv. *)
LEMMA NextStoreInv == StoreInv /\ [Next]_vars => StoreInv'
<1> SUFFICES ASSUME StoreInv, [Next]_vars PROVE StoreInv'
    OBVIOUS
<1>1. ASSUME NEW p \in Publishers, NEW k \in Keys, NEW s \in Shas,
             NEW always \in BOOLEAN, CallPublish(p, k, s, always)
      PROVE  StoreInv'
    BY <1>1, CallPublishPreserves
<1>2. ASSUME NEW p \in Publishers, PublisherStep(p) PROVE StoreInv'
    BY <1>2, PublishUnchangedPreserves, PublishStorePreserves, SendNowPreserves,
       SendFullPreserves, DrainPreserves, SendBlockingPreserves,
       PublishReturnPreserves DEF PublisherStep
<1>3. ASSUME NEW h \in Handlers, NEW k \in Keys, OpenStream(h, k) PROVE StoreInv'
    BY <1>3, OpenStreamPreserves
<1>4. ASSUME NEW h \in Handlers, HandlerStep(h) PROVE StoreInv'
    BY <1>4, RegisterPreserves, SendInitialPreserves, ReceivePreserves,
       StreamSendPreserves, DisconnectPreserves, UnsubscribePreserves DEF HandlerStep
<1>5. ASSUME NEW h \in Handlers, StreamError(h) \/ ContextDone(h) PROVE StoreInv'
    BY <1>5, StreamErrorPreserves, ContextDonePreserves
<1>6. CASE UNCHANGED vars
    <2>1. TypeOK' /\ RegistryInv' /\ FanOutInv'
        BY <1>6 DEF vars, StoreInv, TypeOK, RegistryInv, FanOutInv, Registered
    <2>2. AbsenceInv' /\ SnapshotInv'
        BY <1>6 DEF vars, StoreInv, AbsenceInv, SnapshotInv, Registered, Pending, Newest
    <2>3. NoLostUpdate' /\ OrderInv'
        BY <1>6 DEF vars, StoreInv, NoLostUpdate, OrderInv, Registered, Pending, Newest
    <2> QED
        BY <2>1, <2>2, <2>3 DEF StoreInv
<1> QED
    BY <1>1, <1>2, <1>3, <1>4, <1>5, <1>6 DEF Next

(* StoreInv holds in every state of the store. *)
THEOREM StoreInvariant == Spec => []StoreInv
<1> QED
    BY InitStoreInv, NextStoreInv, PTL DEF Spec

(* Type correctness, and that s.mu is held by the one publisher in Publish. *)
THEOREM StoreTypeOK == Spec => []TypeOK
<1>1. StoreInv => TypeOK
    BY DEF StoreInv
<1> QED
    BY <1>1, StoreInvariant, PTL

(* A consumer whose Subscribe has returned has, or will be handed, the most     *)
(* recent bundle as soon as the fan-out has passed it (Publish, sendLatest).     *)
THEOREM StoreNoLostUpdate == Spec => []NoLostUpdate
<1>1. StoreInv => NoLostUpdate
    BY DEF StoreInv
<1> QED
    BY <1>1, StoreInvariant, PTL

(* What stream.Send is given within one stream is strictly newer each time. *)
THEOREM StoreNeverBackwards == Spec => NeverBackwards
<1> DEFINE Forward ==
        \A h \in Handlers :
            pc[h] = "sending" /\ pc'[h] = "select" => sent'[h].seq > sent[h].seq
<1>1. StoreInv /\ [Next]_vars => [Forward]_vars
    <2> SUFFICES ASSUME StoreInv, Next, NEW h \in Handlers,
                        pc[h] = "sending", pc'[h] = "select"
                 PROVE  sent'[h].seq > sent[h].seq
        BY DEF vars
    <2>1. StreamSend(h)
        BY DEF Next, PublisherStep, HandlerStep, CallPublish, PublishUnchanged,
           PublishStore, SendNow, SendFull, Drain, SendBlocking, PublishReturn,
           OpenStream, Register, SendInitial, Receive, StreamSend, StreamError,
           ContextDone, Disconnect, Unsubscribe, Goto, StoreInv, TypeOK
    <2>2. sent'[h] = hand[h] /\ sent[h].seq < hand[h].seq
        BY <2>1 DEF StreamSend, StoreInv, TypeOK, OrderInv, Registered
    <2>3. sent[h].seq \in Nat /\ hand[h].seq \in Nat
        BY DEF StoreInv, TypeOK, Bundle
    <2> QED
        BY <2>2, <2>3
<1> QED
    BY <1>1, StoreInvariant, PTL DEF Spec, NeverBackwards

(* A step of the store is a step of the register, or leaves it as it is: the   *)
(* map update publishes, a stream's Send delivers, and the channel operations  *)
(* in between do not show.                                                     *)
LEMMA StepImplementsLatest ==
    StoreInv /\ [Next]_vars => [Latest!Next]_(Latest!latestVars)
<1> SUFFICES ASSUME StoreInv, [Next]_vars
             PROVE  Latest!Next \/ UNCHANGED Latest!latestVars
    OBVIOUS
<1> DEFINE Inside == {h \in Handlers : pc[h] # "idle"}
<1>1. ASSUME UNCHANGED <<bundles, key, sent>>, Inside' = Inside
      PROVE  UNCHANGED Latest!latestVars
    BY <1>1 DEF Latest!latestVars
<1>2. ASSUME NEW p \in Publishers, PublishStore(p)
      PROVE  Latest!Next
    <2> DEFINE k == arg[p].key
               s == arg[p].bundle.sha
    <2>1. k \in Keys /\ s \in Shas \cup {None}
        <3>1. arg[p] \in [key : Keys, bundle : Bundle, always : BOOLEAN]
            BY DEF StoreInv, TypeOK
        <3> QED
            BY <3>1 DEF Bundle
    <2>2. bundles' = [bundles EXCEPT ![k] = [sha |-> s, seq |-> bundles[k].seq + 1]]
        BY <1>2 DEF PublishStore
    <2>3. UNCHANGED <<key, sent>> /\ Inside' = Inside
        BY <1>2 DEF PublishStore, Goto, handlerVars, StoreInv, TypeOK
    <2>4. Latest!Publish(k, s)
        BY <2>2, <2>3 DEF Latest!Publish
    <2> QED
        BY <2>1, <2>4 DEF Latest!Next
<1>3. ASSUME NEW h \in Handlers, NEW k \in Keys, OpenStream(h, k)
      PROVE  Latest!Next
    <2>1. h \notin Inside /\ Inside' = Inside \cup {h}
        BY <1>3, SMTT(30) DEF OpenStream, Goto, StoreInv, TypeOK
    <2>2. Latest!Open(h, k)
        BY <1>3, <2>1 DEF OpenStream, Latest!Open
    <2> QED
        BY <2>2 DEF Latest!Next
<1>4. ASSUME NEW h \in Handlers, StreamSend(h)
      PROVE  Latest!Next
    <2> DEFINE b == hand[h]
               top == bundles[key[h]]
    <2>1. /\ b \in Bundle /\ top \in Bundle /\ sent[h] \in Bundle
          /\ b = [sha |-> b.sha, seq |-> b.seq]
        BY DEF StoreInv, TypeOK, Bundle
    <2>2. sent[h].seq < b.seq /\ b.seq <= top.seq
        BY <1>4 DEF StreamSend, StoreInv, OrderInv, Registered
    <2>3. ASSUME b.seq = top.seq PROVE b = top
        <3>1. ~Pending(h)
            <4>1. Pending(h) => b.seq < top.seq
                BY <1>4 DEF StreamSend, StoreInv, OrderInv, Registered
            <4>2. b.seq \in Nat /\ top.seq \in Nat
                BY <2>1 DEF Bundle
            <4> HIDE DEF b, top
            <4> QED
                BY <2>3, <4>1, <4>2, SMTT(30)
        <3>2. ~Present(ch[h])
            <4>1. ch[h].seq \in Nat
                BY DEF StoreInv, TypeOK, Bundle
            <4>2. Present(ch[h]) => b.seq < ch[h].seq /\ ch[h].seq <= top.seq
                BY <1>4 DEF StreamSend, StoreInv, OrderInv, Registered
            <4>3. b.seq \in Nat /\ top.seq \in Nat
                BY <2>1 DEF Bundle
            <4> HIDE DEF b, top
            <4> QED
                BY <2>3, <4>1, <4>2, <4>3, SMTT(30)
        <3> QED
            BY <1>4, <3>1, <3>2 DEF StreamSend, StoreInv, NoLostUpdate, Newest
    <2>4. b.sha \in Shas \cup {None} /\ b.seq \in 1..top.seq
        BY <2>1, <2>2, SMTT(30) DEF Bundle
    <2>5. Latest!Deliver(h, b)
        <3>1. h \in Inside /\ Inside' = Inside
            BY <1>4 DEF StreamSend, Goto, StoreInv, TypeOK
        <3> QED
            BY <1>4, <2>2, <2>3, <3>1 DEF StreamSend, Latest!Deliver, Latest!MaySend
    <2>6. Latest!Deliver(h, [sha |-> b.sha, seq |-> b.seq])
        BY <2>1, <2>5
    <2> QED
        BY <2>4, <2>6 DEF Latest!Next
<1>5. ASSUME NEW h \in Handlers, Unsubscribe(h)
      PROVE  Latest!Next
    <2>1. h \in Inside /\ Inside' = Inside \ {h}
        BY <1>5 DEF Unsubscribe, Goto, StoreInv, TypeOK
    <2>2. AnyKey \in Keys
        BY DEF AnyKey
    <2>3. \E k \in Keys : key' = [key EXCEPT ![h] = k]
        BY <1>5, <2>2 DEF Unsubscribe
    <2>4. Latest!Close(h)
        BY <1>5, <2>1, <2>3 DEF Unsubscribe, Latest!Close, Latest!NoBundle, NoBundle
    <2> QED
        BY <2>4 DEF Latest!Next
<1>6. ASSUME NEW p \in Publishers, NEW k \in Keys, NEW s \in Shas,
             NEW always \in BOOLEAN, CallPublish(p, k, s, always)
      PROVE  UNCHANGED Latest!latestVars
    <2>1. UNCHANGED <<bundles, key, sent>> /\ Inside' = Inside
        BY <1>6, SMTT(30) DEF CallPublish, Goto, handlerVars, StoreInv, TypeOK
    <2> QED
        BY <1>1, <2>1
<1>7. ASSUME NEW p \in Publishers,
             \/ PublishUnchanged(p) \/ Drain(p) \/ SendBlocking(p) \/ PublishReturn(p)
             \/ \E h \in Handlers : SendNow(p, h) \/ SendFull(p, h)
      PROVE  UNCHANGED Latest!latestVars
    <2>1. UNCHANGED <<bundles, key, sent>> /\ Inside' = Inside
        BY <1>7, SMTT(30) DEF PublishUnchanged, Drain, SendBlocking, PublishReturn, SendNow,
           SendFull, Goto, handlerVars, publisherVars, StoreInv, TypeOK
    <2> QED
        BY <1>1, <2>1
<1>8. ASSUME NEW h \in Handlers,
             \/ Register(h) \/ SendInitial(h) \/ Receive(h) \/ Disconnect(h)
             \/ StreamError(h) \/ ContextDone(h)
      PROVE  UNCHANGED Latest!latestVars
    <2>1. UNCHANGED <<bundles, key, sent>> /\ Inside' = Inside
        BY <1>8, SMTT(30) DEF Register, SendInitial, Receive, Disconnect, StreamError,
           ContextDone, Goto, handlerVars, publisherVars, StoreInv, TypeOK
    <2> QED
        BY <1>1, <2>1
<1>9. ASSUME UNCHANGED vars PROVE UNCHANGED Latest!latestVars
    BY <1>1, <1>9 DEF vars
<1> QED
    BY <1>2, <1>3, <1>4, <1>5, <1>6, <1>7, <1>8, <1>9
       DEF Next, PublisherStep, HandlerStep

(* The store implements LatestBundle: for any number of engines, publishers    *)
(* and streams, whatever its goroutines interleave, an engine cannot tell the  *)
(* store from a register that is published and read in one step.               *)
THEOREM StoreImplementsLatest == Spec => ImplementsLatest
<1>1. Init => Latest!Init
    <2> SUFFICES ASSUME Init PROVE Latest!Init
        OBVIOUS
    <2>1. AnyKey \in Keys
        BY DEF AnyKey
    <2>2. key \in [Handlers -> Keys]
        BY <2>1 DEF Init
    <2>3. {h \in Handlers : pc[h] # "idle"} = {}
        BY DEF Init
    <2> QED
        BY <2>2, <2>3 DEF Init, Latest!Init, Latest!NoBundle, NoBundle
<1> QED
    BY <1>1, StepImplementsLatest, StoreInvariant, PTL
       DEF Spec, ImplementsLatest, Latest!Spec

=============================================================================
