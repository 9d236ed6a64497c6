------------------------- MODULE ControlPlaneProofs -------------------------
(***************************************************************************)
(* Proofs about ControlPlane, for all RuleSets, Engines, sources and texts *)
(* and any number of edits and faults: every variable keeps its type; what *)
(* the operator holds of an API object, in its cache or in a reconcile     *)
(* under way, is a version the object had; a mount that is needed exists;  *)
(* and the operator never comes to rest with work undone.                  *)
(***************************************************************************)
EXTENDS ControlPlane, TLAPS

(* Most steps are first-order and left to Zenon; those that need arithmetic,    *)
(* records or sequences say so.                                                 *)
USE ZenonT(30)

-----------------------------------------------------------------------------
(* The compiler *)

(* What Compile returns is a bundle, or None when the sources do not compile. *)
LEMMA CompileType ==
    ASSUME NEW from \in [Sources -> SourceObjects], NEW r \in RuleSets
    PROVE  /\ Compile(from, r) \in Bundle \cup {None}
           /\ Compile(from, r) # None <=> Compiles(from, r)
<1>1. Refs[r] \in Seq(Sources) /\ DOMAIN Refs[r] = 1..Len(Refs[r]) /\ Len(Refs[r]) \in Nat
    BY ControlPlaneAssumption, SMTT(30)
<1>2. \A i \in DOMAIN Refs[r] : from[Refs[r][i]].text \in Texts \cup {None}
    BY <1>1, SMTT(30) DEF SourceObjects
<1>3. ASSUME ~Missing(from, r) PROVE Bodies(from, r) \in Bundle
    <2>1. Bodies(from, r) \in [DOMAIN Refs[r] -> Texts]
        BY <1>2, <1>3 DEF Missing, Bodies
    <2> QED
        BY <2>1 DEF Bundle
<1>4. None \notin Bundle
    BY ControlPlaneAssumption
<1> QED
    BY <1>3, <1>4 DEF Compile, Compiles

(* It depends on the texts of the RuleSet's own sources. *)
LEMMA CompileLocal ==
    ASSUME NEW from, NEW other, NEW r \in RuleSets,
           \A i \in DOMAIN Refs[r] : other[Refs[r][i]] = from[Refs[r][i]]
    PROVE  Compile(other, r) = Compile(from, r) /\ (Compiles(other, r) <=> Compiles(from, r))
<1>1. Bodies(other, r) = Bodies(from, r)
    BY DEF Bodies
<1> QED
    BY <1>1 DEF Compile, Compiles, Missing, Conflict

-----------------------------------------------------------------------------
(* What the steps do to the cache *)

(* A watch event brings one entry of the cache up to date. *)
LEMMA SyncIs ==
    ASSUME TypeOK, cache \in Caches
    PROVE  /\ \A s \in Sources : SyncSource(s) =>
                 /\ cache' \in Caches /\ cache'.source = [cache.source EXCEPT ![s] = source[s]]
                 /\ cache'.ruleset = cache.ruleset /\ cache'.engine = cache.engine /\ cache'.configMap = cache.configMap /\ cache'.deploy = cache.deploy
           /\ \A r \in RuleSets : SyncRuleSet(r) =>
                 /\ cache' \in Caches /\ cache'.ruleset = [cache.ruleset EXCEPT ![r] = ruleset[r]]
                 /\ cache'.source = cache.source /\ cache'.engine = cache.engine /\ cache'.configMap = cache.configMap /\ cache'.deploy = cache.deploy
           /\ \A e \in Engines : SyncEngine(e) =>
                 /\ cache' \in Caches /\ cache'.engine = [cache.engine EXCEPT ![e] = engine[e]]
                 /\ cache'.source = cache.source /\ cache'.ruleset = cache.ruleset /\ cache'.configMap = cache.configMap /\ cache'.deploy = cache.deploy
           /\ \A e \in Engines : SyncConfigMap(e) =>
                 /\ cache' \in Caches /\ cache'.configMap = [cache.configMap EXCEPT ![e] = configMap[e]]
                 /\ cache'.source = cache.source /\ cache'.ruleset = cache.ruleset /\ cache'.engine = cache.engine /\ cache'.deploy = cache.deploy
           /\ \A e \in Engines : SyncDeployment(e) =>
                 /\ cache' \in Caches /\ cache'.deploy = [cache.deploy EXCEPT ![e] = deploy[e]]
                 /\ cache'.source = cache.source /\ cache'.ruleset = cache.ruleset /\ cache'.engine = cache.engine /\ cache'.configMap = cache.configMap
<1>1. ASSUME NEW s \in Sources, SyncSource(s)
      PROVE  /\ cache' \in Caches /\ cache'.source = [cache.source EXCEPT ![s] = source[s]]
             /\ cache'.ruleset = cache.ruleset /\ cache'.engine = cache.engine /\ cache'.configMap = cache.configMap /\ cache'.deploy = cache.deploy
    <2>1. cache' = [cache EXCEPT !.source[s] = source[s]] /\ source[s] \in SourceObjects
        BY <1>1 DEF SyncSource, TypeOK
    <2> QED
        BY <2>1 DEF Caches
<1>2. ASSUME NEW r \in RuleSets, SyncRuleSet(r)
      PROVE  /\ cache' \in Caches /\ cache'.ruleset = [cache.ruleset EXCEPT ![r] = ruleset[r]]
             /\ cache'.source = cache.source /\ cache'.engine = cache.engine /\ cache'.configMap = cache.configMap /\ cache'.deploy = cache.deploy
    <2>1. cache' = [cache EXCEPT !.ruleset[r] = ruleset[r]] /\ ruleset[r] \in RuleSetObjects
        BY <1>2 DEF SyncRuleSet, TypeOK
    <2> QED
        BY <2>1 DEF Caches
<1>3. ASSUME NEW e \in Engines, SyncEngine(e)
      PROVE  /\ cache' \in Caches /\ cache'.engine = [cache.engine EXCEPT ![e] = engine[e]]
             /\ cache'.source = cache.source /\ cache'.ruleset = cache.ruleset /\ cache'.configMap = cache.configMap /\ cache'.deploy = cache.deploy
    <2>1. cache' = [cache EXCEPT !.engine[e] = engine[e]] /\ engine[e] \in EngineObjects
        BY <1>3 DEF SyncEngine, TypeOK
    <2> QED
        BY <2>1 DEF Caches
<1>4. ASSUME NEW e \in Engines, SyncConfigMap(e)
      PROVE  /\ cache' \in Caches /\ cache'.configMap = [cache.configMap EXCEPT ![e] = configMap[e]]
             /\ cache'.source = cache.source /\ cache'.ruleset = cache.ruleset /\ cache'.engine = cache.engine /\ cache'.deploy = cache.deploy
    <2>1. cache' = [cache EXCEPT !.configMap[e] = configMap[e]] /\ configMap[e] \in (Bundle \cup {None})
        BY <1>4 DEF SyncConfigMap, TypeOK
    <2> QED
        BY <2>1 DEF Caches
<1>5. ASSUME NEW e \in Engines, SyncDeployment(e)
      PROVE  /\ cache' \in Caches /\ cache'.deploy = [cache.deploy EXCEPT ![e] = deploy[e]]
             /\ cache'.source = cache.source /\ cache'.ruleset = cache.ruleset /\ cache'.engine = cache.engine /\ cache'.configMap = cache.configMap
    <2>1. cache' = [cache EXCEPT !.deploy[e] = deploy[e]] /\ deploy[e] \in (DeployObjects \cup {None})
        BY <1>5 DEF SyncDeployment, TypeOK
    <2> QED
        BY <2>1 DEF Caches
<1> QED
    BY <1>1, <1>2, <1>3, <1>4, <1>5

-----------------------------------------------------------------------------
(* Types *)

(* The types of the invariant are TypeOK's and more. *)
LEMMA TypedIsTypeOK == Typed => TypeOK
<1>1. RsTyped => rs.pc \in {"idle", "status", "publish"}
    BY SMTT(30) DEF RsTyped, RsIdle, RsWork
<1>2. EngTyped => eng.pc \in {"idle", "mark", "configmap", "deployment", "status"}
    BY SMTT(30) DEF EngTyped, EngIdle, EngWork
<1> QED
    BY <1>1, <1>2 DEF Typed, TypeOK, ApiTyped

(* A reconcile that runs is typed. *)
LEMMA WorkIs ==
    ASSUME Typed
    PROVE  /\ rs.pc # "idle" => rs \in RsWork
           /\ eng.pc # "idle" => eng \in EngWork
BY SMTT(30) DEF Typed, RsTyped, EngTyped, RsIdle, EngIdle

(* What users leave alone. *)
LEMMA UserFrame ==
    User => /\ UNCHANGED <<configMap, deploy, cache, rsQueue, engQueue, engLater, rs, eng, store, faults>>
            /\ edits < MaxEdits /\ edits' = edits + 1
BY DEF User, EditSource, DeleteRuleSet, CreateRuleSet, SetRuleSetRef, Edit, queues

(* What watch events leave alone. *)
LEMMA SyncFrame ==
    Sync => UNCHANGED <<source, ruleset, engine, configMap, deploy, engLater, rs, eng, store, edits, faults>>
BY DEF Sync, SyncSource, SyncRuleSet, SyncEngine, SyncConfigMap, SyncDeployment, apiVars, bounds

(* What the RuleSet controller leaves alone. *)
LEMMA RsFrame ==
    RsStep \/ RsStatusFails =>
        /\ UNCHANGED <<source, engine, configMap, deploy, cache, engQueue, engLater, eng, edits>>
        /\ faults' = faults \/ (faults < MaxFaults /\ faults' = faults + 1)
<1>1. ASSUME NEW r, RsGet(r)
      PROVE  UNCHANGED <<source, engine, configMap, deploy, cache, engQueue, engLater, eng, edits, faults>>
    BY <1>1 DEF RsGet, apiVars, bounds
<1>2. CASE RsStatus
    BY <1>2 DEF RsStatus, bounds
<1>3. ASSUME NEW e, RsPublish(e)
      PROVE  UNCHANGED <<source, engine, configMap, deploy, cache, engQueue, engLater, eng, edits, faults>>
    BY <1>3 DEF RsPublish, apiVars, bounds, queues
<1>4. CASE RsStatusFails
    BY <1>4 DEF RsStatusFails, apiVars, Fault
<1> QED
    BY <1>1, <1>2, <1>3, <1>4 DEF RsStep

(* What the Engine controller leaves alone. *)
LEMMA EngFrame ==
    EngStep \/ EngWriteFails \/ (\E e \in Engines : EngDelayOver(e)) =>
        /\ UNCHANGED <<source, ruleset, cache, rsQueue, rs, edits>>
        /\ faults' = faults \/ (faults < MaxFaults /\ faults' = faults + 1)
<1>1. ASSUME NEW e, EngGet(e) PROVE UNCHANGED <<source, ruleset, cache, rsQueue, rs, edits, faults>>
    BY <1>1 DEF EngGet, apiVars, bounds
<1>2. CASE EngMark
    BY <1>2 DEF EngMark, bounds
<1>3. CASE EngConfigMap
    BY <1>3 DEF EngConfigMap, bounds
<1>4. CASE EngDeployment
    BY <1>4 DEF EngDeployment, bounds
<1>5. CASE EngStatus
    BY <1>5 DEF EngStatus, bounds
<1>6. CASE EngWriteFails
    BY <1>6 DEF EngWriteFails, apiVars, Fault
<1>7. ASSUME NEW e, EngDelayOver(e) PROVE UNCHANGED <<source, ruleset, cache, rsQueue, rs, edits, faults>>
    BY <1>7 DEF EngDelayOver, apiVars, bounds
<1> QED
    BY <1>1, <1>2, <1>3, <1>4, <1>5, <1>6, <1>7 DEF EngStep

(* What the kubelet leaves alone. *)
LEMMA PodFrame ==
    ASSUME NEW e, PodReady(e)
    PROVE  UNCHANGED <<source, ruleset, engine, configMap, cache, rsQueue, engQueue, engLater, rs, eng,
                       store, edits, faults>>
BY DEF PodReady, queues, bounds

(* What a restart leaves alone, and what it resets. *)
LEMMA RestartFrame ==
    OperatorRestart =>
        /\ UNCHANGED <<source, ruleset, engine, configMap, deploy, edits>>
        /\ faults < MaxFaults /\ faults' = faults + 1
        /\ rs' = RsIdle /\ eng' = EngIdle /\ engQueue' = Engines /\ engLater' = {}
        /\ rsQueue' = {r \in RuleSets : ruleset[r].there}
        /\ cache' = Api /\ store' = [e \in Engines |-> None]
BY DEF OperatorRestart, apiVars, Fault

(* The steps, by kind. *)
LEMMA StepKinds ==
    [Next]_vars =>
        \/ User \/ Sync \/ RsStep \/ RsStatusFails
        \/ EngStep \/ EngWriteFails \/ (\E e \in Engines : EngDelayOver(e))
        \/ (\E e \in Engines : PodReady(e)) \/ OperatorRestart
        \/ UNCHANGED <<source, ruleset, engine, configMap, deploy, cache, rsQueue, engQueue, engLater,
                        rs, eng, store, edits, faults>>
BY DEF Next, vars, apiVars, queues, bounds

(* The RuleSet controller's reconcile keeps its type. *)
LEMMA NextRsTyped == ASSUME Typed, [Next]_vars PROVE RsTyped'
<1>0. RsTyped /\ cache \in Caches
    BY DEF Typed
<1>1. CASE rs' = RsIdle
    BY <1>1 DEF RsTyped, RsIdle
<1>2. CASE rs' = rs
    BY <1>0, <1>2 DEF RsTyped
<1>3. ASSUME NEW r \in RuleSets, RsGet(r), rs' # RsIdle PROVE RsTyped'
    <2> DEFINE b == Compile(cache.source, r)
               cond == CASE Missing(cache.source, r)  -> "missing"
                         [] Compiles(cache.source, r) -> "ready"
                         [] OTHER                     -> "conflict"
    <2>1. rs' = [pc |-> "status", name |-> r, seen |-> cache.ruleset[r], cond |-> cond,
                 bundle |-> b, todo |-> {}]
        BY <1>3 DEF RsGet
    <2>2. cache.source \in [Sources -> SourceObjects] /\ cache.ruleset[r] \in RuleSetObjects
        BY <1>0 DEF Caches
    <2>3. b \in Bundle \cup {None} /\ (b # None <=> Compiles(cache.source, r))
        BY <2>2, CompileType
    <2>4. cond \in {"ready", "missing", "conflict"} /\ (Compiles(cache.source, r) => cond = "ready")
        BY DEF Compiles
    <2> HIDE DEF b, cond
    <2> QED
        BY <2>1, <2>2, <2>3, <2>4 DEF RsTyped, RsWork
<1>4. ASSUME RsStatus, rs' # RsIdle PROVE RsTyped'
    <2>1. /\ rs.pc = "status" /\ rs.bundle # None
          /\ rs' = [pc |-> "publish", name |-> rs.name, seen |-> rs.seen, cond |-> rs.cond,
                    bundle |-> rs.bundle, todo |-> EnginesFor(rs.name)]
        BY <1>4 DEF RsStatus, RsReturn, RsRequeue
    <2>2. rs \in RsWork
        BY <2>1, WorkIs
    <2>3. EnginesFor(rs.name) \subseteq Engines
        BY DEF EnginesFor
    <2> QED
        BY <2>1, <2>2, <2>3 DEF RsTyped, RsWork
<1>5. ASSUME NEW e \in Engines, RsPublish(e), rs' # RsIdle PROVE RsTyped'
    <2>1. rs.pc = "publish" /\ rs' = [rs EXCEPT !.todo = @ \ {e}]
        BY <1>5 DEF RsPublish
    <2>2. rs \in RsWork /\ rs.bundle # None
        BY <1>0, <2>1, WorkIs DEF RsTyped
    <2> QED
        BY <2>1, <2>2 DEF RsTyped, RsWork
<1>6. CASE RsStatusFails
    BY <1>1, <1>6 DEF RsStatusFails, RsRequeue
<1>7. CASE RsStep
    BY <1>1, <1>3, <1>4, <1>5, <1>7 DEF RsStep
<1> QED
    BY <1>1, <1>2, <1>6, <1>7, StepKinds, UserFrame, SyncFrame, EngFrame, PodFrame, RestartFrame

(* How the Engine controller's reconcile moves. *)
LEMMA EngMoves ==
    ASSUME Typed, [Next]_vars
    PROVE  \/ eng' = eng \/ eng' = EngIdle
           \/ \E e \in Engines : EngGet(e)
           \/ EngConfigMap /\ eng' = [eng EXCEPT !.pc = "deployment"]
           \/ EngDeployment /\ eng' = [eng EXCEPT !.pc = "status"]
<1>1. CASE EngMark
    BY <1>1 DEF EngMark, EngRetry, EngReturn, EngRequeueAfter
<1>2. CASE EngConfigMap
    BY <1>2 DEF EngConfigMap, EngRetry, EngGoto
<1>3. CASE EngDeployment
    BY <1>3 DEF EngDeployment, EngRetry, EngGoto
<1>4. CASE EngStatus
    BY <1>4 DEF EngStatus, EngRetry, EngReturn, EngRequeueAfter
<1>5. CASE EngWriteFails
    BY <1>5 DEF EngWriteFails, EngRetry
<1>6. CASE \E e \in Engines : EngDelayOver(e)
    BY <1>6 DEF EngDelayOver
<1>7. CASE EngStep
    BY <1>1, <1>2, <1>3, <1>4, <1>7 DEF EngStep
<1> QED
    BY <1>5, <1>6, <1>7, StepKinds, UserFrame, SyncFrame, RsFrame, PodFrame, RestartFrame

(* What a reconcile that starts has read. *)
LEMMA EngGetIs ==
    ASSUME Typed, NEW e \in Engines, EngGet(e)
    PROVE  /\ eng.pc = "idle" /\ eng'.name = e /\ eng'.seen = cache.engine[e] /\ eng' \in EngWork
           /\ engQueue' = engQueue \ {e} /\ engLater' = engLater
           /\ eng'.pc \in {"mark", "configmap"}
           /\ eng'.pc = "configmap" => eng'.bundle = CachedDesired(e) /\ eng'.bundle # None
           /\ eng'.pc = "mark" => /\ eng'.cond # None
                                  /\ eng'.cond = "missing" => CachedDesired(e) = None
<1> DEFINE seen == cache.engine[e]
           set == cache.ruleset[seen.ref]
           b == Compile(cache.source, seen.ref)
           cond == CASE ~set.there -> "missing"
                     [] set.there /\ set.hash = None -> "waiting"
                     [] set.there /\ set.hash # None /\ b = None -> "failed"
                     [] OTHER -> None
           bundle == IF set.there /\ set.hash # None THEN b ELSE None
           pc == IF set.there /\ set.hash # None /\ b # None THEN "configmap" ELSE "mark"
<1>1. /\ eng.pc = "idle" /\ engQueue' = engQueue \ {e} /\ engLater' = engLater
      /\ eng' = [pc |-> pc, name |-> e, seen |-> seen, cond |-> cond, bundle |-> bundle]
    BY DEF EngGet
<1>2. cache \in Caches
    BY DEF Typed
<1>3. /\ cache.source \in [Sources -> SourceObjects] /\ seen \in EngineObjects
      /\ seen.ref \in RuleSets
    BY <1>2 DEF Caches, EngineObjects
<1>4. set \in RuleSetObjects /\ set.there \in BOOLEAN
    BY <1>2, <1>3 DEF Caches, RuleSetObjects
<1>5. b \in Bundle \cup {None}
    BY <1>3, CompileType
<1>6. CachedDesired(e) = IF set.there THEN b ELSE None
    BY DEF CachedDesired
<1> HIDE DEF seen, set, b
<1>7. /\ cond \in {"missing", "waiting", "failed", None} /\ bundle \in Bundle \cup {None}
      /\ pc \in {"mark", "configmap"}
    BY <1>5
<1>8. /\ pc = "configmap" => bundle = CachedDesired(e) /\ bundle # None
      /\ cond = "missing" => CachedDesired(e) = None
      /\ pc = "mark" => cond # None
    <2>1. None \notin {"missing", "waiting", "failed"}
        BY ControlPlaneAssumption
    <2> QED
        BY <1>4, <1>6, <2>1
<1> HIDE DEF cond, bundle, pc
<1>9. /\ eng'.pc = pc /\ eng'.name = e /\ eng'.seen = seen /\ eng'.cond = cond
      /\ eng'.bundle = bundle
    BY <1>1
<1>10. eng' \in EngWork
    BY <1>1, <1>3, <1>7 DEF EngWork
<1> QED
    BY <1>1, <1>7, <1>8, <1>9, <1>10 DEF seen

(* The Engine controller's reconcile keeps its type. *)
LEMMA NextEngTyped == ASSUME Typed, [Next]_vars PROVE EngTyped'
<1>0. EngTyped
    BY DEF Typed
<1>1. CASE eng' = eng
    BY <1>0, <1>1 DEF EngTyped
<1>2. CASE eng' = EngIdle
    BY <1>2 DEF EngTyped, EngIdle
<1>3. ASSUME NEW e \in Engines, EngGet(e) PROVE EngTyped'
    BY <1>3, EngGetIs DEF EngTyped
<1>4. CASE EngConfigMap /\ eng' = [eng EXCEPT !.pc = "deployment"]
    <2>1. eng.pc = "configmap" /\ eng \in EngWork /\ eng.bundle # None
        BY <1>0, <1>4, WorkIs DEF EngConfigMap, EngTyped
    <2> QED
        BY <1>4, <2>1 DEF EngTyped, EngWork
<1>5. CASE EngDeployment /\ eng' = [eng EXCEPT !.pc = "status"]
    <2>1. eng.pc = "deployment" /\ eng \in EngWork /\ eng.bundle # None
        BY <1>0, <1>5, WorkIs DEF EngDeployment, EngTyped
    <2> QED
        BY <1>5, <2>1 DEF EngTyped, EngWork
<1> QED
    BY <1>1, <1>2, <1>3, <1>4, <1>5, EngMoves

(* A status is written to the Engine that was read, whose spec it keeps. *)
StatusOnly(e) ==
    \E w \in EngineObjects :
        /\ engine' = [engine EXCEPT ![e] = w]
        /\ w.ref = engine[e].ref /\ w.gen = engine[e].gen /\ w.rv = engine[e].rv + 1

(* So do both places that write one. *)
LEMMA StatusWrites ==
    ASSUME Typed, EngineCopies, EngMark \/ EngStatus
    PROVE  engine' = engine \/ StatusOnly(eng.name)
<1>1. eng \in EngWork /\ eng.pc # "idle"
    BY WorkIs DEF EngMark, EngStatus
<1>2. /\ eng.name \in Engines /\ eng.seen \in EngineObjects /\ eng.bundle \in Bundle \cup {None}
      /\ engine \in [Engines -> EngineObjects]
    BY <1>1 DEF EngWork, Typed, ApiTyped
<1>3. ASSUME NEW cond \in {"new", "missing", "waiting", "failed", "rolling", "ready"},
             NEW hash \in Bundle \cup {None},
             ~Conflicts(WithStatus(cond, hash)), WriteStatus(WithStatus(cond, hash))
      PROVE  engine' = engine \/ StatusOnly(eng.name)
    <2> SUFFICES ASSUME engine' # engine PROVE StatusOnly(eng.name)
        OBVIOUS
    <2> DEFINE st == WithStatus(cond, hash)
               w == [ref |-> eng.seen.ref, gen |-> eng.seen.gen, rv |-> eng.seen.rv + 1,
                     cond |-> cond, hash |-> hash]
    <2>1. eng.seen.rv = engine[eng.name].rv /\ engine' = [engine EXCEPT ![eng.name] = [st EXCEPT !.rv = @ + 1]]
        BY <1>3 DEF Conflicts, WriteStatus
    <2>2. eng.seen = engine[eng.name]
        BY <1>1, <2>1 DEF EngineCopies, Older
    <2>3. [st EXCEPT !.rv = @ + 1] = w /\ w \in EngineObjects
        BY <1>2, SMTT(30) DEF WithStatus, EngineObjects
    <2> HIDE DEF st
    <2>4. w.ref = eng.seen.ref /\ w.gen = eng.seen.gen /\ w.rv = eng.seen.rv + 1
        OBVIOUS
    <2> HIDE DEF w
    <2> QED
        BY <2>1, <2>2, <2>3, <2>4 DEF StatusOnly
<1>4. CASE EngMark
    <2>1. eng.cond \in {"missing", "waiting", "failed"} /\ eng.seen.hash \in Bundle \cup {None}
        <3>1. eng.cond # None
            BY <1>4 DEF EngMark, Typed, EngTyped
        <3> QED
            BY <1>1, <1>2, <3>1 DEF EngWork, EngineObjects
    <2> DEFINE st == WithStatus(eng.cond, eng.seen.hash)
    <2>2. engine' = engine \/ (~Conflicts(st) /\ WriteStatus(st))
        BY <1>4 DEF EngMark
    <2> QED
        BY <1>3, <2>1, <2>2
<1>5. CASE EngStatus
    <2> DEFINE cond == IF cache.deploy[eng.name].ready THEN "ready" ELSE "rolling"
               st == WithStatus(cond, eng.bundle)
    <2>1. engine' = engine \/ (~Conflicts(st) /\ WriteStatus(st))
        BY <1>5 DEF EngStatus
    <2>2. cond \in {"ready", "rolling"}
        OBVIOUS
    <2> HIDE DEF cond
    <2> QED
        BY <1>2, <1>3, <2>1, <2>2
<1> QED
    BY <1>4, <1>5

(* Only users change a source, and one at a time. *)
LEMMA SourceSteps ==
    ASSUME [Next]_vars
    PROVE  source' = source \/ \E s \in Sources, t \in Texts \cup {None} : EditSource(s, t)
<1>1. CASE User
    BY <1>1 DEF User, DeleteRuleSet, CreateRuleSet, SetRuleSetRef
<1> QED
    BY <1>1, StepKinds, SyncFrame, RsFrame, EngFrame, PodFrame, RestartFrame

(* RuleSets change by users and by the status. *)
LEMMA RuleSetSteps ==
    ASSUME [Next]_vars
    PROVE  \/ ruleset' = ruleset \/ RsStatus
           \/ \E r \in RuleSets : DeleteRuleSet(r) \/ CreateRuleSet(r)
<1>1. CASE User
    BY <1>1 DEF User, EditSource, SetRuleSetRef
<1>2. CASE RsStep
    BY <1>2 DEF RsStep, RsGet, RsPublish, apiVars
<1>3. CASE RsStatusFails
    BY <1>3 DEF RsStatusFails, apiVars
<1> QED
    BY <1>1, <1>2, <1>3, StepKinds, SyncFrame, EngFrame, PodFrame, RestartFrame

(* Engines change by users and by the status. *)
LEMMA EngineSteps ==
    ASSUME [Next]_vars
    PROVE  \/ engine' = engine \/ EngMark \/ EngStatus
           \/ \E e \in Engines, r \in RuleSets : SetRuleSetRef(e, r)
<1>1. CASE User
    BY <1>1 DEF User, EditSource, DeleteRuleSet, CreateRuleSet
<1>2. CASE EngStep
    BY <1>2 DEF EngStep, EngGet, EngConfigMap, EngDeployment, apiVars
<1>3. CASE EngWriteFails \/ \E e \in Engines : EngDelayOver(e)
    BY <1>3 DEF EngWriteFails, EngDelayOver, apiVars
<1> QED
    BY <1>1, <1>2, <1>3, StepKinds, SyncFrame, RsFrame, PodFrame, RestartFrame

(* ConfigMaps and Deployments change by the steps named after them. *)
LEMMA ObjectSteps ==
    ASSUME [Next]_vars
    PROVE  /\ configMap' = configMap \/ EngConfigMap
           /\ deploy' = deploy \/ EngDeployment \/ \E e \in Engines : PodReady(e)
<1>1. CASE EngStep
    BY <1>1 DEF EngStep, EngGet, EngMark, EngConfigMap, EngDeployment, EngStatus, apiVars
<1>2. CASE EngWriteFails \/ \E e \in Engines : EngDelayOver(e)
    BY <1>2 DEF EngWriteFails, EngDelayOver, apiVars
<1> QED
    BY <1>1, <1>2, StepKinds, UserFrame, SyncFrame, RsFrame, PodFrame, RestartFrame

(* The bounds. *)
LEMMA NextBounds ==
    ASSUME Typed, [Next]_vars
    PROVE  /\ edits' \in 0..MaxEdits /\ faults' \in 0..MaxFaults /\ edits <= edits'
<1>1. edits \in 0..MaxEdits /\ faults \in 0..MaxFaults /\ MaxEdits \in Nat /\ MaxFaults \in Nat
    BY ControlPlaneAssumption DEF Typed
<1>2. edits' = edits \/ (edits < MaxEdits /\ edits' = edits + 1)
    BY StepKinds, UserFrame, SyncFrame, RsFrame, EngFrame, PodFrame, RestartFrame
<1>3. faults' = faults \/ (faults < MaxFaults /\ faults' = faults + 1)
    BY StepKinds, UserFrame, SyncFrame, RsFrame, EngFrame, PodFrame, RestartFrame
<1> QED
    BY <1>1, <1>2, <1>3, SMTT(30)

(* A Deployment is written when the cached one has another hash, and keeps its  *)
(* pods.                                                                        *)
LEMMA DeployWrites ==
    ASSUME Typed, ObjectCopies, EngDeployment
    PROVE  /\ eng.pc = "deployment" /\ eng.name \in Engines /\ eng.bundle \in Bundle
           /\ \/ /\ deploy' = deploy
                 /\ eng' = EngIdle => engQueue' = engQueue \cup {eng.name}
                 /\ eng' # EngIdle => /\ cache.deploy[eng.name] # None
                                      /\ cache.deploy[eng.name].hash = eng.bundle
              \/ \E d \in DeployObjects :
                    /\ deploy' = [deploy EXCEPT ![eng.name] = d]
                    /\ d.hash = eng.bundle
                    /\ deploy[eng.name] # None => d.ready = deploy[eng.name].ready
                    /\ cache.deploy[eng.name] # None => cache.deploy[eng.name].hash # eng.bundle
<1> DEFINE e == eng.name
           b == eng.bundle
<1>1. eng.pc = "deployment" /\ e \in Engines /\ b \in Bundle
    <2>1. eng \in EngWork /\ eng.pc = "deployment"
        BY WorkIs DEF EngDeployment
    <2> QED
        BY <2>1 DEF EngWork, Typed, EngTyped
<1>2. /\ deploy \in [Engines -> DeployObjects \cup {None}]
      /\ cache.deploy[e] # None => deploy[e] # None
    BY <1>1 DEF Typed, ApiTyped, ObjectCopies
<1>3. CASE cache.deploy[e] = None /\ deploy[e] # None
    BY <1>1, <1>3 DEF EngDeployment, EngRetry
<1>4. CASE cache.deploy[e] = None /\ deploy[e] = None
    <2>1. deploy' = [deploy EXCEPT ![e] = BuildDeployment(b)]
        BY <1>4 DEF EngDeployment
    <2>2. BuildDeployment(b) \in DeployObjects /\ BuildDeployment(b).hash = b
        BY <1>1 DEF BuildDeployment, DeployObjects
    <2> QED
        BY <1>1, <1>4, <2>1, <2>2
<1>5. CASE cache.deploy[e] # None
    <2>1. CASE cache.deploy[e].hash = b
        <3>1. deploy' = deploy /\ eng' = [eng EXCEPT !.pc = "status"]
            BY <1>5, <2>1 DEF EngDeployment, EngGoto
        <3>2. eng' # EngIdle
            <4>1. eng \in EngWork
                BY <1>1, WorkIs
            <4>2. eng'.pc = "status"
                BY <3>1, <4>1 DEF EngWork
            <4> QED
                BY <4>2, SMTT(30) DEF EngIdle
        <3> QED
            BY <1>1, <1>5, <2>1, <3>1, <3>2
    <2>2. CASE cache.deploy[e].hash # b
        <3>1. deploy' = [deploy EXCEPT ![e] = MutateDeployment(deploy[e], b)]
            BY <1>1, <1>2, <1>5, <2>2 DEF EngDeployment
        <3>2. /\ MutateDeployment(deploy[e], b) \in DeployObjects
              /\ MutateDeployment(deploy[e], b).hash = b
              /\ MutateDeployment(deploy[e], b).ready = deploy[e].ready
            BY <1>1, <1>2, <1>5 DEF MutateDeployment, DeployObjects
        <3> QED
            BY <1>1, <2>2, <3>1, <3>2
    <2> QED
        BY <2>1, <2>2
<1> QED
    BY <1>3, <1>4, <1>5

(* The API server's objects keep their types, and no generation counts more     *)
(* than the edits.                                                              *)
LEMMA NextApiTyped == ASSUME Typed, EngineCopies, ObjectCopies, [Next]_vars PROVE ApiTyped'
<1>0. /\ ApiTyped /\ edits \in 0..MaxEdits /\ edits' \in 0..MaxEdits /\ edits <= edits'
      /\ MaxEdits \in Nat
    BY NextBounds, ControlPlaneAssumption DEF Typed
<1>1. source' \in [Sources -> SourceObjects] /\ \A s \in Sources : source'[s].gen <= edits'
    <2>1. CASE source' = source
        BY <1>0, <2>1, SMTT(30) DEF ApiTyped, SourceObjects
    <2>2. ASSUME NEW s \in Sources, NEW t \in Texts \cup {None}, EditSource(s, t)
          PROVE  source' \in [Sources -> SourceObjects] /\ \A x \in Sources : source'[x].gen <= edits'
        <3>1. /\ source' = [source EXCEPT ![s] = [text |-> t, gen |-> source[s].gen + 1]]
              /\ edits' = edits + 1 /\ source[s].gen \in 0..edits /\ source \in [Sources -> SourceObjects]
            BY <1>0, <2>2, SMTT(30) DEF EditSource, Edit, ApiTyped, SourceObjects
        <3>2. [text |-> t, gen |-> source[s].gen + 1] \in SourceObjects
            BY <1>0, <3>1, SMTT(30) DEF SourceObjects
        <3> QED
            BY <1>0, <3>1, <3>2, SMTT(30) DEF ApiTyped, SourceObjects
    <2> QED
        BY <2>1, <2>2, SourceSteps
<1>2. ruleset' \in [RuleSets -> RuleSetObjects]
    <2>0. ruleset \in [RuleSets -> RuleSetObjects]
        BY <1>0 DEF ApiTyped
    <2>1. ASSUME NEW r \in RuleSets, DeleteRuleSet(r) \/ CreateRuleSet(r)
          PROVE  ruleset' \in [RuleSets -> RuleSetObjects]
        <3>1. PICK there \in BOOLEAN : ruleset' = [ruleset EXCEPT ![r] = NewRuleSet(there, ruleset[r].rv + 1)]
            BY <2>0, <2>1 DEF DeleteRuleSet, CreateRuleSet
        <3>2. NewRuleSet(there, ruleset[r].rv + 1) \in RuleSetObjects
            BY <2>0, SMTT(30) DEF NewRuleSet, RuleSetObjects
        <3> QED
            BY <2>0, <3>1, <3>2
    <2>2. CASE RsStatus
        <3>1. rs \in RsWork
            BY <2>2, WorkIs DEF RsStatus
        <3> SUFFICES ASSUME ruleset' # ruleset PROVE ruleset' \in [RuleSets -> RuleSetObjects]
            BY <2>0
        <3> DEFINE n == rs.name
                   hash == IF rs.bundle = None THEN ruleset[n].hash ELSE rs.bundle
        <3>2. ruleset' = [ruleset EXCEPT ![n] = [there |-> ruleset[n].there, cond |-> rs.cond,
                                                 rv |-> ruleset[n].rv + 1, hash |-> hash]]
            BY <2>2 DEF RsStatus
        <3>3. /\ n \in RuleSets /\ rs.cond \in {"ready", "missing", "conflict"}
              /\ rs.bundle \in Bundle \cup {None}
            BY <3>1 DEF RsWork
        <3> HIDE DEF n
        <3>4. /\ ruleset[n].there \in BOOLEAN /\ ruleset[n].rv + 1 \in Nat /\ hash \in Bundle \cup {None}
            BY <2>0, <3>3, SMTT(30) DEF RuleSetObjects
        <3> HIDE DEF hash
        <3>5. [there |-> ruleset[n].there, cond |-> rs.cond, rv |-> ruleset[n].rv + 1, hash |-> hash]
                  \in RuleSetObjects
            BY <3>3, <3>4 DEF RuleSetObjects
        <3> QED
            BY <2>0, <3>2, <3>5
    <2> QED
        BY <2>0, <2>1, <2>2, RuleSetSteps
<1>3. engine' \in [Engines -> EngineObjects] /\ \A e \in Engines : engine'[e].gen <= edits'
    <2>0. engine \in [Engines -> EngineObjects] /\ \A e \in Engines : engine[e].gen \in 0..edits
        BY <1>0, SMTT(30) DEF ApiTyped, EngineObjects
    <2>1. CASE engine' = engine
        BY <1>0, <2>0, <2>1, SMTT(30)
    <2>2. ASSUME NEW e \in Engines, NEW r \in RuleSets, SetRuleSetRef(e, r)
          PROVE  engine' \in [Engines -> EngineObjects] /\ \A x \in Engines : engine'[x].gen <= edits'
        <3> DEFINE new == [ref |-> r, gen |-> engine[e].gen + 1, rv |-> engine[e].rv + 1,
                           cond |-> engine[e].cond, hash |-> engine[e].hash]
        <3>1. engine' = [engine EXCEPT ![e] = new] /\ edits' = edits + 1
            BY <2>0, <2>2 DEF SetRuleSetRef, Edit
        <3>2. new \in EngineObjects /\ new.gen <= edits'
            BY <1>0, <2>0, <3>1, SMTT(30) DEF EngineObjects
        <3> HIDE DEF new
        <3> QED
            BY <1>0, <2>0, <3>1, <3>2, SMTT(30)
    <2>3. ASSUME NEW e \in Engines, StatusOnly(e)
          PROVE  engine' \in [Engines -> EngineObjects] /\ \A x \in Engines : engine'[x].gen <= edits'
        BY <1>0, <2>0, <2>3, SMTT(30) DEF StatusOnly
    <2>4. CASE EngMark \/ EngStatus
        <3>1. eng.name \in Engines
            BY <2>4, WorkIs DEF EngMark, EngStatus, EngWork
        <3> QED
            BY <2>1, <2>3, <2>4, <3>1, StatusWrites
    <2> QED
        BY <2>1, <2>2, <2>4, EngineSteps
<1>4. configMap' \in [Engines -> Bundle \cup {None}]
    <2>0. configMap \in [Engines -> Bundle \cup {None}]
        BY <1>0 DEF ApiTyped
    <2>1. CASE EngConfigMap
        <3>1. eng.name \in Engines /\ eng.bundle \in Bundle \cup {None}
            BY <2>1, WorkIs DEF EngConfigMap, EngWork
        <3>2. configMap' = configMap \/ configMap' = [configMap EXCEPT ![eng.name] = eng.bundle]
            BY <2>1 DEF EngConfigMap
        <3> QED
            BY <2>0, <3>1, <3>2
    <2> QED
        BY <2>0, <2>1, ObjectSteps
<1>5. deploy' \in [Engines -> DeployObjects \cup {None}]
    <2>0. deploy \in [Engines -> DeployObjects \cup {None}]
        BY <1>0 DEF ApiTyped
    <2>1. ASSUME NEW e \in Engines, PodReady(e) PROVE deploy' \in [Engines -> DeployObjects \cup {None}]
        BY <2>0, <2>1 DEF PodReady, DeployObjects
    <2>2. CASE EngDeployment
        BY <2>0, <2>2, DeployWrites
    <2> QED
        BY <2>0, <2>1, <2>2, ObjectSteps
<1> QED
    BY <1>1, <1>2, <1>3, <1>4, <1>5 DEF ApiTyped

(* The store holds bundles. *)
LEMMA StoreSteps ==
    ASSUME [Next]_vars
    PROVE  \/ store' = store \/ EngStatus \/ OperatorRestart
           \/ \E e \in Engines : RsPublish(e)
<1>1. CASE RsStep
    BY <1>1 DEF RsStep, RsGet, RsStatus
<1>2. CASE RsStatusFails
    BY <1>2 DEF RsStatusFails
<1>3. CASE EngStep
    BY <1>3 DEF EngStep, EngGet, EngMark, EngConfigMap, EngDeployment
<1>4. CASE EngWriteFails \/ \E e \in Engines : EngDelayOver(e)
    BY <1>4 DEF EngWriteFails, EngDelayOver
<1> QED
    BY <1>1, <1>2, <1>3, <1>4, StepKinds, UserFrame, SyncFrame, PodFrame

(* Only known names are queued. *)
LEMMA NextQueues ==
    ASSUME Typed, [Next]_vars
    PROVE  rsQueue' \subseteq RuleSets /\ engQueue' \subseteq Engines /\ engLater' \subseteq Engines
<1>0. /\ rsQueue \subseteq RuleSets /\ engQueue \subseteq Engines /\ engLater \subseteq Engines
      /\ rs.pc # "idle" => rs.name \in RuleSets
      /\ eng.pc # "idle" => eng.name \in Engines
    BY WorkIs DEF Typed, RsWork, EngWork
<1>1. CASE Sync
    BY <1>0, <1>1 DEF Sync, SyncSource, SyncRuleSet, SyncEngine, SyncConfigMap, SyncDeployment, EnginesFor
<1>2. CASE RsStep \/ RsStatusFails
    <2>1. rsQueue' \subseteq RuleSets
        <3>1. CASE RsStatusFails
            BY <1>0, <3>1 DEF RsStatusFails, RsRequeue
        <3>2. CASE RsStatus
            BY <1>0, <3>2 DEF RsStatus, RsRequeue
        <3>3. CASE \E r \in RuleSets : RsGet(r)
            BY <1>0, <3>3 DEF RsGet
        <3>4. CASE \E e \in Engines : RsPublish(e)
            BY <1>0, <3>4 DEF RsPublish, queues
        <3> QED
            BY <1>2, <3>1, <3>2, <3>3, <3>4 DEF RsStep
    <2> QED
        BY <1>0, <1>2, <2>1, RsFrame
<1>3. CASE EngStep
    <2>1. CASE \E e \in Engines : EngGet(e)
        BY <1>0, <2>1 DEF EngGet
    <2>2. CASE EngMark
        BY <1>0, <2>2 DEF EngMark, EngRetry, EngReturn, EngRequeueAfter
    <2>3. CASE EngConfigMap
        BY <1>0, <2>3 DEF EngConfigMap, EngRetry, EngGoto
    <2>4. CASE EngDeployment
        BY <1>0, <2>4 DEF EngDeployment, EngRetry, EngGoto
    <2>5. CASE EngStatus
        BY <1>0, <2>5 DEF EngStatus, EngRetry, EngReturn, EngRequeueAfter
    <2>6. rsQueue' = rsQueue
        BY <1>3, EngFrame
    <2> QED
        BY <1>0, <1>3, <2>1, <2>2, <2>3, <2>4, <2>5, <2>6 DEF EngStep
<1>4. CASE EngWriteFails \/ \E e \in Engines : EngDelayOver(e)
    BY <1>0, <1>4 DEF EngWriteFails, EngRetry, EngDelayOver
<1> QED
    BY <1>0, <1>1, <1>2, <1>3, <1>4, StepKinds, UserFrame, PodFrame, RestartFrame

(* Every step keeps the types. *)
LEMMA NextTyped == ASSUME Typed, EngineCopies, ObjectCopies, [Next]_vars PROVE Typed'
<1>1. store' \in [Engines -> Bundle \cup {None}]
    <2>0. store \in [Engines -> Bundle \cup {None}]
        BY DEF Typed
    <2>1. ASSUME NEW e \in Engines, RsPublish(e) PROVE store' \in [Engines -> Bundle \cup {None}]
        <3>1. rs.bundle \in Bundle \cup {None} /\ store' = [store EXCEPT ![e] = rs.bundle]
            BY <2>1, WorkIs DEF RsPublish, RsWork
        <3> QED
            BY <2>0, <3>1
    <2>2. CASE EngStatus
        <3>1. /\ eng.bundle \in Bundle \cup {None} /\ eng.name \in Engines
              /\ store' = store \/ store' = [store EXCEPT ![eng.name] = eng.bundle]
            BY <2>2, WorkIs DEF EngStatus, EngWork
        <3> QED
            BY <2>0, <3>1
    <2>3. CASE OperatorRestart
        BY <2>3, RestartFrame
    <2> QED
        BY <2>0, <2>1, <2>2, <2>3, StoreSteps
<1>2. cache' \in Caches
    <2>0. cache \in Caches /\ TypeOK
        BY TypedIsTypeOK DEF Typed
    <2>1. CASE Sync
        BY <2>0, <2>1, SyncIs DEF Sync
    <2>2. CASE OperatorRestart
        <3>1. cache' = Api
            BY <2>2, RestartFrame
        <3>2. Api \in Caches
            BY <2>0 DEF Api, Caches, TypeOK
        <3> QED
            BY <3>1, <3>2
    <2> QED
        BY <2>0, <2>1, <2>2, StepKinds, UserFrame, RsFrame, EngFrame, PodFrame
<1> QED
    BY <1>1, <1>2, NextRsTyped, NextEngTyped, NextApiTyped, NextBounds, NextQueues DEF Typed

-----------------------------------------------------------------------------
(* Copies *)

(* An entry with a new version is older than none before it. *)
LEMMA NewVersion ==
    ASSUME NEW copy, NEW old, NEW new, copy.rv \in Nat, old.rv \in Nat,
           Older(copy, old), new.rv = old.rv + 1
    PROVE  Older(copy, new) /\ copy # new
BY SMTT(30) DEF Older

(* What the status update of a RuleSet does: the version read is the present    *)
(* one, and with it the one in the cache.                                       *)
LEMMA RsStatusIs ==
    ASSUME Typed, RuleSetCopies, RsStatus
    PROVE  LET n == rs.name IN
           /\ rs.pc = "status" /\ n \in RuleSets
           /\ \/ rs.bundle = None /\ UNCHANGED <<ruleset, rsQueue>> /\ rs' = RsIdle
              \/ UNCHANGED ruleset /\ rsQueue' = rsQueue \cup {n} /\ rs' = RsIdle
              \/ /\ cache.ruleset[n] = ruleset[n] /\ rsQueue' = rsQueue
                 /\ ruleset' = [ruleset EXCEPT ![n] =
                       [there |-> ruleset[n].there, cond |-> rs.cond, rv |-> ruleset[n].rv + 1,
                        hash |-> IF rs.bundle = None THEN ruleset[n].hash ELSE rs.bundle]]
                 /\ \/ rs' = RsIdle
                    \/ /\ rs.bundle # None
                       /\ rs' = [pc |-> "publish", name |-> n, seen |-> rs.seen, cond |-> rs.cond,
                                 bundle |-> rs.bundle, todo |-> EnginesFor(n)]
<1> DEFINE n == rs.name
<1>1. rs.pc = "status" /\ rs \in RsWork
    BY WorkIs DEF RsStatus
<1>2. n \in RuleSets /\ rs.seen.rv \in Nat /\ rs.seen.rv <= cache.ruleset[n].rv
    BY <1>1 DEF RsWork, RuleSetObjects, RuleSetCopies
<1>3. cache.ruleset[n].rv \in Nat /\ ruleset[n].rv \in Nat
    BY <1>2 DEF Typed, ApiTyped, Caches, RuleSetObjects
<1>4. Older(cache.ruleset[n], ruleset[n])
    BY <1>2 DEF RuleSetCopies
<1>5. rs.seen.rv = ruleset[n].rv => cache.ruleset[n] = ruleset[n]
    BY <1>2, <1>3, <1>4, SMTT(30) DEF Older
<1>6. CASE RsStatusSame
    BY <1>1, <1>2, <1>6 DEF RsStatus, RsReturn, RsStatusSame
<1>7. CASE ~RsStatusSame /\ rs.seen.rv # ruleset[n].rv
    BY <1>1, <1>2, <1>7 DEF RsStatus, RsRequeue
<1>8. CASE ~RsStatusSame /\ rs.seen.rv = ruleset[n].rv
    BY <1>1, <1>2, <1>5, <1>8 DEF RsStatus, RsReturn
<1> QED
    BY <1>6, <1>7, <1>8

(* Every step keeps the copies of RuleSets. *)
LEMMA NextRuleSetCopies == ASSUME Typed, RuleSetCopies, [Next]_vars PROVE RuleSetCopies'
<1>0. /\ cache \in Caches /\ TypeOK
      /\ ruleset \in [RuleSets -> RuleSetObjects] /\ cache.ruleset \in [RuleSets -> RuleSetObjects]
      /\ \A r \in RuleSets : ruleset[r].rv \in Nat /\ cache.ruleset[r].rv \in Nat
      /\ rs.pc # "idle" => rs.name \in RuleSets /\ rs.seen.rv \in Nat
    BY WorkIs, TypedIsTypeOK DEF Typed, ApiTyped, Caches, RuleSetObjects, RsWork
<1>1. ASSUME NEW r \in RuleSets, DeleteRuleSet(r) \/ CreateRuleSet(r) PROVE RuleSetCopies'
    <2>1. PICK there \in BOOLEAN : ruleset' = [ruleset EXCEPT ![r] = NewRuleSet(there, ruleset[r].rv + 1)]
        BY <1>0, <1>1 DEF DeleteRuleSet, CreateRuleSet
    <2>2. rs' = rs /\ cache' = cache
        BY <1>1 DEF DeleteRuleSet, CreateRuleSet
    <2>3. ruleset'[r].rv = ruleset[r].rv + 1 /\ ruleset'[r].cond = "new"
        BY <1>0, <2>1 DEF NewRuleSet
    <2>4. Older(cache.ruleset[r], ruleset'[r])
        BY <1>0, <2>3, NewVersion DEF RuleSetCopies
    <2> QED
        BY <1>0, <2>1, <2>2, <2>3, <2>4 DEF RuleSetCopies
<1>2. ASSUME NEW r \in RuleSets, SyncRuleSet(r) PROVE RuleSetCopies'
    <2>1. /\ rs' = rs /\ ruleset' = ruleset /\ cache'.ruleset = [cache.ruleset EXCEPT ![r] = ruleset[r]]
        BY <1>0, <1>2, SyncIs DEF SyncRuleSet, apiVars
    <2>2. Older(ruleset[r], ruleset[r])
        <3>1. ruleset[r].rv \in Nat
            BY <1>0
        <3> QED
            BY <3>1, SMTT(30) DEF Older
    <2>3. cache.ruleset[r].rv <= ruleset[r].rv
        BY DEF RuleSetCopies, Older
    <2>4. ASSUME rs.pc # "idle" PROVE rs.seen.rv <= cache'.ruleset[rs.name].rv
        <3>1. /\ rs.name \in RuleSets /\ rs.seen.rv <= cache.ruleset[rs.name].rv
              /\ rs.seen.rv \in Nat /\ cache.ruleset[rs.name].rv \in Nat /\ ruleset[rs.name].rv \in Nat
            BY <1>0, <2>4 DEF RuleSetCopies
        <3>2. CASE rs.name = r
            <4>1. cache'.ruleset[rs.name] = ruleset[rs.name]
                BY <1>0, <2>1, <3>2
            <4>2. rs.seen.rv <= ruleset[rs.name].rv
                BY <2>3, <3>1, <3>2, SMTT(30)
            <4> QED
                BY <4>1, <4>2
        <3>3. CASE rs.name # r
            BY <1>0, <2>1, <3>1, <3>3
        <3> QED
            BY <3>2, <3>3
    <2> QED
        BY <1>0, <2>1, <2>2, <2>4 DEF RuleSetCopies
<1>3. CASE RsStatus
    <2> DEFINE n == rs.name
    <2>1. rs.pc = "status" /\ n \in RuleSets /\ cache' = cache
        BY <1>3, RsStatusIs DEF RsStatus
    <2>2. rs'.pc # "idle" => rs'.seen = rs.seen /\ rs'.name = n
        BY <1>3, RsStatusIs, SMTT(30) DEF RsIdle
    <2>3. CASE ruleset' = ruleset
        BY <2>1, <2>2, <2>3 DEF RuleSetCopies
    <2>4. CASE ruleset' # ruleset
        <3>1. /\ cache.ruleset[n] = ruleset[n]
              /\ ruleset' = [ruleset EXCEPT ![n] =
                    [there |-> ruleset[n].there, cond |-> rs.cond, rv |-> ruleset[n].rv + 1,
                     hash |-> IF rs.bundle = None THEN ruleset[n].hash ELSE rs.bundle]]
            BY <1>3, <2>4, RsStatusIs
        <3>2. ruleset'[n].rv = ruleset[n].rv + 1 /\ ruleset'[n].there = ruleset[n].there
            BY <1>0, <2>1, <3>1
        <3>3. Older(cache.ruleset[n], ruleset'[n])
            BY <1>0, <2>1, <3>2, NewVersion DEF RuleSetCopies
        <3>4. \A r \in RuleSets : r # n => ruleset'[r] = ruleset[r]
            BY <1>0, <3>1
        <3> HIDE DEF n
        <3>5. \A r \in RuleSets : /\ Older(cache.ruleset[r], ruleset'[r])
                                  /\ ruleset'[r].there /\ ~cache.ruleset[r].there => ruleset'[r].cond = "new"
            BY <3>1, <3>2, <3>3, <3>4 DEF RuleSetCopies
        <3> QED
            BY <2>1, <2>2, <3>5 DEF RuleSetCopies, n
    <2> QED
        BY <2>3, <2>4
<1>4. ASSUME NEW r \in RuleSets, RsGet(r) PROVE RuleSetCopies'
    <2>1. ruleset' = ruleset /\ cache' = cache
        BY <1>4 DEF RsGet, apiVars
    <2>2. rs'.pc # "idle" => rs'.name = r /\ rs'.seen = cache.ruleset[r]
        BY <1>4 DEF RsGet, RsIdle
    <2> QED
        BY <1>0, <2>1, <2>2, SMTT(30) DEF RuleSetCopies
<1>5. CASE ruleset' = ruleset /\ cache'.ruleset = cache.ruleset /\ rs'.pc = "idle"
    BY <1>5 DEF RuleSetCopies
<1>6. CASE ruleset' = ruleset /\ cache'.ruleset = cache.ruleset /\ rs' = rs
    BY <1>6 DEF RuleSetCopies
<1>7. ASSUME NEW e \in Engines, RsPublish(e) PROVE RuleSetCopies'
    <2>1. ruleset' = ruleset /\ cache' = cache /\ rs.pc = "publish" /\ rs \in RsWork
        BY <1>7, WorkIs DEF RsPublish, apiVars
    <2>2. rs'.pc # "idle" => rs'.name = rs.name /\ rs'.seen = rs.seen
        BY <1>7, <2>1 DEF RsPublish, RsIdle, RsWork
    <2> QED
        BY <2>1, <2>2 DEF RuleSetCopies
<1>8. CASE OperatorRestart
    <2>1. ruleset' = ruleset /\ cache'.ruleset = ruleset /\ rs'.pc = "idle"
        BY <1>8, RestartFrame, SMTT(30) DEF Api, RsIdle
    <2> QED
        BY <1>0, <2>1, SMTT(30) DEF RuleSetCopies, Older
<1>9. CASE User
    BY <1>1, <1>6, <1>9, UserFrame DEF User, EditSource, SetRuleSetRef
<1>10. CASE Sync
    <2>1. CASE \E r \in RuleSets : SyncRuleSet(r)
        BY <1>2, <2>1
    <2>2. CASE ~\E r \in RuleSets : SyncRuleSet(r)
        <3>1. cache'.ruleset = cache.ruleset
            BY <1>0, <1>10, <2>2, SyncIs DEF Sync
        <3> QED
            BY <1>6, <1>10, <3>1, SyncFrame
    <2> QED
        BY <2>1, <2>2
<1>11. CASE RsStatusFails
    BY <1>5, <1>11 DEF RsStatusFails, RsRequeue, RsIdle, apiVars
<1>12. CASE RsStep
    BY <1>3, <1>4, <1>7, <1>12 DEF RsStep
<1> QED
    BY <1>6, <1>8, <1>9, <1>10, <1>11, <1>12, StepKinds, EngFrame, PodFrame

(* Every step keeps the copies of Engines. *)
LEMMA NextEngineCopies == ASSUME Typed, EngineCopies, [Next]_vars PROVE EngineCopies'
<1>0. /\ cache \in Caches /\ TypeOK
      /\ engine \in [Engines -> EngineObjects] /\ cache.engine \in [Engines -> EngineObjects]
      /\ \A e \in Engines : /\ engine[e].rv \in Nat /\ cache.engine[e].rv \in Nat
                            /\ engine[e].gen \in Nat /\ cache.engine[e].gen \in Nat
      /\ eng.pc # "idle" => eng.name \in Engines /\ eng.seen.rv \in Nat
    <2>1. /\ cache \in Caches /\ TypeOK /\ engine \in [Engines -> EngineObjects]
          /\ cache.engine \in [Engines -> EngineObjects]
        BY TypedIsTypeOK DEF Typed, ApiTyped, Caches
    <2>2. eng.pc # "idle" => eng.name \in Engines /\ eng.seen \in EngineObjects
        BY WorkIs DEF EngWork
    <2>3. \A o \in EngineObjects : o.rv \in Nat /\ o.gen \in Nat
        BY ControlPlaneAssumption, SMTT(30) DEF EngineObjects
    <2> QED
        BY <2>1, <2>2, <2>3
<1>1. ASSUME NEW e \in Engines, NEW r \in RuleSets, SetRuleSetRef(e, r) PROVE EngineCopies'
    <2>1. /\ eng' = eng /\ cache' = cache
          /\ engine' = [engine EXCEPT ![e] = [ref |-> r, gen |-> engine[e].gen + 1, rv |-> engine[e].rv + 1,
                                              cond |-> engine[e].cond, hash |-> engine[e].hash]]
        BY <1>0, <1>1 DEF SetRuleSetRef
    <2>2. engine'[e].rv = engine[e].rv + 1 /\ engine'[e].gen = engine[e].gen + 1
        BY <1>0, <2>1
    <2>3. Older(cache.engine[e], engine'[e])
        BY <1>0, <2>2, NewVersion DEF EngineCopies
    <2>4. cache.engine[e].gen < engine'[e].gen /\ engine'[e].gen # 0
        <3>1. /\ cache.engine[e].gen <= engine[e].gen
              /\ engine[e].gen \in Nat /\ cache.engine[e].gen \in Nat
            BY <1>0 DEF EngineCopies
        <3> QED
            BY <2>2, <3>1, SMTT(30)
    <2>5. \A x \in Engines : x # e => engine'[x] = engine[x]
        BY <1>0, <2>1
    <2>6. eng.pc # "idle" => Older(eng.seen, engine'[eng.name])
        BY <1>0, <2>2, <2>5, NewVersion, SMTT(30) DEF EngineCopies
    <2>7. \A x \in Engines :
              /\ Older(cache.engine[x], engine'[x]) /\ cache.engine[x].gen <= engine'[x].gen
              /\ cache.engine[x].gen = engine'[x].gen => cache.engine[x].ref = engine'[x].ref
              /\ engine'[x].gen = 0 => engine'[x].ref = FirstRef[x]
        <3>1. cache.engine[e].gen <= engine'[e].gen /\ cache.engine[e].gen # engine'[e].gen
            BY <1>0, <2>2, <2>4, SMTT(30)
        <3> QED
            BY <2>3, <2>4, <2>5, <3>1 DEF EngineCopies
    <2> QED
        BY <2>1, <2>6, <2>7 DEF EngineCopies
<1>2. ASSUME NEW e \in Engines, SyncEngine(e) PROVE EngineCopies'
    <2>1. eng' = eng /\ engine' = engine /\ cache'.engine = [cache.engine EXCEPT ![e] = engine[e]]
        BY <1>0, <1>2, SyncIs DEF SyncEngine, apiVars
    <2>2. Older(engine[e], engine[e]) /\ engine[e].gen <= engine[e].gen
        <3>1. engine[e].rv \in Nat /\ engine[e].gen \in Nat
            BY <1>0
        <3> QED
            BY <3>1, SMTT(30) DEF Older
    <2> QED
        BY <1>0, <2>1, <2>2 DEF EngineCopies
<1>3. ASSUME NEW e \in Engines, EngGet(e) PROVE EngineCopies'
    <2>1. engine' = engine /\ cache' = cache /\ eng'.name = e /\ eng'.seen = cache.engine[e]
        BY <1>3, EngGetIs DEF EngGet, apiVars
    <2> QED
        BY <1>0, <2>1 DEF EngineCopies
<1>4. CASE EngMark \/ EngStatus
    <2>1. eng.pc # "idle" /\ eng.name \in Engines /\ cache' = cache
        BY <1>0, <1>4 DEF EngMark, EngStatus
    <2>2. eng'.pc = "idle"
        <3>1. eng' = EngIdle
            BY <1>4 DEF EngMark, EngStatus, EngRetry, EngReturn, EngRequeueAfter
        <3> QED
            BY <3>1 DEF EngIdle
    <2>3. CASE engine' = engine
        BY <2>1, <2>2, <2>3 DEF EngineCopies
    <2>4. CASE StatusOnly(eng.name)
        <3> DEFINE n == eng.name
        <3>1. PICK w \in EngineObjects :
                  /\ engine' = [engine EXCEPT ![n] = w]
                  /\ w.ref = engine[n].ref /\ w.gen = engine[n].gen /\ w.rv = engine[n].rv + 1
            BY <2>4 DEF StatusOnly
        <3> HIDE DEF n
        <3>2. n \in Engines
            BY <2>1 DEF n
        <3>3. Older(cache.engine[n], w)
            BY <1>0, <3>1, <3>2, NewVersion DEF EngineCopies
        <3>4. engine'[n] = w /\ \A x \in Engines : x # n => engine'[x] = engine[x]
            BY <1>0, <3>1, <3>2
        <3> QED
            BY <2>1, <2>2, <3>1, <3>2, <3>3, <3>4, SMTT(30) DEF EngineCopies
    <2> QED
        BY <1>4, <2>3, <2>4, StatusWrites
<1>5. CASE engine' = engine /\ cache'.engine = cache.engine
    <2>1. CASE eng' = eng \/ eng' = EngIdle
        BY <1>5, <2>1, SMTT(30) DEF EngineCopies, EngIdle
    <2>2. CASE EngConfigMap /\ eng' = [eng EXCEPT !.pc = "deployment"]
        <3>1. eng.pc = "configmap" /\ eng \in EngWork
            BY <2>2, WorkIs DEF EngConfigMap
        <3>2. eng'.name = eng.name /\ eng'.seen = eng.seen
            BY <2>2, <3>1 DEF EngWork
        <3> QED
            BY <1>5, <3>1, <3>2 DEF EngineCopies
    <2>3. CASE EngDeployment /\ eng' = [eng EXCEPT !.pc = "status"]
        <3>1. eng.pc = "deployment" /\ eng \in EngWork
            BY <2>3, WorkIs DEF EngDeployment
        <3>2. eng'.name = eng.name /\ eng'.seen = eng.seen
            BY <2>3, <3>1 DEF EngWork
        <3> QED
            BY <1>5, <3>1, <3>2 DEF EngineCopies
    <2> QED
        BY <1>3, <2>1, <2>2, <2>3, EngMoves
<1>6. CASE OperatorRestart
    <2>1. engine' = engine /\ cache'.engine = engine /\ eng'.pc = "idle"
        BY <1>6, RestartFrame, SMTT(30) DEF Api, EngIdle
    <2> QED
        BY <1>0, <2>1, SMTT(30) DEF EngineCopies, Older
<1>7. CASE Sync
    <2>1. CASE \E e \in Engines : SyncEngine(e)
        BY <1>2, <2>1
    <2>2. CASE ~\E e \in Engines : SyncEngine(e)
        <3>1. cache'.engine = cache.engine
            BY <1>0, <1>7, <2>2, SyncIs DEF Sync
        <3> QED
            BY <1>5, <1>7, <3>1, SyncFrame
    <2> QED
        BY <2>1, <2>2
<1>8. \/ engine' = engine \/ EngMark \/ EngStatus
      \/ \E e \in Engines, r \in RuleSets : SetRuleSetRef(e, r)
    BY EngineSteps
<1> QED
    BY <1>1, <1>4, <1>5, <1>6, <1>7, <1>8, StepKinds, UserFrame, RsFrame, EngFrame, PodFrame

(* What the step of the ConfigMap does: it is written when the cached one is    *)
(* another, and then it is there.                                               *)
LEMMA MapWrites ==
    ASSUME Typed, ObjectCopies, EngConfigMap
    PROVE  /\ eng.pc = "configmap" /\ eng.name \in Engines /\ eng.bundle \in Bundle
           /\ \/ /\ configMap' = configMap /\ eng' = EngIdle
                 /\ engQueue' = engQueue \cup {eng.name}
              \/ /\ eng' = [eng EXCEPT !.pc = "deployment"] /\ configMap'[eng.name] # None
                 /\ \/ configMap' = configMap /\ cache.configMap[eng.name] = eng.bundle
                    \/ /\ configMap' = [configMap EXCEPT ![eng.name] = eng.bundle]
                       /\ cache.configMap[eng.name] # eng.bundle
<1> DEFINE e == eng.name
           b == eng.bundle
<1>1. eng.pc = "configmap" /\ e \in Engines /\ b \in Bundle
    <2>1. eng \in EngWork /\ eng.pc = "configmap"
        BY WorkIs DEF EngConfigMap
    <2> QED
        BY <2>1 DEF EngWork, Typed, EngTyped
<1>2. /\ configMap \in [Engines -> Bundle \cup {None}] /\ None \notin Bundle
      /\ cache.configMap[e] # None => configMap[e] # None
    BY <1>1, ControlPlaneAssumption DEF Typed, ApiTyped, ObjectCopies
<1>3. CASE cache.configMap[e] = None /\ configMap[e] # None
    BY <1>1, <1>3 DEF EngConfigMap, EngRetry
<1>4. CASE ~(cache.configMap[e] = None /\ configMap[e] # None)
    <2>1. /\ eng' = [eng EXCEPT !.pc = "deployment"]
          /\ configMap' = IF cache.configMap[e] = b THEN configMap ELSE [configMap EXCEPT ![e] = b]
        BY <1>4 DEF EngConfigMap, EngGoto
    <2>2. configMap'[e] # None
        BY <1>1, <1>2, <2>1
    <2> QED
        BY <1>1, <2>1, <2>2
<1> QED
    BY <1>3, <1>4

(* Every step keeps the copies of ConfigMaps and Deployments. *)
LEMMA NextObjectCopies == ASSUME Typed, ObjectCopies, [Next]_vars PROVE ObjectCopies'
<1>0. /\ cache \in Caches /\ TypeOK
      /\ configMap \in [Engines -> Bundle \cup {None}] /\ deploy \in [Engines -> DeployObjects \cup {None}]
      /\ cache.configMap \in [Engines -> Bundle \cup {None}]
      /\ cache.deploy \in [Engines -> DeployObjects \cup {None}]
      /\ None \notin DeployObjects
    BY TypedIsTypeOK, ControlPlaneAssumption DEF Typed, ApiTyped, Caches
<1>1. eng'.pc \in {"deployment", "status"} => configMap'[eng'.name] # None
    <2>1. CASE eng' = EngIdle
        BY <2>1 DEF EngIdle
    <2>2. CASE \E e \in Engines : EngGet(e)
        BY <2>2, EngGetIs
    <2>3. CASE EngConfigMap
        <3>1. eng \in EngWork
            BY <2>3, WorkIs DEF EngConfigMap
        <3> QED
            BY <2>1, <2>3, <3>1, MapWrites DEF EngWork
    <2>4. CASE EngDeployment /\ eng' = [eng EXCEPT !.pc = "status"]
        <3>1. eng.pc = "deployment" /\ eng \in EngWork /\ configMap' = configMap
            BY <2>4, WorkIs DEF EngDeployment
        <3>2. eng'.name = eng.name
            BY <2>4, <3>1 DEF EngWork
        <3> QED
            BY <3>1, <3>2 DEF ObjectCopies
    <2>5. CASE eng' = eng /\ configMap' = configMap
        BY <2>5 DEF ObjectCopies
    <2> QED
        BY <2>1, <2>2, <2>3, <2>4, <2>5, EngMoves, ObjectSteps
<1> SUFFICES ASSUME NEW e \in Engines
             PROVE  /\ cache'.configMap[e] # None => configMap'[e] # None
                    /\ cache'.deploy[e] # None =>
                          deploy'[e] # None /\ (cache'.deploy[e].ready => deploy'[e].ready)
                    /\ deploy'[e] # None => configMap'[e] # None
    BY <1>1 DEF ObjectCopies
<1>2. configMap[e] # None => configMap'[e] # None
    <2>1. CASE EngConfigMap
        BY <1>0, <2>1, MapWrites, ControlPlaneAssumption
    <2> QED
        BY <2>1, ObjectSteps
<1>3. /\ deploy[e] # None => deploy'[e] # None /\ (deploy[e].ready => deploy'[e].ready)
      /\ deploy'[e] # None => configMap'[e] # None
    <2>0. deploy[e] # None => configMap'[e] # None
        BY <1>2 DEF ObjectCopies
    <2>1. CASE deploy' = deploy
        BY <2>0, <2>1
    <2>2. ASSUME NEW x \in Engines, PodReady(x)
          PROVE  deploy[e] # None => deploy'[e] # None /\ (deploy[e].ready => deploy'[e].ready)
        <3>1. deploy' = [deploy EXCEPT ![x] = [hash |-> deploy[x].hash, ready |-> TRUE]] /\ deploy[x] # None
            BY <1>0, <2>2 DEF PodReady
        <3>2. [hash |-> deploy[x].hash, ready |-> TRUE] \in DeployObjects
            BY <1>0, <3>1 DEF DeployObjects
        <3> QED
            BY <1>0, <3>1, <3>2
    <2>3. ASSUME NEW x \in Engines, PodReady(x) PROVE deploy'[e] # None => deploy[e] # None
        BY <1>0, <2>3 DEF PodReady
    <2>4. CASE EngDeployment
        <3>1. eng.pc = "deployment" /\ configMap' = configMap /\ configMap[eng.name] # None
            BY <2>4 DEF EngDeployment, ObjectCopies
        <3> QED
            BY <1>0, <2>0, <2>4, <3>1, DeployWrites
    <2> QED
        BY <2>0, <2>1, <2>2, <2>3, <2>4, ObjectSteps
<1>4. /\ cache.configMap[e] # None => configMap[e] # None
      /\ cache.deploy[e] # None => deploy[e] # None /\ (cache.deploy[e].ready => deploy[e].ready)
    BY DEF ObjectCopies
<1>5. /\ cache'.configMap[e] = cache.configMap[e] \/ (cache'.configMap[e] = configMap[e] /\ configMap' = configMap)
      /\ cache'.deploy[e] = cache.deploy[e] \/ (cache'.deploy[e] = deploy[e] /\ deploy' = deploy)
    <2>1. CASE Sync
        <3>1. configMap' = configMap /\ deploy' = deploy
            BY <2>1, SyncFrame
        <3>2. \/ cache'.configMap = cache.configMap
              \/ \E x \in Engines : cache'.configMap = [cache.configMap EXCEPT ![x] = configMap[x]]
            BY <1>0, <2>1, SyncIs DEF Sync
        <3>3. \/ cache'.deploy = cache.deploy
              \/ \E x \in Engines : cache'.deploy = [cache.deploy EXCEPT ![x] = deploy[x]]
            BY <1>0, <2>1, SyncIs DEF Sync
        <3> QED
            BY <1>0, <3>1, <3>2, <3>3
    <2>2. CASE OperatorRestart
        <3>1. cache' = Api /\ configMap' = configMap /\ deploy' = deploy
            BY <2>2, RestartFrame
        <3>2. cache'.configMap = configMap /\ cache'.deploy = deploy
            BY <3>1 DEF Api
        <3> QED
            BY <3>1, <3>2
    <2> QED
        BY <2>1, <2>2, StepKinds, UserFrame, RsFrame, EngFrame, PodFrame
<1> QED
    BY <1>2, <1>3, <1>4, <1>5



-----------------------------------------------------------------------------
(* RuleSets *)

(* When the text of a source arrives, the RuleSets that have it are queued. *)
LEMMA SourceSynced ==
    ASSUME Typed, NEW s \in Sources, SyncSource(s), NEW r \in RuleSets
    PROVE  /\ rsQueue \subseteq rsQueue' /\ cache'.ruleset = cache.ruleset
           /\ \/ r \in rsQueue' \/ ~cache.ruleset[r].there
              \/ /\ Compile(cache'.source, r) = Compile(cache.source, r)
                 /\ Compiles(cache'.source, r) <=> Compiles(cache.source, r)
<1>1. /\ cache \in Caches /\ TypeOK /\ cache.source \in [Sources -> SourceObjects]
      /\ Refs[r] \in Seq(Sources)
    BY TypedIsTypeOK, ControlPlaneAssumption DEF Typed, Caches
<1>2. cache'.source = [cache.source EXCEPT ![s] = source[s]] /\ cache'.ruleset = cache.ruleset
    BY <1>1, SyncIs
<1>3. rsQueue' = rsQueue \cup {x \in RuleSets : /\ cache.ruleset[x].there
                                              /\ \E i \in DOMAIN Refs[x] : Refs[x][i] = s}
    BY DEF SyncSource
<1>4. ASSUME \A i \in DOMAIN Refs[r] : Refs[r][i] # s
      PROVE  /\ Compile(cache'.source, r) = Compile(cache.source, r)
             /\ Compiles(cache'.source, r) <=> Compiles(cache.source, r)
    <2>1. \A i \in DOMAIN Refs[r] : cache'.source[Refs[r][i]] = cache.source[Refs[r][i]]
        BY <1>1, <1>2, <1>4, SMTT(30)
    <2> QED
        BY <2>1, CompileLocal
<1> QED
    BY <1>2, <1>3, <1>4

(* What the other watch events do to the RuleSet controller. *)
LEMMA OtherSync ==
    ASSUME Typed, NEW e \in Engines, SyncEngine(e) \/ SyncConfigMap(e) \/ SyncDeployment(e)
    PROVE  /\ cache'.source = cache.source /\ cache'.ruleset = cache.ruleset
           /\ rsQueue' = rsQueue
<1>1. cache \in Caches /\ TypeOK
    BY TypedIsTypeOK DEF Typed
<1>2. cache'.source = cache.source /\ cache'.ruleset = cache.ruleset
    BY <1>1, SyncIs
<1>3. rsQueue' = rsQueue
    BY DEF SyncEngine, SyncConfigMap, SyncDeployment
<1> QED
    BY <1>2, <1>3

(* What the sync of a RuleSet does. *)
LEMMA RuleSetSynced ==
    ASSUME Typed, NEW x \in RuleSets, SyncRuleSet(x)
    PROVE  /\ cache'.source = cache.source /\ cache'.engine = cache.engine
           /\ cache'.ruleset = [cache.ruleset EXCEPT ![x] = ruleset[x]]
           /\ rsQueue \subseteq rsQueue' /\ engQueue' = engQueue \cup EnginesFor(x)
           /\ ruleset[x].cond = "new" \/ ~ruleset[x].there => x \in rsQueue'
           /\ cache.ruleset \in [RuleSets -> RuleSetObjects]
<1>1. cache \in Caches /\ TypeOK /\ cache.ruleset \in [RuleSets -> RuleSetObjects]
    BY TypedIsTypeOK DEF Typed, Caches
<1>2. /\ cache'.source = cache.source /\ cache'.engine = cache.engine
      /\ cache'.ruleset = [cache.ruleset EXCEPT ![x] = ruleset[x]]
    BY <1>1, SyncIs
<1>3. /\ rsQueue \subseteq rsQueue' /\ engQueue' = engQueue \cup EnginesFor(x)
      /\ ruleset[x].cond = "new" \/ ~ruleset[x].there => x \in rsQueue'
    BY DEF SyncRuleSet
<1> QED
    BY <1>1, <1>2, <1>3

(* What taking a request does. *)
LEMMA RsGetIs ==
    ASSUME NEW x \in RuleSets, RsGet(x)
    PROVE  /\ rs.pc = "idle" /\ rsQueue' = rsQueue \ {x}
           /\ UNCHANGED <<source, ruleset, engine, cache, engQueue>>
           /\ \/ ~cache.ruleset[x].there /\ rs' = RsIdle
              \/ /\ cache.ruleset[x].there /\ rs'.pc = "status" /\ rs'.name = x
                 /\ rs'.bundle = Compile(cache.source, x)
BY DEF RsGet, apiVars

(* No RuleSet is forgotten. *)
LEMMA NextRuleSetInv ==
    ASSUME Typed, RuleSetCopies, RsStaleInv, [Next]_vars, NEW r \in RuleSets, RuleSetInv(r)
    PROVE  RuleSetInv(r)'
<1>0. /\ ruleset \in [RuleSets -> RuleSetObjects] /\ cache.ruleset \in [RuleSets -> RuleSetObjects]
      /\ cache.source \in [Sources -> SourceObjects]
      /\ ruleset[r].rv \in Nat /\ cache.ruleset[r].rv \in Nat
    BY DEF Typed, ApiTyped, Caches, RuleSetObjects
<1>1. ASSUME UNCHANGED <<ruleset, rs>>, cache'.source = cache.source, cache'.ruleset = cache.ruleset,
             rsQueue' = rsQueue
      PROVE  RuleSetInv(r)'
    BY <1>1 DEF RuleSetInv, RsDue
<1>2. ASSUME NEW x \in RuleSets, DeleteRuleSet(x) \/ CreateRuleSet(x) PROVE RuleSetInv(r)'
    <2>1. PICK there \in BOOLEAN : ruleset' = [ruleset EXCEPT ![x] = NewRuleSet(there, ruleset[x].rv + 1)]
        BY <1>0, <1>2 DEF DeleteRuleSet, CreateRuleSet
    <2>2. rs' = rs /\ cache' = cache /\ rsQueue' = rsQueue
        BY <1>2 DEF DeleteRuleSet, CreateRuleSet, queues
    <2>3. CASE x = r
        <3>1. ruleset'[r].rv = ruleset[r].rv + 1 /\ ruleset'[r].cond = "new"
            BY <1>0, <2>1, <2>3 DEF NewRuleSet
        <3>2. cache.ruleset[r] # ruleset'[r]
            BY <1>0, <3>1, NewVersion DEF RuleSetCopies
        <3> QED
            BY <2>2, <3>1, <3>2 DEF RuleSetInv
    <2>4. CASE x # r
        <3>1. ruleset'[r] = ruleset[r]
            BY <1>0, <2>1, <2>4
        <3> QED
            BY <2>2, <3>1 DEF RuleSetInv, RsDue
    <2> QED
        BY <2>3, <2>4
<1>3. ASSUME NEW s \in Sources, SyncSource(s) PROVE RuleSetInv(r)'
    <2>1. rs' = rs /\ ruleset' = ruleset
        BY <1>3 DEF SyncSource, apiVars
    <2>2. CASE r \in rsQueue'
        BY <2>2 DEF RuleSetInv, RsDue
    <2>3. CASE ~cache.ruleset[r].there
        BY <1>3, <2>1, <2>3, SourceSynced DEF RuleSetInv, RuleSetCopies
    <2>4. CASE /\ Compile(cache'.source, r) = Compile(cache.source, r)
               /\ Compiles(cache'.source, r) <=> Compiles(cache.source, r)
        BY <1>3, <2>1, <2>4, SourceSynced DEF RuleSetInv, RsDue
    <2> QED
        BY <1>3, <2>2, <2>3, <2>4, SourceSynced
<1>4. ASSUME NEW x \in RuleSets, SyncRuleSet(x) PROVE RuleSetInv(r)'
    <2>1. rs' = rs /\ ruleset' = ruleset
        BY <1>4 DEF SyncRuleSet, apiVars
    <2>2. CASE x = r
        BY <1>4, <2>1, <2>2, RuleSetSynced DEF RuleSetInv, RsDue
    <2>3. CASE x # r
        <3>1. cache'.ruleset[r] = cache.ruleset[r]
            BY <1>4, <2>3, RuleSetSynced
        <3> QED
            BY <1>4, <2>1, <3>1, RuleSetSynced DEF RuleSetInv, RsDue
    <2> QED
        BY <2>2, <2>3
<1>5. CASE Sync
    <2>1. CASE \E e \in Engines : SyncEngine(e) \/ SyncConfigMap(e) \/ SyncDeployment(e)
        BY <1>1, <1>5, <2>1, OtherSync, SyncFrame
    <2> QED
        BY <1>3, <1>4, <1>5, <2>1 DEF Sync
<1>6. ASSUME NEW x \in RuleSets, RsGet(x) PROVE RuleSetInv(r)'
    <2>1. CASE x = r
        BY <1>6, <2>1, RsGetIs DEF RuleSetInv, RsDue, RuleSetCopies
    <2>2. CASE x # r
        BY <1>6, <2>2, RsGetIs DEF RuleSetInv, RsDue
    <2> QED
        BY <2>1, <2>2
<1>7. CASE RsStatus
    <2> DEFINE n == rs.name
    <2>1. rs.pc = "status" /\ n \in RuleSets /\ cache' = cache
        BY <1>7, RsStatusIs DEF RsStatus
    <2>2. Compile(cache.source, r) # None <=> Compiles(cache.source, r)
        BY <1>0, CompileType
    <2>3. CASE n # r
        <3>1. ruleset'[r] = ruleset[r] /\ rsQueue \subseteq rsQueue'
            BY <1>0, <1>7, <2>1, <2>3, RsStatusIs
        <3> QED
            BY <2>1, <2>3, <3>1 DEF RuleSetInv, RsDue
    <2>4. CASE n = r /\ rs.bundle = None /\ UNCHANGED <<ruleset, rsQueue>>
        BY <2>1, <2>2, <2>4 DEF RuleSetInv, RsDue
    <2>5. CASE n = r /\ rsQueue' = rsQueue \cup {n}
        BY <2>5 DEF RuleSetInv, RsDue
    <2>6. ASSUME n = r, cache.ruleset[r] = ruleset[r], rsQueue' = rsQueue,
                 ruleset' = [ruleset EXCEPT ![r] =
                    [there |-> ruleset[r].there, cond |-> rs.cond, rv |-> ruleset[r].rv + 1,
                     hash |-> IF rs.bundle = None THEN ruleset[r].hash ELSE rs.bundle]]
          PROVE  RuleSetInv(r)'
        <3>1. /\ ruleset'[r].there = ruleset[r].there /\ ruleset'[r].cond = rs.cond
              /\ ruleset'[r].hash = IF rs.bundle = None THEN ruleset[r].hash ELSE rs.bundle
            BY <1>0, <2>6
        <3>2. rs.bundle # None => rs.cond = "ready"
            BY <2>1 DEF Typed, RsTyped
        <3>3. r \in rsQueue \/ ~ruleset[r].there \/ rs.bundle = Compile(cache.source, r)
            BY <2>1, <2>6 DEF RsStaleInv
        <3> QED
            BY <2>1, <2>2, <2>6, <3>1, <3>2, <3>3 DEF RuleSetInv, RsDue
    <2> QED
        BY <1>7, <2>3, <2>4, <2>5, <2>6, RsStatusIs
<1>8. ASSUME NEW e \in Engines, RsPublish(e) PROVE RuleSetInv(r)'
    <2>1. UNCHANGED <<ruleset, cache, rsQueue>> /\ rs.pc = "publish"
        BY <1>8 DEF RsPublish, apiVars, queues
    <2> QED
        BY <2>1 DEF RuleSetInv, RsDue
<1>9. CASE RsStatusFails
    <2>1. UNCHANGED <<ruleset, cache>> /\ rsQueue' = rsQueue \cup {rs.name}
        BY <1>9 DEF RsStatusFails, RsRequeue, apiVars
    <2> QED
        BY <2>1 DEF RuleSetInv, RsDue
<1>10. CASE OperatorRestart
    BY <1>10, RestartFrame DEF RuleSetInv, RsDue
<1>11. CASE User
    BY <1>1, <1>2, <1>11, UserFrame DEF User, EditSource, SetRuleSetRef
<1>12. CASE RsStep
    BY <1>6, <1>7, <1>8, <1>12 DEF RsStep
<1> QED
    BY <1>1, <1>5, <1>9, <1>10, <1>11, <1>12, StepKinds, EngFrame, PodFrame

(* A RuleSet reconcile that holds an old bundle is followed by another. *)
LEMMA NextRsStaleInv ==
    ASSUME Typed, RuleSetCopies, RsStaleInv, [Next]_vars
    PROVE  RsStaleInv'
<1> DEFINE n == rs.name
<1>0. rs.pc # "idle" => n \in RuleSets
    BY WorkIs DEF RsWork
<1>1. ASSUME rs' = rs, cache'.source = cache.source, cache'.ruleset = cache.ruleset, rsQueue' = rsQueue
      PROVE  RsStaleInv'
    BY <1>1 DEF RsStaleInv
<1>2. ASSUME NEW s \in Sources, SyncSource(s) PROVE RsStaleInv'
    BY <1>0, <1>2, SourceSynced, SyncFrame DEF RsStaleInv, Sync
<1>3. ASSUME NEW x \in RuleSets, SyncRuleSet(x) PROVE RsStaleInv'
    <2>1. rs' = rs
        BY <1>3 DEF SyncRuleSet
    <2>2. CASE rs.pc # "idle" /\ x = n
        <3>1. ruleset[n].there /\ ~cache.ruleset[n].there => n \in rsQueue'
            BY <1>0, <1>3, <2>2, RuleSetSynced DEF RuleSetCopies
        <3>2. cache'.ruleset[n] = ruleset[n]
            BY <1>0, <1>3, <2>2, RuleSetSynced
        <3> QED
            BY <1>3, <2>1, <2>2, <3>1, <3>2, RuleSetSynced DEF RsStaleInv
    <2>3. CASE rs.pc # "idle" /\ x # n
        <3>1. cache'.ruleset[n] = cache.ruleset[n]
            BY <1>0, <1>3, <2>3, RuleSetSynced
        <3> QED
            BY <1>3, <2>1, <3>1, RuleSetSynced DEF RsStaleInv
    <2>4. CASE rs.pc = "idle"
        BY <2>1, <2>4 DEF RsStaleInv
    <2> QED
        BY <2>2, <2>3, <2>4
<1>4. CASE Sync
    <2>1. CASE \E e \in Engines : SyncEngine(e) \/ SyncConfigMap(e) \/ SyncDeployment(e)
        BY <1>1, <1>4, <2>1, OtherSync, SyncFrame
    <2> QED
        BY <1>2, <1>3, <1>4, <2>1 DEF Sync
<1>5. CASE rs' = RsIdle
    BY <1>5 DEF RsStaleInv, RsIdle
<1>6. ASSUME NEW x \in RuleSets, RsGet(x) PROVE RsStaleInv'
    BY <1>5, <1>6, RsGetIs DEF RsStaleInv
<1>7. CASE RsStatus
    <2>1. CASE rs' # RsIdle
        <3>1. rs'.name = n /\ rs'.bundle = rs.bundle /\ rsQueue' = rsQueue /\ cache' = cache /\ rs.pc = "status"
            BY <1>7, <2>1, RsStatusIs, SMTT(30) DEF RsStatus
        <3> QED
            BY <3>1 DEF RsStaleInv
    <2> QED
        BY <1>5, <2>1
<1>8. ASSUME NEW e \in Engines, RsPublish(e) PROVE RsStaleInv'
    <2>1. UNCHANGED <<cache, rsQueue>> /\ rs.pc = "publish" /\ rs \in RsWork
        BY <1>8, WorkIs DEF RsPublish, queues
    <2>2. rs' = RsIdle \/ (rs'.name = rs.name /\ rs'.bundle = rs.bundle)
        BY <1>8, <2>1 DEF RsPublish, RsWork
    <2> QED
        BY <1>5, <2>1, <2>2 DEF RsStaleInv
<1>9. CASE RsStatusFails
    BY <1>5, <1>9 DEF RsStatusFails, RsRequeue
<1>10. CASE RsStep
    BY <1>6, <1>7, <1>8, <1>10 DEF RsStep
<1> QED
    BY <1>1, <1>4, <1>5, <1>9, <1>10, StepKinds, UserFrame, EngFrame, PodFrame, RestartFrame

-----------------------------------------------------------------------------
(* Engines *)

(* The reason to reconcile an Engine again lasts until a reconcile starts, and *)
(* there is one whenever what the Engine should run changes.                   *)
DueKept(e) ==
    /\ EngDue(e)' \/ CachedDesired(e)' = CachedDesired(e)
    /\ EngDue(e) => EngDue(e)' \/ EngGet(e)

(* The types of what an Engine is reconciled from. *)
LEMMA EngineReads ==
    ASSUME Typed, NEW e \in Engines
    PROVE  LET r == cache.engine[e].ref IN
           /\ r \in RuleSets /\ cache \in Caches /\ TypeOK
           /\ cache.engine \in [Engines -> EngineObjects] /\ engine \in [Engines -> EngineObjects]
           /\ ruleset \in [RuleSets -> RuleSetObjects] /\ cache.ruleset \in [RuleSets -> RuleSetObjects]
           /\ ruleset[r].rv \in Nat /\ cache.ruleset[r].rv \in Nat
           /\ engine[e].gen \in Nat /\ cache.engine[e].gen \in Nat
<1>1. /\ cache \in Caches /\ TypeOK
      /\ engine \in [Engines -> EngineObjects] /\ ruleset \in [RuleSets -> RuleSetObjects]
    BY TypedIsTypeOK DEF Typed, ApiTyped
<1>2. cache.engine \in [Engines -> EngineObjects] /\ cache.ruleset \in [RuleSets -> RuleSetObjects]
    BY <1>1 DEF Caches
<1>3. /\ cache.engine[e].ref \in RuleSets
      /\ engine[e].gen \in Nat /\ cache.engine[e].gen \in Nat
    BY <1>1, <1>2, SMTT(30) DEF EngineObjects
<1>4. \A r \in RuleSets : ruleset[r].rv \in Nat /\ cache.ruleset[r].rv \in Nat
    BY <1>1, <1>2 DEF RuleSetObjects
<1> QED
    BY <1>1, <1>2, <1>3, <1>4

(* A new version of the RuleSet that the cache has not seen is a reason. *)
LEMMA DueVersion ==
    ASSUME Typed, RuleSetCopies, NEW e \in Engines, cache' = cache,
           ruleset'[cache.engine[e].ref].rv = ruleset[cache.engine[e].ref].rv + 1
    PROVE  DueKept(e)
<1> DEFINE r == cache.engine[e].ref
<1>1. r \in RuleSets /\ ruleset[r].rv \in Nat /\ cache.ruleset[r].rv \in Nat
    BY EngineReads
<1>2. Older(cache.ruleset[r], ruleset[r])
    BY <1>1 DEF RuleSetCopies
<1>3. cache.ruleset[r] # ruleset'[r]
    BY <1>1, <1>2, NewVersion
<1>4. EngDue(e)'
    BY <1>3 DEF EngDue
<1> QED
    BY <1>4 DEF DueKept

(* So is being in the queue. *)
LEMMA DueQueued ==
    ASSUME NEW e, e \in engQueue'
    PROVE  DueKept(e)
BY DEF DueKept, EngDue

(* A step that touches none of the reasons. *)
LEMMA DueUntouched ==
    ASSUME NEW e, cache' = cache, engine'[e].gen = engine[e].gen,
           ruleset'[cache.engine[e].ref] = ruleset[cache.engine[e].ref],
           RsDue(cache.engine[e].ref) => RsDue(cache.engine[e].ref)',
           e \in engQueue => e \in engQueue' \/ EngGet(e)
    PROVE  DueKept(e)
<1>1. CachedDesired(e)' = CachedDesired(e)
    BY DEF CachedDesired
<1>2. EngDue(e) => EngDue(e)' \/ EngGet(e)
    BY <1>1 DEF EngDue, RsDue
<1> QED
    BY <1>1, <1>2 DEF DueKept

(* What users change reaches the Engine through the watches. *)
LEMMA DueUser ==
    ASSUME Typed, RuleSetCopies, EngineCopies, NEW e \in Engines, User
    PROVE  DueKept(e)
<1> DEFINE r == cache.engine[e].ref
<1>0. /\ r \in RuleSets /\ cache \in Caches /\ TypeOK
      /\ cache.engine \in [Engines -> EngineObjects] /\ engine \in [Engines -> EngineObjects]
      /\ ruleset \in [RuleSets -> RuleSetObjects] /\ cache.ruleset \in [RuleSets -> RuleSetObjects]
      /\ ruleset[r].rv \in Nat /\ cache.ruleset[r].rv \in Nat
      /\ engine[e].gen \in Nat /\ cache.engine[e].gen \in Nat
    BY EngineReads
<1>1. ASSUME NEW x \in RuleSets, DeleteRuleSet(x) \/ CreateRuleSet(x) PROVE DueKept(e)
    <2>1. PICK there \in BOOLEAN : ruleset' = [ruleset EXCEPT ![x] = NewRuleSet(there, ruleset[x].rv + 1)]
        BY <1>0, <1>1 DEF DeleteRuleSet, CreateRuleSet
    <2>2. UNCHANGED <<engine, cache, rs, rsQueue, engQueue>>
        BY <1>1 DEF DeleteRuleSet, CreateRuleSet, queues
    <2>3. CASE x = r
        <3>1. ruleset'[r].rv = ruleset[r].rv + 1
            BY <1>0, <2>1, <2>3 DEF NewRuleSet
        <3> QED
            BY <2>2, <3>1, DueVersion
    <2>4. CASE x # r
        <3>1. ruleset'[r] = ruleset[r]
            BY <1>0, <2>1, <2>4
        <3> QED
            BY <2>2, <3>1, DueUntouched DEF RsDue
    <2> QED
        BY <2>3, <2>4
<1>2. ASSUME NEW x \in Engines, NEW q \in RuleSets, SetRuleSetRef(x, q) PROVE DueKept(e)
    <2>1. UNCHANGED <<ruleset, cache, rs, rsQueue, engQueue>>
        BY <1>2 DEF SetRuleSetRef, queues
    <2>2. CASE x = e
        <3>1. engine'[e].gen = engine[e].gen + 1
            BY <1>0, <1>2, <2>2 DEF SetRuleSetRef
        <3>2. cache.engine[e].gen <= engine[e].gen
            BY DEF EngineCopies
        <3>3. cache.engine[e].gen # engine'[e].gen
            BY <1>0, <3>1, <3>2, SMTT(30)
        <3>4. EngDue(e)'
            BY <2>1, <3>3 DEF EngDue
        <3> QED
            BY <3>4 DEF DueKept
    <2>3. CASE x # e
        <3>1. engine'[e] = engine[e]
            BY <1>0, <1>2, <2>3 DEF SetRuleSetRef
        <3> QED
            BY <2>1, <3>1, DueUntouched DEF RsDue
    <2> QED
        BY <2>2, <2>3
<1>3. ASSUME NEW s \in Sources, NEW t, EditSource(s, t) PROVE DueKept(e)
    <2>1. UNCHANGED <<engine, ruleset, cache, rs, rsQueue, engQueue>>
        BY <1>3 DEF EditSource, queues
    <2> QED
        BY <2>1, DueUntouched DEF RsDue
<1> QED
    BY <1>1, <1>2, <1>3 DEF User

(* What the watches deliver queues the Engine, or the RuleSet it depends on. *)
LEMMA DueSync ==
    ASSUME Typed, RuleSetCopies, EngineCopies, NEW e \in Engines, Sync
    PROVE  DueKept(e)
<1> DEFINE r == cache.engine[e].ref
<1>0. /\ r \in RuleSets /\ cache \in Caches /\ TypeOK
      /\ cache.engine \in [Engines -> EngineObjects] /\ engine \in [Engines -> EngineObjects]
      /\ ruleset \in [RuleSets -> RuleSetObjects] /\ cache.ruleset \in [RuleSets -> RuleSetObjects]
      /\ ruleset[r].rv \in Nat /\ cache.ruleset[r].rv \in Nat
      /\ engine[e].gen \in Nat /\ cache.engine[e].gen \in Nat
    BY EngineReads
<1>1. ASSUME NEW s \in Sources, SyncSource(s) PROVE DueKept(e)
    <2>1. UNCHANGED <<engine, ruleset, rs, engQueue>> /\ cache'.engine = cache.engine
        BY <1>0, <1>1, SyncIs DEF SyncSource, apiVars
    <2>2. rsQueue \subseteq rsQueue' /\ cache'.ruleset = cache.ruleset
        BY <1>0, <1>1, SourceSynced
    <2>3. CASE r \in rsQueue'
        <3>1. EngDue(e)'
            BY <2>1, <2>3 DEF EngDue, RsDue
        <3> QED
            BY <3>1 DEF DueKept
    <2>4. CASE ~cache.ruleset[r].there
        <3>1. CachedDesired(e)' = None
            BY <2>1, <2>2, <2>4 DEF CachedDesired
        <3> QED
            BY <3>1 DEF DueKept, EngDue
    <2>5. CASE Compile(cache'.source, r) = Compile(cache.source, r)
        <3>1. CachedDesired(e)' = CachedDesired(e)
            BY <2>1, <2>2, <2>5 DEF CachedDesired
        <3>2. RsDue(r) => RsDue(cache.engine[e].ref)'
            BY <2>1, <2>2, <2>5 DEF RsDue
        <3>3. EngDue(e) => EngDue(e)'
            BY <2>1, <2>2, <3>1, <3>2 DEF EngDue
        <3> QED
            BY <3>1, <3>3 DEF DueKept
    <2> QED
        BY <1>0, <1>1, <2>3, <2>4, <2>5, SourceSynced
<1>2. ASSUME NEW x \in RuleSets, SyncRuleSet(x) PROVE DueKept(e)
    <2>1. CASE x = r
        <3>1. e \in engQueue'
            BY <1>2, <2>1, RuleSetSynced DEF EnginesFor
        <3> QED
            BY <3>1, DueQueued
    <2>2. CASE x # r
        <3>1. cache'.ruleset = [cache.ruleset EXCEPT ![x] = ruleset[x]]
            BY <1>2, RuleSetSynced
        <3>2. UNCHANGED <<engine, ruleset, rs>> /\ cache'.ruleset[r] = cache.ruleset[r]
            BY <1>0, <1>2, <2>2, <3>1 DEF SyncRuleSet, apiVars
        <3>3. /\ cache'.source = cache.source /\ cache'.engine = cache.engine
              /\ rsQueue \subseteq rsQueue' /\ engQueue \subseteq engQueue'
            BY <1>2, RuleSetSynced
        <3>4. CachedDesired(e)' = CachedDesired(e)
            BY <3>2, <3>3 DEF CachedDesired
        <3>5. RsDue(r) => RsDue(cache.engine[e].ref)'
            BY <3>2, <3>3 DEF RsDue
        <3>6. EngDue(e) => EngDue(e)'
            BY <3>2, <3>3, <3>4, <3>5 DEF EngDue
        <3> QED
            BY <3>4, <3>6 DEF DueKept
    <2> QED
        BY <2>1, <2>2
<1>3. ASSUME cache'.engine[e].ref = r, cache'.source = cache.source, cache'.ruleset = cache.ruleset,
             UNCHANGED <<engine, ruleset, rs, rsQueue>>, engQueue \subseteq engQueue',
             cache.engine[e].gen # engine[e].gen => cache'.engine[e].gen # engine[e].gen
      PROVE  DueKept(e)
    <2>1. CachedDesired(e)' = CachedDesired(e)
        BY <1>3 DEF CachedDesired
    <2>2. RsDue(r) => RsDue(cache.engine[e].ref)'
        BY <1>3 DEF RsDue
    <2>3. EngDue(e) => EngDue(e)'
        BY <1>3, <2>1, <2>2 DEF EngDue
    <2> QED
        BY <2>1, <2>3 DEF DueKept
<1>4. ASSUME NEW x \in Engines, SyncEngine(x) PROVE DueKept(e)
    <2>1. /\ UNCHANGED <<engine, ruleset, rs, rsQueue>> /\ engQueue \subseteq engQueue'
          /\ cache.engine[x].gen # engine[x].gen => x \in engQueue'
        BY <1>4 DEF SyncEngine, apiVars
    <2>2. /\ cache'.engine = [cache.engine EXCEPT ![x] = engine[x]]
          /\ cache'.source = cache.source /\ cache'.ruleset = cache.ruleset
        BY <1>0, <1>4, SyncIs
    <2>3. CASE x = e /\ cache.engine[e].gen = engine[e].gen
        <3>1. cache'.engine[e] = engine[e] /\ engine[e].ref = r
            BY <1>0, <2>2, <2>3 DEF EngineCopies
        <3> QED
            BY <1>3, <2>1, <2>2, <2>3, <3>1
    <2>4. CASE x # e
        <3>1. cache'.engine[e] = cache.engine[e]
            BY <1>0, <2>2, <2>4
        <3> QED
            BY <1>3, <2>1, <2>2, <3>1
    <2>5. CASE x = e /\ cache.engine[e].gen # engine[e].gen
        BY <2>1, <2>5, DueQueued
    <2> QED
        BY <2>3, <2>4, <2>5
<1>5. ASSUME NEW x \in Engines, SyncConfigMap(x) \/ SyncDeployment(x) PROVE DueKept(e)
    <2>1. UNCHANGED <<engine, ruleset, rs, rsQueue>> /\ engQueue \subseteq engQueue'
        BY <1>5 DEF SyncConfigMap, SyncDeployment, apiVars
    <2>2. cache'.engine = cache.engine /\ cache'.source = cache.source /\ cache'.ruleset = cache.ruleset
        BY <1>0, <1>5, SyncIs
    <2> QED
        BY <1>3, <2>1, <2>2
<1> QED
    BY <1>1, <1>2, <1>4, <1>5 DEF Sync

(* What the RuleSet controller does ends in a version the watch delivers, in a *)
(* retry, or in a RuleSet that does not compile.                               *)
LEMMA DueRs ==
    ASSUME Typed, RuleSetCopies, NEW e \in Engines, RsStep \/ RsStatusFails
    PROVE  DueKept(e)
<1> DEFINE r == cache.engine[e].ref
<1>0. r \in RuleSets /\ ruleset \in [RuleSets -> RuleSetObjects]
    BY EngineReads
<1>1. UNCHANGED <<engine, cache, engQueue>>
    BY RsFrame
<1>2. ASSUME NEW x \in RuleSets, RsGet(x) PROVE DueKept(e)
    <2>1. CASE x = r /\ ~cache.ruleset[r].there
        <3>1. CachedDesired(e)' = None
            BY <1>1, <2>1 DEF CachedDesired
        <3> QED
            BY <3>1 DEF DueKept, EngDue
    <2>2. CASE x = r /\ cache.ruleset[r].there
        <3>1. RsDue(r)'
            BY <1>1, <1>2, <2>2, RsGetIs DEF RsDue
        <3>2. EngDue(e)'
            BY <1>1, <3>1 DEF EngDue
        <3> QED
            BY <3>2 DEF DueKept
    <2>3. CASE x # r
        <3>1. RsDue(r) => RsDue(r)'
            BY <1>2, <2>3, RsGetIs DEF RsDue
        <3>2. ruleset' = ruleset
            BY <1>2, RsGetIs
        <3> QED
            BY <1>1, <3>1, <3>2, DueUntouched
    <2> QED
        BY <2>1, <2>2, <2>3
<1>3. CASE RsStatus
    <2> DEFINE n == rs.name
    <2>1. CASE n # r
        <3>1. ruleset'[r] = ruleset[r] /\ rsQueue \subseteq rsQueue'
            BY <1>0, <1>3, <2>1, RsStatusIs
        <3>2. RsDue(r) => RsDue(r)'
            BY <1>1, <2>1, <3>1 DEF RsDue
        <3> QED
            BY <1>1, <3>1, <3>2, DueUntouched
    <2>2. CASE n = r /\ rs.bundle = None /\ UNCHANGED <<ruleset, rsQueue>>
        <3>1. CachedDesired(e)' = CachedDesired(e)
            BY <1>1 DEF CachedDesired
        <3>2. RsDue(r) => RsDue(r)' \/ CachedDesired(e) = None
            BY <1>1, <2>2 DEF RsDue, CachedDesired
        <3>3. EngDue(e) => EngDue(e)'
            BY <1>1, <2>2, <3>1, <3>2 DEF EngDue
        <3> QED
            BY <3>1, <3>3 DEF DueKept
    <2>3. CASE n = r /\ rsQueue' = rsQueue \cup {n}
        <3>1. EngDue(e)'
            BY <1>1, <2>3 DEF EngDue, RsDue
        <3> QED
            BY <3>1 DEF DueKept
    <2>4. ASSUME n = r, ruleset' = [ruleset EXCEPT ![r] =
                    [there |-> ruleset[r].there, cond |-> rs.cond, rv |-> ruleset[r].rv + 1,
                     hash |-> IF rs.bundle = None THEN ruleset[r].hash ELSE rs.bundle]]
          PROVE  DueKept(e)
        <3>1. ruleset'[r].rv = ruleset[r].rv + 1
            BY <1>0, <2>4
        <3> QED
            BY <1>1, <3>1, DueVersion
    <2> QED
        BY <1>3, <2>1, <2>2, <2>3, <2>4, RsStatusIs
<1>4. ASSUME NEW x \in Engines, RsPublish(x) PROVE DueKept(e)
    <2>1. UNCHANGED <<ruleset, rsQueue>> /\ rs.pc = "publish"
        BY <1>4 DEF RsPublish, apiVars, queues
    <2> QED
        BY <1>1, <2>1, DueUntouched DEF RsDue
<1>5. CASE RsStatusFails
    <2>1. UNCHANGED ruleset /\ rsQueue' = rsQueue \cup {rs.name}
        BY <1>5 DEF RsStatusFails, RsRequeue, apiVars
    <2> QED
        BY <1>1, <2>1, DueUntouched DEF RsDue
<1> QED
    BY <1>2, <1>3, <1>4, <1>5 DEF RsStep

(* The Engine controller takes a reason away only with EngGet. *)
LEMMA DueEng ==
    ASSUME Typed, EngineCopies, NEW e \in Engines,
           EngStep \/ EngWriteFails \/ (\E x \in Engines : EngDelayOver(x))
    PROVE  DueKept(e)
<1>0. engine \in [Engines -> EngineObjects]
    BY DEF Typed, ApiTyped
<1>1. UNCHANGED <<ruleset, cache, rsQueue, rs>>
    BY EngFrame
<1>2. engine'[e].gen = engine[e].gen
    <2>1. CASE EngMark \/ EngStatus
        <3>1. engine' = engine \/ StatusOnly(eng.name)
            BY <2>1, StatusWrites
        <3>2. eng.name \in Engines
            BY <2>1, WorkIs DEF EngMark, EngStatus, EngWork
        <3> QED
            BY <1>0, <3>1, <3>2 DEF StatusOnly
    <2>2. CASE ~(EngMark \/ EngStatus)
        BY <2>2 DEF EngStep, EngGet, EngConfigMap, EngDeployment, EngWriteFails, EngDelayOver, apiVars
    <2> QED
        BY <2>1, <2>2
<1>3. e \in engQueue => e \in engQueue' \/ EngGet(e)
    <2>1. ASSUME NEW x \in Engines, EngGet(x), x # e PROVE e \in engQueue => e \in engQueue'
        BY <2>1 DEF EngGet
    <2>2. CASE EngMark \/ EngConfigMap \/ EngDeployment \/ EngStatus
        BY <2>2 DEF EngMark, EngConfigMap, EngDeployment, EngStatus, EngReturn, EngRetry, EngRequeueAfter, EngGoto
    <2>3. CASE EngWriteFails \/ (\E x \in Engines : EngDelayOver(x))
        BY <2>3 DEF EngWriteFails, EngDelayOver, EngRetry
    <2> QED
        BY <2>1, <2>2, <2>3 DEF EngStep
<1>4. RsDue(cache.engine[e].ref) => RsDue(cache.engine[e].ref)'
    BY <1>1 DEF RsDue
<1> QED
    BY <1>1, <1>2, <1>3, <1>4, DueUntouched

(* Every step keeps the reasons to reconcile an Engine. *)
LEMMA DueStep ==
    ASSUME Typed, RuleSetCopies, EngineCopies, [Next]_vars, NEW e \in Engines
    PROVE  DueKept(e)
<1>1. ASSUME UNCHANGED <<ruleset, engine, cache, rsQueue, engQueue, rs>> PROVE DueKept(e)
    BY <1>1, DueUntouched DEF RsDue
<1>2. CASE OperatorRestart
    BY <1>2, RestartFrame, DueQueued
<1> QED
    BY <1>1, <1>2, DueUser, DueSync, DueRs, DueEng, StepKinds, PodFrame

(* A RequeueAfter lasts until the request is queued again. *)
LEMMA LaterStep ==
    ASSUME Typed, [Next]_vars, NEW e \in Engines, EngLater(e)
    PROVE  EngLater(e)' \/ e \in engQueue'
<1>1. CASE UNCHANGED <<eng, engLater>>
    BY <1>1 DEF EngLater
<1>2. CASE EngStep
    BY <1>2 DEF EngStep, EngGet, EngMark, EngConfigMap, EngDeployment, EngStatus, EngReturn, EngRetry,
                EngRequeueAfter, EngGoto, EngLater
<1>3. CASE EngWriteFails \/ (\E x \in Engines : EngDelayOver(x))
    BY <1>3 DEF EngWriteFails, EngDelayOver, EngRetry, EngLater
<1>4. CASE OperatorRestart
    BY <1>4, RestartFrame
<1> QED
    BY <1>1, <1>2, <1>3, <1>4, StepKinds, UserFrame, SyncFrame, RsFrame, PodFrame

(* An Engine reconcile that holds an old bundle is followed by another. *)
LEMMA NextEngStaleInv ==
    ASSUME Typed, RuleSetCopies, EngineCopies, EngStaleInv, [Next]_vars
    PROVE  EngStaleInv'
<1>1. ASSUME eng.pc \in {"configmap", "deployment", "status"}, eng'.name = eng.name, eng'.bundle = eng.bundle
      PROVE  EngStaleInv'
    <2>1. eng.name \in Engines /\ eng.pc # "idle"
        BY <1>1, WorkIs DEF EngWork
    <2>2. ~EngGet(eng.name)
        BY <2>1 DEF EngGet
    <2> QED
        BY <1>1, <2>1, <2>2, DueStep DEF DueKept, EngStaleInv
<1>2. CASE eng' = eng
    BY <1>1, <1>2 DEF EngStaleInv
<1>3. CASE eng' = EngIdle
    BY <1>3 DEF EngStaleInv, EngIdle
<1>4. ASSUME NEW e \in Engines, EngGet(e) PROVE EngStaleInv'
    <2>1. cache' = cache
        BY <1>4 DEF EngGet
    <2>2. CachedDesired(e)' = CachedDesired(e)
        BY <2>1 DEF CachedDesired
    <2> QED
        BY <1>4, <2>2, EngGetIs DEF EngStaleInv
<1>5. CASE \/ EngConfigMap /\ eng' = [eng EXCEPT !.pc = "deployment"]
           \/ EngDeployment /\ eng' = [eng EXCEPT !.pc = "status"]
    <2>1. eng.pc \in {"configmap", "deployment"} /\ eng \in EngWork
        BY <1>5, WorkIs DEF EngConfigMap, EngDeployment
    <2>2. eng'.name = eng.name /\ eng'.bundle = eng.bundle
        BY <1>5, <2>1 DEF EngWork
    <2> QED
        BY <1>1, <2>1, <2>2
<1> QED
    BY <1>2, <1>3, <1>4, <1>5, EngMoves

(* No step takes a generation back to 0. *)
LEMMA GenerationStep ==
    ASSUME Typed, EngineCopies, [Next]_vars, NEW e \in Engines, engine'[e].gen = 0
    PROVE  engine[e].gen = 0
<1>0. engine \in [Engines -> EngineObjects] /\ engine[e].gen \in Nat
    BY SMTT(30) DEF Typed, ApiTyped, EngineObjects
<1>1. CASE EngMark \/ EngStatus
    <2>1. engine' = engine \/ StatusOnly(eng.name)
        BY <1>1, StatusWrites
    <2>2. eng.name \in Engines
        BY <1>1, WorkIs DEF EngMark, EngStatus, EngWork
    <2> QED
        BY <1>0, <2>1, <2>2 DEF StatusOnly
<1>2. ASSUME NEW x \in Engines, NEW r \in RuleSets, SetRuleSetRef(x, r)
      PROVE  engine[e].gen = 0
    <2>1. CASE x = e
        <3>1. engine'[e].gen = engine[e].gen + 1
            BY <1>0, <1>2, <2>1, SMTT(30) DEF SetRuleSetRef
        <3> QED
            BY <1>0, <3>1, SMTT(30)
    <2>2. CASE x # e
        BY <1>0, <1>2, <2>2 DEF SetRuleSetRef
    <2> QED
        BY <2>1, <2>2
<1> QED
    BY <1>1, <1>2, EngineSteps

(* Only the Engines of the RuleSet are on the list to publish to, unless their *)
(* ruleSetRef was changed.                                                     *)
LEMMA NextTodoInv ==
    ASSUME Typed, RuleSetCopies, EngineCopies, TodoInv, [Next]_vars
    PROVE  TodoInv'
<1>0. engine \in [Engines -> EngineObjects] /\ \A e \in Engines : engine[e].gen \in Nat /\ cache.engine[e].gen \in Nat
    BY SMTT(30) DEF Typed, ApiTyped, Caches, EngineObjects
<1>1. \A e \in Engines : engine'[e].gen = 0 => engine[e].gen = 0
    BY GenerationStep
<1>2. CASE rs' = rs
    <2>1. rs.pc # "idle" => rs.todo \subseteq Engines
        BY WorkIs DEF RsWork
    <2> QED
        BY <1>1, <1>2, <2>1 DEF TodoInv
<1>3. CASE rs' = RsIdle
    BY <1>3 DEF TodoInv, RsIdle
<1>4. ASSUME NEW x \in RuleSets, RsGet(x) PROVE TodoInv'
    BY <1>3, <1>4, RsGetIs DEF TodoInv
<1>5. CASE RsStatus
    <2>1. SUFFICES ASSUME rs' = [pc |-> "publish", name |-> rs.name, seen |-> rs.seen, cond |-> rs.cond,
                                 bundle |-> rs.bundle, todo |-> EnginesFor(rs.name)]
                   PROVE  TodoInv'
        BY <1>3, <1>5, RsStatusIs
    <2>2. ASSUME NEW e \in rs'.todo, engine[e].gen = 0 PROVE FirstRef[e] = rs.name
        <3>1. e \in Engines /\ cache.engine[e].ref = rs.name
            BY <2>1, <2>2 DEF EnginesFor
        <3>2. cache.engine[e].gen = engine[e].gen
            BY <1>0, <2>2, <3>1, SMTT(30) DEF EngineCopies
        <3> QED
            BY <2>2, <3>1, <3>2 DEF EngineCopies
    <2>3. engine' = engine /\ rs'.name = rs.name
        BY <1>5, <2>1 DEF RsStatus
    <2> QED
        BY <2>2, <2>3 DEF TodoInv
<1>6. ASSUME NEW x \in Engines, RsPublish(x) PROVE TodoInv'
    <2>1. rs.pc = "publish" /\ rs \in RsWork /\ engine' = engine
        BY <1>6, WorkIs DEF RsPublish, apiVars
    <2>2. rs' = RsIdle \/ (rs'.name = rs.name /\ rs'.todo \subseteq rs.todo)
        BY <1>6, <2>1 DEF RsPublish, RsWork
    <2> QED
        BY <1>3, <2>1, <2>2 DEF TodoInv
<1>7. CASE RsStatusFails
    BY <1>3, <1>7 DEF RsStatusFails, RsRequeue
<1>8. CASE RsStep
    BY <1>4, <1>5, <1>6, <1>8 DEF RsStep
<1> QED
    BY <1>2, <1>3, <1>7, <1>8, StepKinds, UserFrame, SyncFrame, EngFrame, PodFrame, RestartFrame

(* When a step leaves no reason for a new reconcile of an Engine, what it should *)
(* run is as before, and either its reconcile has started with that, or there   *)
(* was no reason for another before the step.                                   *)
LEMMA NotDue ==
    ASSUME Typed, RuleSetCopies, EngineCopies, [Next]_vars, NEW e \in Engines,
           ~EngDue(e)', ~EngLater(e)'
    PROVE  /\ CachedDesired(e)' = CachedDesired(e) /\ e \notin engQueue'
           /\ EngAt(e, {"configmap"})' \/ (~EngDue(e) /\ ~EngLater(e) /\ ~EngGet(e))
<1>1. CachedDesired(e)' = CachedDesired(e) /\ e \notin engQueue' /\ CachedDesired(e)' # None
    BY DueStep DEF DueKept, EngDue
<1>2. ASSUME EngGet(e) PROVE EngAt(e, {"configmap"})'
    BY <1>1, <1>2, EngGetIs DEF EngAt, EngLater
<1> QED
    BY <1>1, <1>2, DueStep, LaterStep DEF DueKept

(* A reconcile keeps its place until it takes a step or fails. *)
LEMMA PlaceStep ==
    ASSUME Typed, [Next]_vars, NEW e \in Engines, eng.pc \in {"configmap", "deployment", "status"},
           eng.name = e, e \notin engQueue'
    PROVE  \/ eng' = eng
           \/ EngConfigMap /\ eng' = [eng EXCEPT !.pc = "deployment"]
           \/ EngDeployment /\ eng' = [eng EXCEPT !.pc = "status"]
           \/ EngStatus /\ store' = [store EXCEPT ![e] = eng.bundle]
<1>1. CASE EngStep
    BY <1>1 DEF EngStep, EngGet, EngMark, EngConfigMap, EngDeployment, EngStatus, EngRetry, EngGoto
<1>2. CASE EngWriteFails
    BY <1>2 DEF EngWriteFails, EngRetry
<1>3. CASE \E x \in Engines : EngDelayOver(x)
    BY <1>3 DEF EngDelayOver
<1>4. CASE OperatorRestart
    BY <1>4, RestartFrame
<1> QED
    BY <1>1, <1>2, <1>3, <1>4, StepKinds, UserFrame, SyncFrame, RsFrame, PodFrame

(* What remains of a cached object that is behind. *)
LEMMA ObjectSync ==
    ASSUME Typed, [Next]_vars, NEW e \in Engines, e \notin engQueue'
    PROVE  cache'.configMap[e] = cache.configMap[e] /\ cache'.deploy[e] = cache.deploy[e]
<1>0. /\ cache \in Caches /\ TypeOK /\ cache.configMap \in [Engines -> Bundle \cup {None}]
      /\ cache.deploy \in [Engines -> DeployObjects \cup {None}]
    BY TypedIsTypeOK DEF Typed, Caches
<1>1. ASSUME NEW x \in Engines, SyncConfigMap(x) \/ SyncDeployment(x)
      PROVE  cache'.configMap[e] = cache.configMap[e] /\ cache'.deploy[e] = cache.deploy[e]
    <2>1. x # e
        BY <1>1 DEF SyncConfigMap, SyncDeployment
    <2>2. SyncConfigMap(x) =>
             cache'.configMap = [cache.configMap EXCEPT ![x] = configMap[x]] /\ cache'.deploy = cache.deploy
        BY <1>0, SyncIs
    <2>3. SyncDeployment(x) =>
             cache'.deploy = [cache.deploy EXCEPT ![x] = deploy[x]] /\ cache'.configMap = cache.configMap
        BY <1>0, SyncIs
    <2> QED
        BY <1>0, <1>1, <2>1, <2>2, <2>3
<1>2. CASE Sync
    BY <1>0, <1>1, <1>2, SyncIs DEF Sync
<1>3. CASE OperatorRestart
    BY <1>3, RestartFrame
<1> QED
    BY <1>2, <1>3, StepKinds, UserFrame, RsFrame, EngFrame, PodFrame

(* No ConfigMap is forgotten. *)
LEMMA NextMapInv ==
    ASSUME Typed, RuleSetCopies, EngineCopies, ObjectCopies, EngStaleInv, [Next]_vars,
           NEW e \in Engines, MapInv(e)
    PROVE  MapInv(e)'
<1> SUFFICES ASSUME ~EngDue(e)', ~EngLater(e)', ~EngAt(e, {"configmap"})'
             PROVE  cache'.configMap[e] # configMap'[e] \/ configMap'[e] = CachedDesired(e)'
    BY DEF MapInv
<1>0. configMap \in [Engines -> Bundle \cup {None}]
    BY DEF Typed, ApiTyped
<1>1. /\ CachedDesired(e)' = CachedDesired(e) /\ e \notin engQueue'
      /\ ~EngDue(e) /\ ~EngLater(e)
    BY NotDue
<1>2. cache'.configMap[e] = cache.configMap[e]
    BY <1>1, ObjectSync
<1>3. CASE EngConfigMap /\ eng.name = e
    <2>1. eng.bundle = CachedDesired(e)
        BY <1>1, <1>3, MapWrites DEF EngStaleInv
    <2> QED
        BY <1>0, <1>1, <1>2, <1>3, <2>1, MapWrites
<1>4. CASE ~(EngConfigMap /\ eng.name = e)
    <2>1. configMap'[e] = configMap[e]
        <3>1. CASE EngConfigMap
            BY <1>0, <1>4, <3>1, MapWrites
        <3> QED
            BY <3>1, ObjectSteps
    <2>2. ~EngAt(e, {"configmap"})
        <3>1. EngAt(e, {"configmap"}) => eng' = eng
            BY <1>1, <1>4, PlaceStep DEF EngAt, EngDeployment, EngStatus
        <3> QED
            BY <1>1, <3>1 DEF EngAt
    <2> QED
        BY <1>1, <1>2, <2>1, <2>2 DEF MapInv
<1> QED
    BY <1>3, <1>4

(* No Deployment is forgotten. *)
LEMMA NextDeployInv ==
    ASSUME Typed, RuleSetCopies, EngineCopies, ObjectCopies, EngStaleInv, [Next]_vars,
           NEW e \in Engines, DeployInv(e)
    PROVE  DeployInv(e)'
<1> DEFINE pcs == {"configmap", "deployment"}
<1> SUFFICES ASSUME ~EngDue(e)', ~EngLater(e)', ~EngAt(e, pcs)'
             PROVE  \/ cache'.deploy[e] # deploy'[e]
                    \/ deploy'[e] # None /\ deploy'[e].hash = CachedDesired(e)'
    BY DEF DeployInv
<1>0. deploy \in [Engines -> DeployObjects \cup {None}] /\ None \notin DeployObjects
    BY ControlPlaneAssumption DEF Typed, ApiTyped
<1>1. /\ CachedDesired(e)' = CachedDesired(e) /\ e \notin engQueue'
      /\ ~EngDue(e) /\ ~EngLater(e)
    BY NotDue DEF EngAt
<1>2. cache'.deploy[e] = cache.deploy[e]
    BY <1>1, ObjectSync
<1>3. CASE EngDeployment /\ eng.name = e
    <2>1. eng.bundle = CachedDesired(e)
        BY <1>1, <1>3, DeployWrites DEF EngStaleInv
    <2>2. ASSUME deploy' = deploy, eng' = EngIdle => engQueue' = engQueue \cup {e},
                 eng' # EngIdle => cache.deploy[e] # None /\ cache.deploy[e].hash = eng.bundle
          PROVE  \/ cache'.deploy[e] # deploy'[e]
                 \/ deploy'[e] # None /\ deploy'[e].hash = CachedDesired(e)'
        BY <1>1, <1>2, <2>1, <2>2
    <2>3. ASSUME NEW d \in DeployObjects, deploy' = [deploy EXCEPT ![e] = d], d.hash = eng.bundle
          PROVE  deploy'[e] # None /\ deploy'[e].hash = CachedDesired(e)'
        BY <1>0, <1>1, <2>1, <2>3
    <2> QED
        BY <1>3, <2>2, <2>3, DeployWrites
<1>4. CASE ~(EngDeployment /\ eng.name = e)
    <2>1. ~EngAt(e, pcs)
        <3>1. CASE EngAt(e, pcs)
            <4>1. eng \in EngWork
                BY <3>1, WorkIs DEF EngAt
            <4>2. eng' = eng \/ eng' = [eng EXCEPT !.pc = "deployment"]
                BY <1>1, <1>4, <3>1, PlaceStep DEF EngAt, EngStatus
            <4>3. eng'.pc \in pcs /\ eng'.name = e /\ eng'.bundle = eng.bundle
                BY <3>1, <4>1, <4>2 DEF EngAt, EngWork
            <4> QED
                BY <1>1, <3>1, <4>3 DEF EngAt
        <3> QED
            BY <3>1
    <2>2. \/ deploy'[e] = deploy[e]
          \/ PodReady(e)
        <3>1. CASE EngDeployment
            BY <1>0, <1>4, <3>1, DeployWrites
        <3>2. ASSUME NEW x \in Engines, PodReady(x) PROVE deploy'[e] = deploy[e] \/ PodReady(e)
            BY <1>0, <3>2 DEF PodReady
        <3> QED
            BY <3>1, <3>2, ObjectSteps
    <2>3. CASE PodReady(e)
        <3>1. /\ deploy[e] # None /\ ~deploy[e].ready
              /\ deploy'[e] = [hash |-> deploy[e].hash, ready |-> TRUE]
            BY <1>0, <2>3 DEF PodReady
        <3>2. deploy'[e] # None
            <4>1. deploy[e].hash \in Bundle
                BY <1>0, <3>1 DEF DeployObjects
            <4>2. deploy'[e] \in DeployObjects
                BY <3>1, <4>1, SMTT(30) DEF DeployObjects
            <4> QED
                BY <1>0, <4>2
        <3>3. cache.deploy[e] # deploy'[e]
            BY <3>1, <3>2, SMTT(30) DEF ObjectCopies
        <3> QED
            BY <1>2, <3>3
    <2> QED
        BY <1>1, <1>2, <2>1, <2>2, <2>3 DEF DeployInv
<1> QED
    BY <1>3, <1>4

(* No rulestore entry is forgotten, nor overwritten with an old bundle. *)
LEMMA NextStoreInv ==
    ASSUME Typed, RuleSetCopies, EngineCopies, RsStaleInv, TodoInv, EngStaleInv, [Next]_vars,
           NEW e \in Engines, StoreInv(e)
    PROVE  StoreInv(e)'
<1> DEFINE pcs == {"configmap", "deployment", "status"}
<1> SUFFICES ASSUME engine'[e].gen = 0, ~EngDue(e)', ~EngLater(e)', ~EngAt(e, pcs)'
             PROVE  store'[e] = CachedDesired(e)'
    BY DEF StoreInv
<1>0. store \in [Engines -> Bundle \cup {None}]
    BY DEF Typed
<1>1. /\ CachedDesired(e)' = CachedDesired(e) /\ e \notin engQueue'
      /\ ~EngDue(e) /\ ~EngLater(e)
    BY NotDue DEF EngAt
<1>2. engine[e].gen = 0
    BY GenerationStep
<1>3. CASE EngStatus /\ eng.name = e
    <2>1. eng.bundle = CachedDesired(e)
        BY <1>1, <1>3 DEF EngStatus, EngStaleInv
    <2>2. store' = [store EXCEPT ![e] = eng.bundle]
        BY <1>1, <1>3 DEF EngStatus, EngRetry
    <2> QED
        BY <1>0, <1>1, <2>1, <2>2
<1>4. CASE RsPublish(e)
    <2>1. store'[e] = rs.bundle /\ rs.pc = "publish" /\ e \in rs.todo
        BY <1>0, <1>4 DEF RsPublish
    <2>2. cache.engine[e].ref = rs.name
        BY <1>1, <1>2, <2>1 DEF TodoInv, EngDue, EngineCopies
    <2>3. rs.name \notin rsQueue /\ cache.ruleset[rs.name].there
        BY <1>1, <2>2 DEF EngDue, RsDue, CachedDesired
    <2>4. rs.bundle = CachedDesired(e)
        BY <2>1, <2>2, <2>3 DEF RsStaleInv, CachedDesired
    <2> QED
        BY <1>1, <2>1, <2>4
<1>5. CASE ~(EngStatus /\ eng.name = e) /\ ~RsPublish(e)
    <2>1. store'[e] = store[e]
        <3>1. CASE EngStatus
            BY <1>0, <1>5, <3>1, WorkIs DEF EngStatus, EngWork
        <3>2. CASE OperatorRestart
            BY <1>1, <3>2, RestartFrame
        <3>3. ASSUME NEW x \in Engines, RsPublish(x) PROVE store'[e] = store[e]
            BY <1>0, <1>5, <3>3 DEF RsPublish
        <3> QED
            BY <3>1, <3>2, <3>3, StoreSteps
    <2>2. ~EngAt(e, pcs)
        <3>1. CASE EngAt(e, pcs)
            <4>1. eng \in EngWork
                BY <3>1, WorkIs DEF EngAt
            <4>2. eng' = eng \/ eng' = [eng EXCEPT !.pc = "deployment"] \/ eng' = [eng EXCEPT !.pc = "status"]
                BY <1>1, <1>5, <3>1, PlaceStep DEF EngAt
            <4>3. eng'.pc \in pcs /\ eng'.name = e /\ eng'.bundle = eng.bundle
                BY <3>1, <4>1, <4>2 DEF EngAt, EngWork
            <4> QED
                BY <1>1, <3>1, <4>3 DEF EngAt
        <3> QED
            BY <3>1
    <2> QED
        BY <1>1, <1>2, <2>1, <2>2 DEF StoreInv
<1> QED
    BY <1>3, <1>4, <1>5

-----------------------------------------------------------------------------
(* The theorems *)

(* The controllers start with the invariant, on a new installation and on one *)
(* that is reconciled.                                                         *)
LEMMA InitControlInv == Init => ControlInv
<1> SUFFICES ASSUME Init PROVE ControlInv
    OBVIOUS
<1>0. /\ rs = RsIdle /\ eng = EngIdle /\ engLater = {} /\ edits = 0 /\ faults = 0
      /\ cache = Api /\ source = FirstSources
    BY DEF Init
<1>1. FirstSources \in [Sources -> SourceObjects]
    BY ControlPlaneAssumption, SMTT(30) DEF FirstSources, SourceObjects
<1>2. /\ cache.source = FirstSources /\ cache.ruleset = ruleset /\ cache.engine = engine
      /\ cache.configMap = configMap /\ cache.deploy = deploy
    BY <1>0 DEF Api
<1>3. /\ engine \in [Engines -> EngineObjects] /\ ruleset \in [RuleSets -> RuleSetObjects]
      /\ configMap \in [Engines -> Bundle \cup {None}] /\ deploy \in [Engines -> DeployObjects \cup {None}]
      /\ store \in [Engines -> Bundle \cup {None}]
      /\ rsQueue \subseteq RuleSets /\ engQueue \subseteq Engines
      /\ \A r \in RuleSets : ruleset[r].there
      /\ \A e \in Engines : engine[e].gen = 0 /\ engine[e].ref = FirstRef[e]
      /\ \A e \in Engines : deploy[e] # None => configMap[e] # None
      /\ \/ rsQueue = RuleSets /\ engQueue = Engines
         \/ /\ \A r \in RuleSets : ruleset[r].cond = "ready" /\ ruleset[r].hash = Compile(FirstSources, r)
            /\ \A e \in Engines : LET b == Compile(FirstSources, FirstRef[e]) IN
                  configMap[e] = b /\ deploy[e] # None /\ deploy[e].hash = b /\ store[e] = b
    <2>1. CASE Installed
        <3>1. InstalledInit
            BY <2>1 DEF Init
        <3>2. \A r \in RuleSets : Compile(FirstSources, r) \in Bundle
            BY <1>1, <2>1, CompileType, ControlPlaneAssumption
        <3>3. \A e \in Engines : FirstRef[e] \in RuleSets /\ Compile(FirstSources, FirstRef[e]) \in Bundle
            BY <3>2, ControlPlaneAssumption
        <3>4. 0 \in 0..MaxEdits /\ None \notin DeployObjects \cup Bundle
            BY ControlPlaneAssumption, SMTT(30)
        <3>5. engine \in [Engines -> EngineObjects] /\ ruleset \in [RuleSets -> RuleSetObjects]
            BY <1>0, <3>1, <3>2, <3>3, <3>4 DEF InstalledInit, EngineObjects, RuleSetObjects
        <3>6. deploy \in [Engines -> DeployObjects] /\ configMap \in [Engines -> Bundle] /\ store \in [Engines -> Bundle]
            BY <1>0, <3>1, <3>3 DEF InstalledInit, DeployObjects
        <3>7. \A e \in Engines : deploy[e] # None /\ configMap[e] # None
            BY <3>4, <3>6
        <3> QED
            BY <1>0, <3>1, <3>5, <3>6, <3>7 DEF InstalledInit
    <2>2. CASE ~Installed
        <3>1. FreshInit
            BY <2>2 DEF Init
        <3>2. 0 \in 0..MaxEdits /\ \A e \in Engines : FirstRef[e] \in RuleSets
            BY ControlPlaneAssumption, SMTT(30)
        <3>3. engine \in [Engines -> EngineObjects] /\ ruleset \in [RuleSets -> RuleSetObjects]
            BY <3>1, <3>2 DEF FreshInit, NewRuleSet, EngineObjects, RuleSetObjects
        <3> QED
            BY <3>1, <3>3 DEF FreshInit, NewRuleSet
    <2> QED
        BY <2>1, <2>2
<1>4. Typed
    <2>1. cache \in Caches
        BY <1>0, <1>1, <1>3 DEF Api, Caches
    <2>2. RsTyped /\ EngTyped
        BY <1>0 DEF RsTyped, EngTyped, RsIdle, EngIdle
    <2>3. /\ \A s \in Sources : source[s].gen <= edits
          /\ \A e \in Engines : engine[e].gen <= edits
        <3>1. \A s \in Sources : source[s].gen = 0
            BY <1>0 DEF FirstSources
        <3>2. 0 <= edits
            BY <1>0, SMTT(30)
        <3> QED
            BY <1>3, <3>1, <3>2
    <2>4. ApiTyped
        BY <1>0, <1>1, <1>3, <2>3 DEF ApiTyped
    <2>5. 0 \in 0..MaxEdits /\ 0 \in 0..MaxFaults
        BY ControlPlaneAssumption, SMTT(30)
    <2> QED
        BY <1>0, <1>3, <2>1, <2>2, <2>4, <2>5 DEF Typed
<1>5. RuleSetCopies /\ EngineCopies
    <2>1. \A r \in RuleSets : Older(ruleset[r], ruleset[r])
        <3>1. ASSUME NEW r \in RuleSets PROVE ruleset[r].rv \in Nat
            BY <1>3, <3>1 DEF RuleSetObjects
        <3>2. ASSUME NEW r \in RuleSets PROVE ruleset[r].rv <= ruleset[r].rv
            BY <3>1, <3>2, SMTT(30)
        <3> QED
            BY <3>2 DEF Older
    <2>2. \A e \in Engines : Older(engine[e], engine[e]) /\ engine[e].gen <= engine[e].gen
        BY <1>3, SMTT(30) DEF Older, EngineObjects
    <2> QED
        BY <1>0, <1>2, <1>3, <2>1, <2>2 DEF RuleSetCopies, EngineCopies, RsIdle, EngIdle
<1>6. ObjectCopies
    BY <1>0, <1>2, <1>3 DEF ObjectCopies, EngIdle
<1>7. RsStaleInv /\ TodoInv /\ EngStaleInv
    BY <1>0 DEF RsStaleInv, TodoInv, EngStaleInv, RsIdle, EngIdle
<1>8. \A r \in RuleSets : RuleSetInv(r)
    BY <1>2, <1>3 DEF RuleSetInv, RsDue
<1>9. \A e \in Engines : MapInv(e) /\ DeployInv(e) /\ StoreInv(e)
    <2>1. SUFFICES ASSUME NEW e \in Engines PROVE MapInv(e) /\ DeployInv(e) /\ StoreInv(e)
        OBVIOUS
    <2>2. CASE engQueue = Engines
        BY <2>2 DEF MapInv, DeployInv, StoreInv, EngDue
    <2>3. CASE engQueue # Engines
        <3>1. CachedDesired(e) = Compile(FirstSources, FirstRef[e])
            BY <1>2, <1>3, ControlPlaneAssumption DEF CachedDesired
        <3> QED
            BY <1>3, <2>3, <3>1 DEF MapInv, DeployInv, StoreInv
    <2> QED
        BY <2>2, <2>3
<1> QED
    BY <1>4, <1>5, <1>6, <1>7, <1>8, <1>9 DEF ControlInv

(* Every step of users, watches, controllers, pods and faults keeps it. *)
LEMMA NextControlInv == ControlInv /\ [Next]_vars => ControlInv'
<1> SUFFICES ASSUME ControlInv, [Next]_vars PROVE ControlInv'
    OBVIOUS
<1>1. /\ Typed /\ RuleSetCopies /\ EngineCopies /\ ObjectCopies
      /\ RsStaleInv /\ TodoInv /\ EngStaleInv
    BY DEF ControlInv
<1>2. Typed' /\ RuleSetCopies' /\ EngineCopies' /\ ObjectCopies'
    BY <1>1, NextTyped, NextRuleSetCopies, NextEngineCopies, NextObjectCopies
<1>3. RsStaleInv' /\ TodoInv' /\ EngStaleInv'
    BY <1>1, NextRsStaleInv, NextTodoInv, NextEngStaleInv
<1>4. \A r \in RuleSets : RuleSetInv(r)'
    BY <1>1, NextRuleSetInv DEF ControlInv
<1>5. \A e \in Engines : MapInv(e)' /\ DeployInv(e)' /\ StoreInv(e)'
    BY <1>1, NextMapInv, NextDeployInv, NextStoreInv DEF ControlInv
<1> QED
    BY <1>2, <1>3, <1>4, <1>5 DEF ControlInv

(* The inductive invariant of the two controllers: whatever is not as it should *)
(* be has a trigger that will bring it there, in a queue, in the watch or in a  *)
(* reconcile under way.                                                         *)
THEOREM ControlInvariant == Spec => []ControlInv
BY InitControlInv, NextControlInv, PTL DEF Spec

(* The controllers keep the types of all their objects: no ConfigMap,          *)
(* Deployment, hash or rulestore entry holds a bundle with a source missing.   *)
THEOREM ControlTypeOK == Spec => []TypeOK
<1>1. ControlInv => TypeOK
    BY TypedIsTypeOK DEF ControlInv
<1> QED
    BY <1>1, ControlInvariant, PTL

(* The ConfigMap a Deployment mounts exists (applyOwnedObjects), whichever call *)
(* fails and whenever the operator is replaced.                                 *)
THEOREM ControlMountsExist == Spec => []MountsExist
<1>1. ControlInv => MountsExist
    BY DEF ControlInv, ObjectCopies, MountsExist
<1> QED
    BY <1>1, ControlInvariant, PTL

(* At rest the cache is the API server, and nothing is due. *)
LEMMA QuietIs ==
    ASSUME ControlInv, Quiet
    PROVE  /\ cache.source = source /\ cache.ruleset = ruleset /\ cache.engine = engine
           /\ cache.configMap = configMap /\ cache.deploy = deploy
           /\ \A r \in RuleSets : ~RsDue(r)
           /\ \A e \in Engines :
                 /\ CachedDesired(e) = Desired(e) /\ ~EngLater(e)
                 /\ Desired(e) # None => ~EngDue(e)
<1>1. /\ cache.source = source /\ cache.ruleset = ruleset /\ cache.engine = engine
      /\ cache.configMap = configMap /\ cache.deploy = deploy
    BY DEF Quiet, Api
<1>2. \A r \in RuleSets : ~RsDue(r)
    BY DEF Quiet, RsDue, RsIdle
<1>3. ASSUME NEW e \in Engines
      PROVE  /\ CachedDesired(e) = Desired(e) /\ ~EngLater(e)
             /\ Desired(e) # None => ~EngDue(e)
    <2>1. CachedDesired(e) = Desired(e)
        BY <1>1 DEF CachedDesired, Desired
    <2>2. ~EngLater(e)
        BY DEF Quiet, EngLater, EngIdle
    <2>3. cache.engine[e].ref \in RuleSets
        BY DEF ControlInv, Typed, Caches, EngineObjects
    <2>4. Desired(e) # None => ~EngDue(e)
        BY <1>1, <1>2, <2>1, <2>3 DEF EngDue, Quiet
    <2> QED
        BY <2>1, <2>2, <2>4
<1> QED
    BY <1>1, <1>2, <1>3

(* No trigger is missing for a RuleSet (RuleSetReconciler.Reconcile): when the  *)
(* operator is at rest, one whose sources compile is Ready and has their hash.  *)
THEOREM ControlQuietRuleSet == Spec => []QuietRuleSet
<1>1. ControlInv => QuietRuleSet
    <2>1. SUFFICES ASSUME ControlInv, Quiet, NEW r \in RuleSets, ruleset[r].there, Compiles(source, r)
                   PROVE  ruleset[r].cond = "ready" /\ ruleset[r].hash = Compile(source, r)
        BY DEF QuietRuleSet
    <2> QED
        BY <2>1, QuietIs DEF ControlInv, RuleSetInv
<1> QED
    BY <1>1, ControlInvariant, PTL

(* No trigger is missing for an Engine (EngineReconciler.Reconcile and its      *)
(* watches): when the operator is at rest, the ConfigMap and the Deployment of  *)
(* an Engine whose rules compile hold those rules.                              *)
THEOREM ControlQuietEngine == Spec => []QuietEngine
<1>1. ControlInv => QuietEngine
    <2>1. SUFFICES ASSUME ControlInv, Quiet, NEW e \in Engines, Desired(e) # None
                   PROVE  configMap[e] = Desired(e) /\ deploy[e].hash = Desired(e)
        BY DEF QuietEngine
    <2>2. MapInv(e) /\ DeployInv(e)
        BY <2>1 DEF ControlInv
    <2>3. ~EngAt(e, {"configmap"}) /\ ~EngAt(e, {"configmap", "deployment"})
        BY <2>1 DEF Quiet, EngAt, EngIdle
    <2> QED
        BY <2>1, <2>2, <2>3, QuietIs DEF MapInv, DeployInv
<1> QED
    BY <1>1, ControlInvariant, PTL

(* Two publishers, one rulestore (publishToEngines and reconcileStatus): when   *)
(* the operator is at rest, no old bundle is left in it for an Engine whose     *)
(* ruleSetRef was never changed.                                                *)
THEOREM ControlQuietStore == Spec => []QuietStore
<1>1. ControlInv => QuietStore
    <2>1. SUFFICES ASSUME ControlInv, Quiet, NEW e \in Engines, Desired(e) # None, engine[e].gen = 0
                   PROVE  store[e] = Desired(e)
        BY DEF QuietStore
    <2>2. StoreInv(e)
        BY <2>1 DEF ControlInv
    <2>3. ~EngAt(e, {"configmap", "deployment", "status"})
        BY <2>1 DEF Quiet, EngAt, EngIdle
    <2> QED
        BY <2>1, <2>2, <2>3, QuietIs DEF StoreInv
<1> QED
    BY <1>1, ControlInvariant, PTL

=============================================================================
