---------------------------- MODULE ControlPlane ----------------------------
(***************************************************************************)
(* The RuleSet and the Engine controller of one operator process, the API  *)
(* objects they read and write, and what the engine pods run in the end.   *)
(*                                                                         *)
(* Each controller has one worker and a work queue. Both read through the  *)
(* manager's informer cache, which follows the API server object by        *)
(* object; an event that passes the predicates of SetupWithManager         *)
(* enqueues. Writes go to the API server: a status update of an object     *)
(* read at an old resource version is a conflict, and CreateOrPatch sends  *)
(* the difference between the CACHED object and the desired one. A read    *)
(* from the cache is one step with the write to the API server before      *)
(* which it happens: reading earlier is the same as a cache further behind. *)
(* A compiled bundle is the sequence of its sources' texts, which also     *)
(* stands for its SHA-256; it is a conflict when two sources have the same *)
(* text, and so the same rule ids.                                         *)
(***************************************************************************)
EXTENDS Naturals, Sequences

CONSTANTS
    RuleSets,    \* names of RuleSet resources
    Engines,     \* Engine resources
    Sources,     \* names of SecRules and ClusterSecRules resources
    Texts,       \* bodies of sources
    Bad,         \* texts that coraza.NewWAF in the engine does not parse
    Refs,        \* Refs[r]: spec.sources of RuleSet r
    First,       \* First[s]: the text of source s at the start
    FirstRef,    \* FirstRef[e]: the ruleSetRef of Engine e at the start
    Installed,   \* whether, at the start, all is reconciled already
    None,        \* no object, no hash, no bundle
    MaxEdits,    \* bound: changes users make to sources, RuleSets and Engines
    MaxFaults    \* bound: failed API calls and operator restarts

(* A compiled bundle: one text for each source of some RuleSet. *)
Bundle == UNION {[DOMAIN Refs[r] -> Texts] : r \in RuleSets}

SourceObjects == [text : Texts \cup {None}, gen : 0..MaxEdits]
RuleSetObjects == [there : BOOLEAN, hash : Bundle \cup {None}, rv : Nat,
                   cond : {"new", "ready", "missing", "conflict"}]
EngineObjects == [ref : RuleSets, gen : 0..MaxEdits, rv : Nat, hash : Bundle \cup {None},
                  cond : {"new", "missing", "waiting", "failed", "rolling", "ready"}]
DeployObjects == [hash : Bundle, ready : BOOLEAN]

(* compiler.Compile over the bodies that from holds, or why there is none. *)
Bodies(from, r) == [i \in DOMAIN Refs[r] |-> from[Refs[r][i]].text]
Missing(from, r) == \E i \in DOMAIN Refs[r] : Bodies(from, r)[i] = None
Conflict(from, r) ==
    \E i, j \in DOMAIN Refs[r] : i < j /\ Bodies(from, r)[i] = Bodies(from, r)[j]
Compiles(from, r) == ~Missing(from, r) /\ ~Conflict(from, r)
CompileIncomplete(from, r) == IF Conflict(from, r) THEN None ELSE Bodies(from, r)
Compile(from, r) == IF Compiles(from, r) THEN Bodies(from, r) ELSE None

FirstSources == [s \in Sources |-> [text |-> First[s], gen |-> 0]]

ASSUME ControlPlaneAssumption ==
    /\ Bad \subseteq Texts
    /\ Refs \in [RuleSets -> Seq(Sources)]
    /\ First \in [Sources -> Texts]
    /\ FirstRef \in [Engines -> RuleSets]
    /\ Installed \in BOOLEAN
    /\ Installed => \A r \in RuleSets : Compiles(FirstSources, r)
    /\ MaxEdits \in Nat
    /\ MaxFaults \in Nat
    /\ None \notin Texts \cup Bundle \cup DeployObjects
    /\ None \notin {"missing", "waiting", "failed"}

VARIABLES
    \* objects in the API server
    source,     \* source[s]: text and generation
    ruleset,    \* ruleset[r]: existence, status and resource version
    engine,     \* engine[e]: ruleSetRef, generation, status, resource version
    configMap,  \* configMap[e]: the rules in it
    deploy,     \* deploy[e]: the hash in the pod template, and whether the
                \* one replica desired is ready
    \* the operator process
    cache,      \* the informer cache, a record of the five above
    rsQueue,    \* work queue of the RuleSet controller
    engQueue,   \* work queue of the Engine controller
    engLater,   \* Engines with a RequeueAfter that has not elapsed
    rs,         \* the RuleSet controller's Reconcile
    eng,        \* the Engine controller's Reconcile
    store,      \* store[e]: the bundle in the rulestore
    edits, faults

apiVars == <<source, ruleset, engine, configMap, deploy>>
queues == <<rsQueue, engQueue, engLater>>
bounds == <<edits, faults>>
vars == <<apiVars, cache, queues, rs, eng, store, bounds>>

Api == [source |-> source, ruleset |-> ruleset, engine |-> engine,
        configMap |-> configMap, deploy |-> deploy]

NewRuleSet(there, rv) == [there |-> there, cond |-> "new", hash |-> None, rv |-> rv]
RsIdle == [pc |-> "idle", name |-> None, seen |-> None, cond |-> None,
           bundle |-> None, todo |-> {}]
EngIdle == [pc |-> "idle", name |-> None, seen |-> None, cond |-> None, bundle |-> None]

(* coraza.NewWAF in the engine accepts the bundle. *)
Parses(b) == \A i \in DOMAIN b : b[i] \notin Bad

Fault == faults < MaxFaults /\ faults' = faults + 1 /\ UNCHANGED edits
Edit == edits < MaxEdits /\ edits' = edits + 1 /\ UNCHANGED faults

(* The operator starts on RuleSets and Engines that nothing was done for. *)
FreshInit ==
    /\ ruleset = [r \in RuleSets |-> NewRuleSet(TRUE, 0)]
    /\ engine = [e \in Engines |-> [ref |-> FirstRef[e], gen |-> 0, cond |-> "new",
                                   hash |-> None, rv |-> 0]]
    /\ configMap = [e \in Engines |-> None]
    /\ deploy = [e \in Engines |-> None]
    /\ rsQueue = RuleSets
    /\ engQueue = Engines
    /\ store = [e \in Engines |-> None]

(* The state in which a fresh start comes to rest when all RuleSets compile. *)
InstalledInit ==
    LET bundle(e) == Compile(source, FirstRef[e]) IN
    /\ ruleset = [r \in RuleSets |-> [there |-> TRUE, cond |-> "ready", rv |-> 0,
                                      hash |-> Compile(source, r)]]
    /\ engine = [e \in Engines |-> [ref |-> FirstRef[e], gen |-> 0, cond |-> "ready",
                                    hash |-> bundle(e), rv |-> 0]]
    /\ configMap = [e \in Engines |-> bundle(e)]
    /\ deploy = [e \in Engines |-> [hash |-> bundle(e), ready |-> TRUE]]
    /\ rsQueue = {}
    /\ engQueue = {}
    /\ store = [e \in Engines |-> bundle(e)]

Init ==
    /\ source = FirstSources
    /\ IF Installed THEN InstalledInit ELSE FreshInit
    /\ cache = Api
    /\ engLater = {}
    /\ rs = RsIdle
    /\ eng = EngIdle
    /\ edits = 0
    /\ faults = 0

-----------------------------------------------------------------------------
(* Users *)

EditSource(s, text) ==
    /\ Edit
    /\ source[s].text # text
    /\ source' = [source EXCEPT ![s] = [text |-> text, gen |-> @.gen + 1]]
    /\ UNCHANGED <<ruleset, engine, configMap, deploy, cache, queues, rs, eng,
                   store>>

DeleteRuleSet(r) ==
    /\ Edit
    /\ ruleset[r].there
    /\ ruleset' = [ruleset EXCEPT ![r] = NewRuleSet(FALSE, @.rv + 1)]
    /\ UNCHANGED <<source, engine, configMap, deploy, cache, queues, rs, eng,
                   store>>

CreateRuleSet(r) ==
    /\ Edit
    /\ ~ruleset[r].there
    /\ ruleset' = [ruleset EXCEPT ![r] = NewRuleSet(TRUE, @.rv + 1)]
    /\ UNCHANGED <<source, engine, configMap, deploy, cache, queues, rs, eng,
                   store>>

SetRuleSetRef(e, r) ==
    /\ Edit
    /\ engine[e].ref # r
    /\ engine' = [engine EXCEPT ![e] = [ref |-> r, gen |-> @.gen + 1, rv |-> @.rv + 1,
                                        cond |-> @.cond, hash |-> @.hash]]
    /\ UNCHANGED <<source, ruleset, configMap, deploy, cache, queues, rs, eng,
                   store>>

-----------------------------------------------------------------------------
(* Watch events: the cache follows, and what the predicates let through and *)
(* the map functions select is enqueued.                                    *)

EnginesFor(r) == {e \in Engines : cache.engine[e].ref = r}

SyncSource(s) ==
    /\ cache.source[s] # source[s]
    /\ cache' = [cache EXCEPT !.source[s] = source[s]]
    /\ rsQueue' = rsQueue \cup
          {r \in RuleSets : cache.ruleset[r].there /\ \E i \in DOMAIN Refs[r] : Refs[r][i] = s}
    /\ UNCHANGED <<apiVars, engQueue, engLater, rs, eng, store, bounds>>

SyncRuleSetFiltered(r) ==
    /\ cache.ruleset[r] # ruleset[r]
    /\ cache' = [cache EXCEPT !.ruleset[r] = ruleset[r]]
    /\ IF ruleset[r].cond = "new" \/ ~ruleset[r].there
         THEN rsQueue' = rsQueue \cup {r} /\ engQueue' = engQueue \cup EnginesFor(r)
         ELSE UNCHANGED <<rsQueue, engQueue>>
    /\ UNCHANGED <<apiVars, engLater, rs, eng, store, bounds>>

(* GenerationChangedPredicate hides a status update from the RuleSet        *)
(* controller; the Engine controller sees every event.                      *)
SyncRuleSet(r) ==
    /\ cache.ruleset[r] # ruleset[r]
    /\ cache' = [cache EXCEPT !.ruleset[r] = ruleset[r]]
    /\ rsQueue' = IF ruleset[r].cond = "new" \/ ~ruleset[r].there
                    THEN rsQueue \cup {r} ELSE rsQueue
    /\ engQueue' = engQueue \cup EnginesFor(r)
    /\ UNCHANGED <<apiVars, engLater, rs, eng, store, bounds>>

SyncEngine(e) ==
    /\ cache.engine[e] # engine[e]
    /\ cache' = [cache EXCEPT !.engine[e] = engine[e]]
    /\ engQueue' = IF cache.engine[e].gen # engine[e].gen
                     THEN engQueue \cup {e} ELSE engQueue
    /\ UNCHANGED <<apiVars, rsQueue, engLater, rs, eng, store, bounds>>

SyncConfigMapNotOwned(e) ==
    /\ cache.configMap[e] # configMap[e]
    /\ cache' = [cache EXCEPT !.configMap[e] = configMap[e]]
    /\ UNCHANGED <<apiVars, queues, rs, eng, store, bounds>>

SyncConfigMap(e) ==
    /\ cache.configMap[e] # configMap[e]
    /\ cache' = [cache EXCEPT !.configMap[e] = configMap[e]]
    /\ engQueue' = engQueue \cup {e}
    /\ UNCHANGED <<apiVars, rsQueue, engLater, rs, eng, store, bounds>>

SyncDeployment(e) ==
    /\ cache.deploy[e] # deploy[e]
    /\ cache' = [cache EXCEPT !.deploy[e] = deploy[e]]
    /\ engQueue' = engQueue \cup {e}
    /\ UNCHANGED <<apiVars, rsQueue, engLater, rs, eng, store, bounds>>

-----------------------------------------------------------------------------
(* RuleSetReconciler.Reconcile *)

RsReturn == rs' = RsIdle
RsDropError == rs' = RsIdle /\ UNCHANGED rsQueue
RsRequeue == rs' = RsIdle /\ rsQueue' = rsQueue \cup {rs.name}

(* A request is taken; the RuleSet, unless it is gone, and its sources are  *)
(* read and compiled (collectSources, Compile).                             *)
RsGet(r) ==
    /\ rs.pc = "idle"
    /\ r \in rsQueue
    /\ rsQueue' = rsQueue \ {r}
    /\ rs' = IF ~cache.ruleset[r].there THEN RsIdle
             ELSE [pc |-> "status", name |-> r, seen |-> cache.ruleset[r],
                   cond |-> CASE Missing(cache.source, r)  -> "missing"
                              [] Compiles(cache.source, r) -> "ready"
                              [] OTHER                     -> "conflict",
                   bundle |-> Compile(cache.source, r), todo |-> {}]
    /\ UNCHANGED <<apiVars, cache, engQueue, engLater, eng, store, bounds>>

(* A success always changes lastCompiledAt. *)
RsStatusSame == rs.bundle = None /\ rs.cond = rs.seen.cond

(* patchStatusIfChanged; a failure keeps the compiledHash of the last       *)
(* success. After a success publishToEngines lists the engines.             *)
RsStatus ==
    /\ rs.pc = "status"
    /\ \/ /\ RsStatusSame
          /\ RsReturn
          /\ UNCHANGED <<ruleset, rsQueue>>
       \/ /\ ~RsStatusSame
          /\ rs.seen.rv = ruleset[rs.name].rv
          /\ ruleset' = [ruleset EXCEPT ![rs.name] =
                [there |-> @.there, cond |-> rs.cond, rv |-> @.rv + 1,
                 hash |-> IF rs.bundle = None THEN @.hash ELSE rs.bundle]]
          /\ IF rs.bundle = None \/ EnginesFor(rs.name) = {} THEN RsReturn
             ELSE rs' = [pc |-> "publish", name |-> rs.name, seen |-> rs.seen, cond |-> rs.cond,
                         bundle |-> rs.bundle, todo |-> EnginesFor(rs.name)]
          /\ UNCHANGED rsQueue
       \/ /\ ~RsStatusSame
          /\ rs.seen.rv # ruleset[rs.name].rv
          /\ RsRequeue
          /\ UNCHANGED ruleset
    /\ UNCHANGED <<source, engine, configMap, deploy, cache, engQueue, engLater, eng, store, bounds>>

RsStatusFails ==
    /\ rs.pc = "status"
    /\ Fault
    /\ RsRequeue
    /\ UNCHANGED <<apiVars, cache, engQueue, engLater, eng, store>>

(* publishToEngines: PublishIfChanged for each engine in the list. *)
RsPublish(e) ==
    /\ rs.pc = "publish"
    /\ e \in rs.todo
    /\ store' = [store EXCEPT ![e] = rs.bundle]
    /\ rs' = IF rs.todo = {e} THEN RsIdle ELSE [rs EXCEPT !.todo = @ \ {e}]
    /\ UNCHANGED <<apiVars, cache, queues, eng, bounds>>

-----------------------------------------------------------------------------
(* EngineReconciler.Reconcile *)

(* Reconcile returns: done, with an error, or with a RequeueAfter. An error *)
(* comes back at once, RequeueAfter seconds later.                          *)
EngReturn == eng' = EngIdle /\ UNCHANGED <<engQueue, engLater>>
EngRetry == eng' = EngIdle /\ engQueue' = engQueue \cup {eng.name} /\ UNCHANGED engLater
EngRequeueAfter ==
    eng' = EngIdle /\ engLater' = engLater \cup {eng.name} /\ UNCHANGED engQueue
EngGoto(pc) == eng' = [eng EXCEPT !.pc = pc] /\ UNCHANGED <<engQueue, engLater>>

(* The delay is over. It is seconds long: the cache has seen by then what   *)
(* the reconcile that asked for it wrote.                                   *)
EngDelayOver(e) ==
    /\ e \in engLater
    /\ cache.engine[e] = engine[e]
    /\ engLater' = engLater \ {e}
    /\ engQueue' = engQueue \cup {e}
    /\ UNCHANGED <<apiVars, cache, rsQueue, rs, eng, store, bounds>>

(* A request is taken; the Engine, its RuleSet and the sources are read. A *)
(* RuleSet that is missing, not compiled yet, or does not compile now      *)
(* leads straight to the status.                                           *)
EngGet(e) ==
    LET seen == cache.engine[e]
        set == cache.ruleset[seen.ref]
        b == Compile(cache.source, seen.ref)
    IN  /\ eng.pc = "idle"
        /\ e \in engQueue
        /\ engQueue' = engQueue \ {e}
        /\ eng' = [pc |-> IF set.there /\ set.hash # None /\ b # None
                            THEN "configmap" ELSE "mark",
                   name |-> e,
                   seen |-> seen,
                   cond |-> CASE ~set.there -> "missing"
                              [] set.there /\ set.hash = None -> "waiting"
                              [] set.there /\ set.hash # None /\ b = None -> "failed"
                              [] OTHER -> None,
                   bundle |-> IF set.there /\ set.hash # None THEN b ELSE None]
        /\ UNCHANGED <<apiVars, cache, rsQueue, engLater, rs, store, bounds>>

(* patchEngineStatusIfChanged with status st, and the error of an update *)
(* of an Engine that has changed since it was read.                      *)
WithStatus(cond, hash) ==
    [ref |-> eng.seen.ref, gen |-> eng.seen.gen, rv |-> eng.seen.rv,
     cond |-> cond, hash |-> hash]
Conflicts(st) == st # eng.seen /\ eng.seen.rv # engine[eng.name].rv
WriteStatus(st) ==
    engine' = IF st = eng.seen THEN engine
              ELSE [engine EXCEPT ![eng.name] = [st EXCEPT !.rv = @ + 1]]

(* markRuleSetMissing, which waits for the watch, and markAwaitingCompilation *)
(* and markCompileFailed, which come back after 10 and 30 seconds.            *)
EngMark ==
    LET st == WithStatus(eng.cond, eng.seen.hash) IN
    /\ eng.pc = "mark"
    /\ \/ /\ Conflicts(st)
          /\ EngRetry
          /\ UNCHANGED engine
       \/ /\ ~Conflicts(st)
          /\ WriteStatus(st)
          /\ IF eng.cond = "missing" THEN EngReturn ELSE EngRequeueAfter
    /\ UNCHANGED <<source, ruleset, configMap, deploy, cache, rsQueue, rs, store, bounds>>

EngConfigMapSkipped ==
    /\ eng.pc = "configmap"
    /\ EngGoto("deployment")
    /\ UNCHANGED <<apiVars, cache, rsQueue, rs, store, bounds>>

(* CreateOrPatch of the ConfigMap: Create when the cache has none, which fails *)
(* when there is one; a patch when the cached rules are not the desired ones.  *)
EngConfigMap ==
    LET e == eng.name IN
    /\ eng.pc = "configmap"
    /\ \/ /\ cache.configMap[e] = None /\ configMap[e] # None
          /\ EngRetry
          /\ UNCHANGED configMap
       \/ /\ ~(cache.configMap[e] = None /\ configMap[e] # None)
          /\ configMap' = IF cache.configMap[e] = eng.bundle THEN configMap
                          ELSE [configMap EXCEPT ![e] = eng.bundle]
          /\ EngGoto("deployment")
    /\ UNCHANGED <<source, ruleset, engine, deploy, cache, rsQueue, rs, store, bounds>>

(* The Deployment for bundle b, whose hash is in its template, and a Deployment *)
(* d brought to it.                                                             *)
BuildDeployment(b) == [hash |-> b, ready |-> FALSE]
MutateDeployment(d, b) == [hash |-> b, ready |-> d.ready]

(* CreateOrPatch of the Deployment. *)
EngDeployment ==
    LET e == eng.name IN
    /\ eng.pc = "deployment"
    /\ \/ /\ cache.deploy[e] = None /\ deploy[e] # None
          /\ EngRetry
          /\ UNCHANGED deploy
       \/ /\ cache.deploy[e] = None /\ deploy[e] = None
          /\ deploy' = [deploy EXCEPT ![e] = BuildDeployment(eng.bundle)]
          /\ EngGoto("status")
       \/ /\ cache.deploy[e] # None
          /\ deploy' = IF cache.deploy[e].hash = eng.bundle THEN deploy
                       ELSE [deploy EXCEPT ![e] = MutateDeployment(@, eng.bundle)]
          /\ EngGoto("status")
    /\ UNCHANGED <<source, ruleset, engine, configMap, cache, rsQueue, rs, store, bounds>>

(* reconcileStatus: the Deployment is read back from the cache, where it may *)
(* not be yet, the status is updated and the bundle published. The           *)
(* conditions compare readyReplicas with the replicas desired, whatever      *)
(* their template; a rollout in progress is looked at again in 5 seconds.    *)
EngStatus ==
    LET dep == cache.deploy[eng.name]
        st == WithStatus(IF dep.ready THEN "ready" ELSE "rolling", eng.bundle)
    IN  /\ eng.pc = "status"
        /\ \/ /\ dep = None
              /\ EngRetry
              /\ UNCHANGED <<engine, store>>
           \/ /\ dep # None /\ Conflicts(st)
              /\ EngRetry
              /\ UNCHANGED <<engine, store>>
           \/ /\ dep # None /\ ~Conflicts(st)
              /\ WriteStatus(st)
              /\ store' = [store EXCEPT ![eng.name] = eng.bundle]
              /\ IF dep.ready THEN EngReturn ELSE EngRequeueAfter
        /\ UNCHANGED <<source, ruleset, configMap, deploy, cache, rsQueue, rs, bounds>>

(* A write to the API server fails: the error requeues the request. *)
EngWriteFails ==
    /\ eng.pc \in {"mark", "configmap", "deployment", "status"}
    /\ Fault
    /\ EngRetry
    /\ UNCHANGED <<apiVars, cache, rsQueue, rs, store>>

-----------------------------------------------------------------------------
(* The operator process is replaced: memory and store are lost, the caches  *)
(* list everything, and every object is enqueued.                           *)
OperatorRestart ==
    /\ Fault
    /\ cache' = Api
    /\ rsQueue' = {r \in RuleSets : ruleset[r].there}
    /\ engQueue' = Engines
    /\ engLater' = {}
    /\ rs' = RsIdle
    /\ eng' = EngIdle
    /\ store' = [e \in Engines |-> None]
    /\ UNCHANGED <<apiVars>>

(* A pod is ready once its engine has parsed the mounted rules. With         *)
(* maxUnavailable 0 it stays while a rollout waits for a newer one.          *)
PodReady(e) ==
    /\ deploy[e] # None
    /\ ~deploy[e].ready
    /\ configMap[e] # None
    /\ Parses(configMap[e])
    /\ deploy' = [deploy EXCEPT ![e] = [hash |-> @.hash, ready |-> TRUE]]
    /\ UNCHANGED <<source, ruleset, engine, configMap, cache, queues, rs, eng, store, bounds>>

-----------------------------------------------------------------------------
Sync ==
    \/ \E s \in Sources : SyncSource(s)
    \/ \E r \in RuleSets : SyncRuleSet(r)
    \/ \E e \in Engines : SyncEngine(e) \/ SyncConfigMap(e) \/ SyncDeployment(e)

RsStep ==
    \/ \E r \in RuleSets : RsGet(r)
    \/ RsStatus
    \/ \E e \in Engines : RsPublish(e)

EngStep ==
    \/ \E e \in Engines : EngGet(e)
    \/ EngMark \/ EngConfigMap \/ EngDeployment \/ EngStatus

User ==
    \/ \E s \in Sources, t \in Texts \cup {None} : EditSource(s, t)
    \/ \E r \in RuleSets : DeleteRuleSet(r) \/ CreateRuleSet(r)
    \/ \E e \in Engines, r \in RuleSets : SetRuleSetRef(e, r)

Next ==
    \/ User \/ Sync \/ RsStep \/ EngStep
    \/ \E e \in Engines : EngDelayOver(e) \/ PodReady(e)
    \/ RsStatusFails \/ EngWriteFails \/ OperatorRestart

(* Workers run, every watch delivers, and the kubelet starts pods. *)
(* Users and faults owe nothing.                                  *)
Fairness ==
    /\ WF_vars(RsStep)
    /\ WF_vars(EngStep)
    /\ \A s \in Sources : WF_vars(SyncSource(s))
    /\ \A r \in RuleSets : WF_vars(SyncRuleSet(r))
    /\ \A e \in Engines : WF_vars(SyncEngine(e)) /\ WF_vars(SyncConfigMap(e))
                              /\ WF_vars(SyncDeployment(e))
                              /\ WF_vars(PodReady(e)) /\ WF_vars(EngDelayOver(e))

Spec == Init /\ [][Next]_vars
FairSpec == Spec /\ Fairness

-----------------------------------------------------------------------------
(* Every variable keeps its type: in particular no ConfigMap, Deployment, hash  *)
(* or rulestore entry ever holds a bundle in which a source is missing.         *)
TypeOK ==
    /\ source \in [Sources -> SourceObjects]
    /\ ruleset \in [RuleSets -> RuleSetObjects]
    /\ engine \in [Engines -> EngineObjects]
    /\ configMap \in [Engines -> Bundle \cup {None}]
    /\ deploy \in [Engines -> DeployObjects \cup {None}]
    /\ rsQueue \subseteq RuleSets
    /\ engQueue \subseteq Engines
    /\ engLater \subseteq Engines
    /\ rs.pc \in {"idle", "status", "publish"}
    /\ eng.pc \in {"idle", "mark", "configmap", "deployment", "status"}
    /\ store \in [Engines -> Bundle \cup {None}]

(* What the user asks engine e to run, or None when that does not compile. *)
Desired(e) ==
    LET r == engine[e].ref IN
    IF ruleset[r].there THEN Compile(source, r) ELSE None

(* The ConfigMap a Deployment mounts exists (applyOwnedObjects, "Order         *)
(* matters"), also when the operator fails or is replaced in between.          *)
MountsExist == \A e \in Engines : deploy[e] # None => configMap[e] # None

(* Nothing is left to do for the operator: no request is queued or worked on,  *)
(* and the cache has seen every change.                                        *)
Quiet == /\ rs = RsIdle /\ rsQueue = {}
         /\ eng = EngIdle /\ engQueue = {} /\ engLater = {}
         /\ cache = Api

(* No trigger is missing: whenever the operator comes to rest, the ConfigMap   *)
(* and the Deployment's template of an Engine whose rules compile hold those   *)
(* rules, although each was written from a cache that may have been behind.    *)
QuietEngine ==
    Quiet => \A e \in Engines : Desired(e) # None =>
        configMap[e] = Desired(e) /\ deploy[e].hash = Desired(e)

(* The same for the rulestore, into which both controllers publish bundles     *)
(* they compiled earlier, for an Engine whose ruleSetRef was never changed.    *)
QuietStore ==
    Quiet => \A e \in Engines :
        Desired(e) # None /\ engine[e].gen = 0 => store[e] = Desired(e)

(* At rest, a RuleSet whose sources compile is Ready and has their hash        *)
(* (RuleSetReconciler.Reconcile, whose status update may conflict or fail).    *)
QuietRuleSet ==
    Quiet => \A r \in RuleSets :
        ruleset[r].there /\ Compiles(source, r)
            => ruleset[r].cond = "ready" /\ ruleset[r].hash = Compile(source, r)

(* setRolloutConditions: the conditions are set together "so no stale          *)
(* condition survives a state change". At rest, an Engine whose rules are      *)
(* deployed and whose pods are ready reports that.                             *)
QuietStatus ==
    Quiet => \A e \in Engines :
        Desired(e) # None /\ deploy[e].ready
            => engine[e].cond = "ready" /\ engine[e].hash = Desired(e)

(* Once users have stopped, an Engine whose rules compile gets them into its   *)
(* ConfigMap, Deployment and rulestore entry, and keeps them there.            *)
EngineConverges ==
    \A e \in Engines :
        [](engine[e].ref = FirstRef[e]) =>
            <>[](Desired(e) # None =>
                   /\ configMap[e] = Desired(e)
                   /\ deploy[e] # None /\ deploy[e].hash = Desired(e)
                   /\ store[e] = Desired(e))

(* Once users have stopped, an Engine whose RuleSet has never compiled, or     *)
(* does not compile any more, says so (markAwaitingCompilation and             *)
(* markCompileFailed, which come back until it does).                          *)
EngineReportsFailure ==
    \A e \in Engines :
        LET set == ruleset[engine[e].ref] IN
        <>[](set.there /\ Desired(e) = None =>
               engine[e].cond = IF set.hash = None THEN "waiting" ELSE "failed")

(* EngineStatus: "appliedRuleSetHash is the compiledHash of the RuleSet        *)
(* currently active in the engine." What an Engine that is Ready reports can   *)
(* only be active if the engine's WAF parses it; the operator is at rest.      *)
ReadyHashIsActive ==
    Quiet => \A e \in Engines : engine[e].cond = "ready" => Parses(engine[e].hash)
-----------------------------------------------------------------------------
(* The inductive invariant. For every object that is not as desired there is a  *)
(* trigger: a request that is queued, delayed or worked on with what the cache  *)
(* holds now, or an event that has not arrived yet.                             *)

(* A running reconcile, typed. *)
RsWork == [pc : {"status", "publish"}, name : RuleSets, seen : RuleSetObjects,
           cond : {"ready", "missing", "conflict"}, bundle : Bundle \cup {None},
           todo : SUBSET Engines]
EngWork == [pc : {"mark", "configmap", "deployment", "status"}, name : Engines,
            seen : EngineObjects, cond : {"missing", "waiting", "failed", None},
            bundle : Bundle \cup {None}]
Caches == [source : [Sources -> SourceObjects], ruleset : [RuleSets -> RuleSetObjects],
           engine : [Engines -> EngineObjects], configMap : [Engines -> Bundle \cup {None}],
           deploy : [Engines -> DeployObjects \cup {None}]]

RsTyped ==
    /\ rs = RsIdle \/ rs \in RsWork
    /\ rs.pc = "status" /\ rs.bundle # None => rs.cond = "ready"
    /\ rs.pc = "publish" => rs.bundle # None

EngTyped ==
    /\ eng = EngIdle \/ eng \in EngWork
    /\ eng.pc = "mark" => eng.cond # None
    /\ eng.pc \in {"configmap", "deployment", "status"} => eng.bundle # None

ApiTyped ==
    /\ source \in [Sources -> SourceObjects] /\ \A s \in Sources : source[s].gen <= edits
    /\ ruleset \in [RuleSets -> RuleSetObjects]
    /\ engine \in [Engines -> EngineObjects] /\ \A e \in Engines : engine[e].gen <= edits
    /\ configMap \in [Engines -> Bundle \cup {None}]
    /\ deploy \in [Engines -> DeployObjects \cup {None}]

Typed ==
    /\ rsQueue \subseteq RuleSets /\ engQueue \subseteq Engines /\ engLater \subseteq Engines
    /\ store \in [Engines -> Bundle \cup {None}]
    /\ edits \in 0..MaxEdits /\ faults \in 0..MaxFaults
    /\ RsTyped /\ EngTyped /\ ApiTyped /\ cache \in Caches

(* The cache and what a reconcile has read are versions the API server had. *)
Older(copy, object) ==
    copy.rv <= object.rv /\ (copy.rv = object.rv => copy = object)

RuleSetCopies ==
    /\ \A r \in RuleSets :
          /\ Older(cache.ruleset[r], ruleset[r])
          /\ ruleset[r].there /\ ~cache.ruleset[r].there => ruleset[r].cond = "new"
    /\ rs.pc # "idle" => rs.seen.rv <= cache.ruleset[rs.name].rv

EngineCopies ==
    /\ \A e \in Engines :
          /\ Older(cache.engine[e], engine[e])
          /\ cache.engine[e].gen <= engine[e].gen
          /\ cache.engine[e].gen = engine[e].gen => cache.engine[e].ref = engine[e].ref
          /\ engine[e].gen = 0 => engine[e].ref = FirstRef[e]
    /\ eng.pc # "idle" => Older(eng.seen, engine[eng.name])

(* ConfigMaps and Deployments are there to stay, and so is a pod that is ready. *)
ObjectCopies ==
    /\ \A e \in Engines :
          /\ cache.configMap[e] # None => configMap[e] # None
          /\ cache.deploy[e] # None =>
                deploy[e] # None /\ (cache.deploy[e].ready => deploy[e].ready)
          /\ deploy[e] # None => configMap[e] # None
    /\ eng.pc \in {"deployment", "status"} => configMap[eng.name] # None

(* What the cache says an Engine should run. *)
CachedDesired(e) ==
    LET r == cache.engine[e].ref IN
    IF cache.ruleset[r].there THEN Compile(cache.source, r) ELSE None

(* A RuleSet reconcile is to come, or is about to write what the cache holds. *)
RsDue(r) ==
    \/ r \in rsQueue
    \/ rs.pc = "status" /\ rs.name = r /\ rs.bundle = Compile(cache.source, r)

(* An Engine reconcile is to come, or nothing is to be done. *)
EngDue(e) ==
    LET r == cache.engine[e].ref IN
    \/ e \in engQueue
    \/ cache.engine[e].gen # engine[e].gen
    \/ cache.ruleset[r] # ruleset[r]
    \/ RsDue(r)
    \/ CachedDesired(e) = None

EngLater(e) == e \in engLater \/ (eng.pc = "mark" /\ eng.name = e /\ eng.cond # "missing")
EngAt(e, pcs) == eng.pc \in pcs /\ eng.name = e /\ eng.bundle = CachedDesired(e)

RuleSetInv(r) ==
    ruleset[r].there =>
        \/ RsDue(r)
        \/ cache.ruleset[r] # ruleset[r] /\ ruleset[r].cond = "new"
        \/ Compiles(cache.source, r) =>
              ruleset[r].cond = "ready" /\ ruleset[r].hash = Compile(cache.source, r)

(* A reconcile that has read what is old by now is not the last one. *)
RsStaleInv ==
    rs.pc # "idle" =>
        \/ rs.name \in rsQueue \/ ~cache.ruleset[rs.name].there
        \/ rs.bundle = Compile(cache.source, rs.name)

TodoInv ==
    rs.pc = "publish" => \A e \in rs.todo : engine[e].gen = 0 => FirstRef[e] = rs.name

EngStaleInv ==
    eng.pc \in {"configmap", "deployment", "status"} =>
        EngDue(eng.name) \/ eng.bundle = CachedDesired(eng.name)

MapInv(e) ==
    \/ EngDue(e) \/ EngLater(e) \/ cache.configMap[e] # configMap[e]
    \/ EngAt(e, {"configmap"})
    \/ configMap[e] = CachedDesired(e)

DeployInv(e) ==
    \/ EngDue(e) \/ EngLater(e) \/ cache.deploy[e] # deploy[e]
    \/ EngAt(e, {"configmap", "deployment"})
    \/ deploy[e] # None /\ deploy[e].hash = CachedDesired(e)

StoreInv(e) ==
    engine[e].gen = 0 =>
        \/ EngDue(e) \/ EngLater(e)
        \/ EngAt(e, {"configmap", "deployment", "status"})
        \/ store[e] = CachedDesired(e)

ControlInv ==
    /\ Typed /\ RuleSetCopies /\ EngineCopies /\ ObjectCopies
    /\ RsStaleInv /\ TodoInv /\ EngStaleInv
    /\ \A r \in RuleSets : RuleSetInv(r)
    /\ \A e \in Engines : MapInv(e) /\ DeployInv(e) /\ StoreInv(e)

=============================================================================
