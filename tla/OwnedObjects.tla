---------------------------- MODULE OwnedObjects ----------------------------
(***************************************************************************)
(* The objects of one Engine (applyOwnedObjects and reconcileStatus of     *)
(* internal/controller/engine_controller.go) among everybody else who      *)
(* writes them: users and other controllers that edit or delete an owned   *)
(* object, the Deployment controller that keeps its revision annotation    *)
(* and rolls out pods, and the garbage collector.                          *)
(*                                                                         *)
(* Reads are of the current objects: what a lagging informer cache does to *)
(* the same steps is the subject of ControlPlane.                          *)
(***************************************************************************)
EXTENDS EngineAssets, Sequences

CONSTANTS
    Specs,         \* the specs a user may give the Engine
    Bundles,       \* what its RuleSet may compile to, here equal to its hash
    OperatorAddr,  \* the operator's gRPC address, or None
    MaxEdits,      \* bound: creations and edits of the Engine or its RuleSet
    MaxForeign,    \* bound: edits and deletions of owned objects by others
    MaxErrors      \* bound: failing API calls

(* What the API server admits, in an Engine and in the objects built for it. *)
EngineSpec ==
    [name : STRING, mode : {"Detection", "Blocking"}, upstream : STRING,
     port : Int, spoaPort : Nat, replicas : Nat]

Engine(s, uid) ==
    [uid |-> uid, name |-> s.name, mode |-> s.mode, upstream |-> s.upstream,
     port |-> s.port, spoaPort |-> s.spoaPort, replicas |-> s.replicas]

(* What its process is to run with. *)
Config(s) ==
    [upstream |-> s.upstream, mode |-> s.mode, listen |-> 8080, metrics |-> 9090,
     spoa |-> IF s.spoaPort = 0 THEN None ELSE s.spoaPort, operator |-> OperatorAddr,
     name |-> IF OperatorAddr = None THEN None ELSE s.name]

Templates == {BuildDeployment(s, b, OperatorAddr).template : s \in Specs, b \in Bundles}

-----------------------------------------------------------------------------
(* The owned objects *)

(* The order of the loop in applyOwnedObjects. *)
Order == <<"ServiceAccount", "ConfigMap", "Deployment", "Service">>
Kinds == {Order[i] : i \in DOMAIN Order}
After(kind) ==
    LET i == CHOOSE i \in DOMAIN Order : Order[i] = kind
    IN  IF i = Len(Order) THEN "status" ELSE Order[i + 1]

Built(kind, e, b) ==
    [ServiceAccount |-> BuildServiceAccount(e),
     ConfigMap |-> BuildRulesConfigMap(e, b),
     Deployment |-> BuildDeployment(e, b, OperatorAddr),
     Service |-> BuildService(e)][kind]

Stamped(obj, uid) ==
    [f \in DOMAIN obj \cup {"owner"} |-> IF f = "owner" THEN uid ELSE obj[f]]

DesiredUnowned(kind, e, b) ==
    Stamped(Built(kind, e, b), IF kind = "Service" THEN None ELSE e.uid)

(* The desired objects of an Engine, with the owner reference that              *)
(* SetControllerReference stamps on each of them.                               *)
Desired(kind, e, b) == Stamped(Built(kind, e, b), e.uid)

CopiedNoReplicas(kind) ==
    {"labels", "annotations", "owner"} \cup
        [ServiceAccount |-> {}, ConfigMap |-> {"data"},
         Deployment |-> {"template"}, Service |-> {"ports", "selector"}][kind]

(* The fields the mutate functions copy onto an existing object. The selector   *)
(* of a Deployment is not among them: it is set on creation only.               *)
Copied(kind) ==
    {"labels", "annotations", "owner"} \cup
        [ServiceAccount |-> {}, ConfigMap |-> {"data"},
         Deployment |-> {"replicas", "template"}, Service |-> {"ports", "selector"}][kind]

(* What the API server refuses of what is built for an Engine: a port that is   *)
(* none, and a Service that has the same port twice.                            *)
Admits(kind, e) ==
    /\ kind \in {"Deployment", "Service"} => ListenerPort(e) \in 1..65535
    /\ kind = "Service" => e.spoaPort # ListenerPort(e)

ASSUME OwnedAssumption ==
    /\ Specs \subseteq EngineSpec
    /\ Bundles # {}
    /\ {MaxEdits, MaxForeign, MaxErrors} \subseteq Nat
    /\ None \notin Nat \cup Bundles \cup Templates
    /\ None \notin {"Detection", "Blocking", "spoa", "/etc/coraza/rules.conf"}
    /\ \A s \in Specs : None \notin {s.name, s.upstream, Config(s)}
    /\ \A s, t \in Specs : s.name = t.name
    /\ \A s \in Specs, n \in 1..MaxEdits :
          /\ Engine(s, n) # None
          /\ \A k \in Kinds, b \in Bundles : Desired(k, Engine(s, n), b) # None

VARIABLES
    engine,   \* the Engine, or None
    bundle,   \* what its RuleSet compiles to
    api,      \* the owned objects in the API server, by kind, or None
    queued,   \* the Engine is in the controller's work queue
    pc,       \* the kind the worker applies next, "idle" or "status"
    work,     \* the worker's copy of the Engine, and the bundle it compiled
    pods,     \* the template of the ready pods, or None
    ready,    \* status.readyReplicas of the Deployment, as a fact
    edits, foreign, errors  \* counters for the bounds

vars == <<engine, bundle, api, queued, pc, work, pods, ready, edits, foreign, errors>>
cluster == <<engine, bundle, pods, ready, edits, foreign>>

NoWork == [engine |-> None, bundle |-> None]

Init ==
    /\ engine = None
    /\ bundle = CHOOSE b \in Bundles : TRUE
    /\ api = [k \in Kinds |-> None]
    /\ queued = FALSE
    /\ pc = "idle"
    /\ work = NoWork
    /\ pods = None
    /\ ready = FALSE
    /\ edits = 0 /\ foreign = 0 /\ errors = 0

-----------------------------------------------------------------------------
(* How the desired objects are brought about *)

(* CreateOrPatch with the kind's mutate function: the object afterwards. *)
CreateOrPatch(kind, desired) ==
    IF api[kind] = None THEN desired
    ELSE [f \in DOMAIN api[kind] |->
            IF f \in Copied(kind) THEN desired[f] ELSE api[kind][f]]

-----------------------------------------------------------------------------
(* Users *)

CreateEngine(s) ==
    /\ engine = None
    /\ edits < MaxEdits
    /\ edits' = edits + 1
    /\ engine' = Engine(s, edits')
    /\ queued' = TRUE
    /\ UNCHANGED <<bundle, api, pc, work, pods, ready, foreign, errors>>

(* A new generation of the Engine passes the predicate of SetupWithManager. *)
EditEngine(s) ==
    /\ engine # None
    /\ edits < MaxEdits
    /\ edits' = edits + 1
    /\ engine' = Engine(s, engine.uid)
    /\ queued' = TRUE
    /\ UNCHANGED <<bundle, api, pc, work, pods, ready, foreign, errors>>

(* The RuleSet compiles to something else; its watch enqueues the Engine. *)
EditRules(b) ==
    /\ b # bundle
    /\ edits < MaxEdits
    /\ edits' = edits + 1
    /\ bundle' = b
    /\ queued' = (queued \/ engine # None)
    /\ UNCHANGED <<engine, api, pc, work, pods, ready, foreign, errors>>

DeleteEngine ==
    /\ engine # None
    /\ engine' = None
    /\ queued' = TRUE
    /\ UNCHANGED <<bundle, api, pc, work, pods, ready, edits, foreign, errors>>

-----------------------------------------------------------------------------
(* Others that write the owned objects; every change is an event of a watch of *)
(* Owns(), which enqueues the controller of the object.                        *)

(* kubectl scale, or an edit of the Service's selector. *)
ForeignEdit(kind) ==
    /\ foreign < MaxForeign
    /\ api[kind] # None
    /\ \/ /\ kind = "Deployment"
          /\ api' = [api EXCEPT ![kind].replicas = @ + 1]
       \/ /\ kind = "Service"
          /\ api' = [api EXCEPT ![kind].selector = None]
    /\ foreign' = foreign + 1
    /\ queued' = TRUE
    /\ UNCHANGED <<engine, bundle, pc, work, pods, ready, edits, errors>>

(* Pods go with their Deployment. *)
Gone(kind) ==
    /\ api' = [api EXCEPT ![kind] = None]
    /\ pods' = IF kind = "Deployment" THEN None ELSE pods
    /\ ready' = (kind # "Deployment" /\ ready)
    /\ queued' = TRUE

ForeignDelete(kind) ==
    /\ foreign < MaxForeign
    /\ api[kind] # None
    /\ Gone(kind)
    /\ foreign' = foreign + 1
    /\ UNCHANGED <<engine, bundle, pc, work, edits, errors>>

LiveOwners == IF engine = None THEN {None} ELSE {None, engine.uid}

(* An object whose owner is not there, or no longer there, is collected. *)
GarbageCollect(kind) ==
    /\ api[kind] # None
    /\ api[kind].owner \notin LiveOwners
    /\ Gone(kind)
    /\ UNCHANGED <<engine, bundle, pc, work, edits, foreign, errors>>

(* The Deployment controller keeps deployment.kubernetes.io/revision there. *)
SyncRevision ==
    /\ api["Deployment"] # None
    /\ "revision" \notin api["Deployment"].annotations
    /\ api' = [api EXCEPT !["Deployment"].annotations = @ \cup {"revision"}]
    /\ queued' = TRUE
    /\ UNCHANGED <<cluster, pc, work, errors>>

(* A pod of the template becomes ready: its mounts exist, its process gets      *)
(* through FromEnv and the errors of Run, with the rules of the ConfigMap for   *)
(* its rule file, and the probe reaches it.                                     *)
Starts(template) ==
    LET config == FromEnv(template.env) IN
    /\ api["ServiceAccount"] # None
    /\ api["ConfigMap"] # None
    /\ config # None
    /\ Runs(config, api["ConfigMap"].data)
    /\ Probed(config, template.probe)

(* The pods of a new template replace the old ones when they are ready          *)
(* (maxUnavailable is 0); until then the old ones stay.                         *)
RollOut ==
    /\ api["Deployment"] # None
    /\ pods # api["Deployment"].template
    /\ Starts(api["Deployment"].template)
    /\ pods' = api["Deployment"].template
    /\ ready' = TRUE
    /\ queued' = TRUE
    /\ UNCHANGED <<engine, bundle, api, pc, work, edits, foreign, errors>>

-----------------------------------------------------------------------------
(* The Engine controller *)

(* Reconcile reads the Engine and compiles its RuleSet. *)
Begin ==
    /\ pc = "idle" /\ queued
    /\ queued' = FALSE
    /\ IF engine = None
       THEN UNCHANGED <<pc, work>>
       ELSE /\ pc' = Order[1]
            /\ work' = [engine |-> engine, bundle |-> bundle]
    /\ UNCHANGED <<cluster, api, errors>>

(* applyOwnedObject for the next kind; a change comes back as an event. *)
Apply(kind) ==
    LET obj == CreateOrPatch(kind, Desired(kind, work.engine, work.bundle)) IN
    /\ pc = kind /\ Admits(kind, work.engine)
    /\ api' = [api EXCEPT ![kind] = obj]
    /\ queued' = (queued \/ obj # api[kind])
    /\ pc' = After(kind)
    /\ UNCHANGED <<cluster, work, errors>>

(* The API server refuses the object, every time: the same error path. *)
Refused(kind) ==
    /\ pc = kind /\ ~Admits(kind, work.engine)
    /\ pc' = "idle"
    /\ work' = NoWork
    /\ queued' = TRUE
    /\ UNCHANGED <<cluster, api, errors>>

FailHolding ==
    /\ pc # "idle"
    /\ errors < MaxErrors
    /\ errors' = errors + 1
    /\ pc' = "idle"
    /\ queued' = TRUE
    /\ UNCHANGED <<cluster, api, work>>

(* A call fails: the error sends the request back to the queue. *)
Fail ==
    /\ pc # "idle"
    /\ errors < MaxErrors
    /\ errors' = errors + 1
    /\ pc' = "idle"
    /\ work' = NoWork
    /\ queued' = TRUE
    /\ UNCHANGED <<cluster, api>>

(* reconcileStatus: an error when the Deployment is not there, RequeueAfter     *)
(* while the rollout is not complete.                                           *)
Finish ==
    /\ pc = "status"
    /\ pc' = "idle"
    /\ work' = NoWork
    /\ queued' = (queued \/ api["Deployment"] = None \/ ~ready)
    /\ UNCHANGED <<cluster, api, errors>>

Operator == Begin \/ (\E k \in Kinds : Apply(k) \/ Refused(k)) \/ Finish

Next ==
    \/ \E s \in Specs : CreateEngine(s) \/ EditEngine(s)
    \/ \E b \in Bundles : EditRules(b)
    \/ DeleteEngine
    \/ \E k \in Kinds : ForeignEdit(k) \/ ForeignDelete(k) \/ GarbageCollect(k)
    \/ SyncRevision
    \/ RollOut
    \/ Operator
    \/ Fail

(* The worker runs, the Deployment controller and the garbage collector do      *)
(* their work; nobody has to edit anything, and calls need not fail.            *)
Fairness ==
    /\ WF_vars(Operator)
    /\ SF_vars(SyncRevision)
    /\ WF_vars(RollOut)
    /\ \A k \in Kinds : WF_vars(GarbageCollect(k))

Spec == Init /\ [][Next]_vars
FairSpec == Spec /\ Fairness

-----------------------------------------------------------------------------
Engines == {Engine(s, n) : s \in Specs, n \in 1..edits}

(* Every variable keeps its type, and the worker holds an Engine exactly while  *)
(* it is inside a reconcile.                                                    *)
TypeOK ==
    /\ engine \in Engines \cup {None}
    /\ bundle \in Bundles
    /\ DOMAIN api = Kinds
    /\ queued \in BOOLEAN
    /\ pc \in Kinds \cup {"idle", "status"}
    /\ work.engine = None <=> pc = "idle"
    /\ pods = None \/ FromEnv(pods.env) # None
    /\ ready = (pods # None)
    /\ edits \in 0..MaxEdits /\ foreign \in 0..MaxForeign /\ errors \in 0..MaxErrors

(* The Service leads to the engine's listeners: it selects the pods, and its    *)
(* SPOA port, a container port's name, is the port the process opened.          *)
ServiceLeadsToPods ==
    LET config == FromEnv(pods.env)
        svc == api["Service"]
    IN  /\ svc.selector = pods.labels
        /\ svc.ports["http"] = pods.probe
        /\ (svc.ports["spoa"] # None) <=> (config.spoa # None)
        /\ config.spoa # None => pods.ports[svc.ports["spoa"]] = config.spoa

(* The ready pods run with what the Engine's spec says. *)
PodsRunTheSpec ==
    LET config == FromEnv(pods.env) IN
    /\ config.mode = engine.mode
    /\ config.upstream = engine.upstream
    /\ config.spoa = IF engine.spoaPort = 0 THEN None ELSE engine.spoaPort
    /\ pods.hash = bundle

Serving ==
    /\ engine # None /\ pods # None
    /\ \A k \in Kinds : api[k] # None
    /\ api["ConfigMap"].data = bundle
    /\ api["Deployment"].replicas = engine.replicas
    /\ PodsRunTheSpec
    /\ ServiceLeadsToPods

(* No trigger is missing: whenever the controller has nothing to do, the owned  *)
(* objects are there, and once the Deployment's template is rolled out the      *)
(* Engine is served as its spec says, whatever others did to the objects and    *)
(* whichever calls failed in between (applyOwnedObjects, the Owns watches).     *)
ServedAtRest ==
    engine # None /\ ~queued /\ pc = "idle" =>
        /\ \A k \in Kinds : api[k] # None
        /\ pods = api["Deployment"].template => Serving

(* An Engine whose process can run: it is on the default port, which is where   *)
(* the process listens, its SPOA port is neither that one nor the metrics port, *)
(* and its upstream and its rules parse. The API server does not ask for any of *)
(* it.                                                                          *)
Runnable ==
    /\ ListenerPort(engine) = defaultListenerPort
    /\ engine.spoaPort \notin {8080, 9090}
    /\ engine.upstream \in URLs
    /\ bundle \in Parsable

(* A runnable Engine that is no longer edited is in the end served as its spec  *)
(* says, whatever others did to its objects, whichever calls failed, however    *)
(* often it was deleted and created and whatever could not run before           *)
(* (engine_controller.go, applyOwnedObjects and the Owns watches).              *)
Converges ==
    <>[](engine # None /\ Runnable) => <>[]Serving

(* A deleted Engine leaves nothing behind, although a reconcile that was under  *)
(* way may create its objects after the deletion: applyOwnedObjects stamps      *)
(* owner references "so GC cleans up on Engine deletion".                       *)
DeletedLeavesNothing ==
    <>[](engine = None) => <>[](\A k \in Kinds : api[k] = None)

(* engine_types.go, ListenerConfig: "port is the TCP port the engine listens    *)
(* on." The process a Deployment starts listens on the port that is probed and  *)
(* exposed as the Engine's listener.                                            *)
ListensOnSpecPort ==
    api["Deployment"] # None =>
        LET template == api["Deployment"].template
        IN  FromEnv(template.env).listen = template.ports["http"]

(* engine_controller.go, applyOwnedObject: it logs an object "only when it      *)
(* actually changed, so a steady-state reconcile stays silent". An Engine that  *)
(* is served as its spec says is in the end left alone by the controller.       *)
SteadyStateIsSilent ==
    <>[]Serving => <>[](~queued /\ pc = "idle")

-----------------------------------------------------------------------------
(* The inductive invariant. While nothing is queued, what the worker has been   *)
(* through is as a reconcile would leave it, and it works with the present      *)
(* Engine and bundle.                                                           *)

Applied(k) == api[k] # None /\ CreateOrPatch(k, Desired(k, engine, bundle)) = api[k]

(* The kinds before the worker's, all of them when it is not in the loop. *)
Before(at) ==
    {k \in Kinds : \A j \in DOMAIN Order :
                      Order[j] = at => \E i \in 1..(j - 1) : Order[i] = k}

TriggerInv ==
    engine # None /\ ~queued =>
        /\ \A k \in Before(pc) : Applied(k)
        /\ pc # "idle" => work = [engine |-> engine, bundle |-> bundle]

Fields(kind) == Copied(kind) \cup (IF kind = "Deployment" THEN {"selector"} ELSE {})

(* An object has its fields, and an Engine that was there for an owner. *)
ObjectInv(k) ==
    api[k] # None =>
        /\ DOMAIN api[k] = Fields(k)
        /\ api[k]["owner"] \in 1..edits
        /\ k = "Deployment" => /\ api[k]["template"] \in Templates
                               /\ api[k]["selector"] = api[k]["template"].labels

WorkInv ==
    IF pc = "idle" THEN work = NoWork ELSE work \in [engine : Engines, bundle : Bundles]

OwnedInv ==
    /\ TypeOK
    /\ pods \in Templates \cup {None}
    /\ WorkInv /\ TriggerInv
    /\ \A k \in Kinds : ObjectInv(k)

(* The objects of an Engine that is gone are the garbage collector's: it left   *)
(* none behind without an owner (SetControllerReference in applyOwnedObjects).  *)
OrphansAreCollected ==
    engine = None => \A k \in Kinds : api[k] # None => api[k]["owner"] \notin LiveOwners

(* At rest nothing keeps the pods of a runnable Engine from being rolled out:   *)
(* their mounts are there, FromEnv takes their environment, Run finds the rules *)
(* and the upstream it was meant to and binds its listeners, and listens where  *)
(* it is probed.                                                                *)
PodsCanStartAtRest ==
    engine # None /\ ~queued /\ pc = "idle" /\ Runnable =>
        Starts(api["Deployment"].template)

(* A Deployment selects the pods of its own template, which the API server      *)
(* demands of every update, although its selector is never written again.       *)
SelectorMatches ==
    api["Deployment"] # None =>
        api["Deployment"].selector = api["Deployment"].template.labels
=============================================================================
