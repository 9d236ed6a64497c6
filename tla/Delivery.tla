------------------------------ MODULE Delivery ------------------------------
(***************************************************************************)
(* The operator's replicas together with the engine pods of one Engine:    *)
(* from the rules users want to the rules the pods run. Each replica       *)
(* (cmd/main.go) has a bundle store of its own, here the promise           *)
(* LatestBundle that RuleStore implements, with the replica as the key;    *)
(* its gRPC server listens from the start, its controllers run once the    *)
(* manager has the lease. The controllers are ControlPlane's in three      *)
(* writes: the ConfigMap, the Deployment and the store. A pod boots from   *)
(* the ConfigMap, if that parses, and subscribes, through the Service, at  *)
(* any replica that is up.                                                 *)
(*                                                                         *)
(* LatestBundle promises nothing about waiting, and RuleStore's runs show  *)
(* that a store and a stream can wait for ever: here that is a fault.      *)
(***************************************************************************)
EXTENDS Naturals, Sequences, FiniteSets

CONSTANTS
    Replicas,    \* operator processes there may be
    Wanted,      \* how many of them the operator's Deployment asks for
    Pods,        \* engine pods
    Bundles,     \* compiled rules
    Parsable,    \* those of them that an engine's parser accepts
    None,        \* no bundle, no holder
    MaxChanges,  \* bound: changes of the rules and rollouts of the operator
    MaxFaults    \* bound: crashes, lost leases, broken streams, container
                 \* restarts, stores and streams that get stuck

ASSUME DeliveryAssumption ==
    /\ IsFiniteSet(Replicas) /\ Wanted \in 1..Cardinality(Replicas)
    /\ {MaxChanges, MaxFaults} \subseteq Nat
    /\ Parsable \subseteq Bundles /\ Parsable # {}
    /\ None \notin Bundles \cup Replicas
    /\ Replicas \cap Pods = {}

VARIABLES
    rules,      \* the bundles users have asked for, the last one being desired
    configMap, template,  \* the bundle in the ConfigMap, and in the pod template
    elect,      \* --leader-elect
    lease,      \* its holder
    proc,       \* the life of each replica
    seen,       \* how far its cache has followed rules
    work,       \* the bundles its Engine reconcile has yet to write, by object
    current, open, key, last,  \* LatestBundle's: stores and streams
    stuck,      \* the stores (by replica) and streams (by pod) that wait for ever
    pod,        \* pod[p]: its template and the bundle it runs, None when it cannot
    changes, faults

stores == <<current, open, key, last>>
bounds == <<changes, faults>>
vars == <<rules, configMap, template, elect, lease, proc, seen, work, stores, stuck, pod, bounds>>

L == INSTANCE LatestBundle
        WITH Keys <- Replicas, Streams <- Pods, Contents <- Bundles \cup {None}

Desired(o) == rules[seen[o]]
Up == {o \in Replicas : proc[o] \in {"serving", "leading"}}
Fault == faults < MaxFaults /\ faults' = faults + 1 /\ UNCHANGED changes

(* An installed system: one process leads, its store filled, and the pods run   *)
(* the first rules, which parse, but have not connected yet. (A stream that is  *)
(* not open is recorded under that process, and a process that is down or stops *)
(* has seen nothing.)                                                           *)
Oldest == CHOOSE o \in Replicas : TRUE
FirstBundle == CHOOSE b \in Parsable : TRUE

Init ==
    /\ rules = <<FirstBundle>>
    /\ configMap = FirstBundle /\ template = FirstBundle
    /\ elect \in BOOLEAN
    /\ lease = IF elect THEN Oldest ELSE None
    /\ proc = [o \in Replicas |-> IF o = Oldest THEN "leading" ELSE "down"]
    /\ seen = [o \in Replicas |-> 1]
    /\ work = [o \in Replicas |-> <<>>]
    /\ current = [o \in Replicas |-> IF o = Oldest THEN [sha |-> FirstBundle, seq |-> 1]
                                     ELSE L!NoBundle]
    /\ open = {} /\ key = [p \in Pods |-> Oldest] /\ last = [p \in Pods |-> L!NoBundle]
    /\ stuck = {}
    /\ pod = [p \in Pods |-> [template |-> template, active |-> configMap]]
    /\ changes = 0 /\ faults = 0

EditRules(b) ==
    /\ changes < MaxChanges /\ changes' = changes + 1
    /\ rules[Len(rules)] # b
    /\ rules' = Append(rules, b)
    /\ UNCHANGED <<configMap, template, elect, lease, proc, seen, work, stores, stuck, pod, faults>>

-----------------------------------------------------------------------------
(* Operator processes *)

(* main up to mgr.Start: an empty store, its gRPC server, caches that sync. The *)
(* Deployment starts what is missing, and one more in a rollout.                *)
Start(o) ==
    /\ proc[o] = "down"
    /\ \/ Cardinality(Up) < Wanted /\ UNCHANGED changes
       \/ /\ Cardinality(Up) = Wanted
          /\ changes < MaxChanges /\ changes' = changes + 1
    /\ proc' = [proc EXCEPT ![o] = "serving"]
    /\ seen' = [seen EXCEPT ![o] = Len(rules)]
    /\ UNCHANGED <<rules, configMap, template, elect, lease, work, stores, stuck, pod, faults>>

LeadAtOnce(o) ==
    /\ proc[o] = "serving"
    /\ lease' = IF elect THEN o ELSE None
    /\ proc' = [proc EXCEPT ![o] = "leading"]
    /\ UNCHANGED <<rules, configMap, template, elect, seen, work, stores, stuck, pod, bounds>>

(* The manager starts its controllers, with the lease if it is to have one. *)
Lead(o) ==
    /\ proc[o] = "serving"
    /\ elect => lease = None
    /\ lease' = IF elect THEN o ELSE None
    /\ proc' = [proc EXCEPT ![o] = "leading"]
    /\ UNCHANGED <<rules, configMap, template, elect, seen, work, stores, stuck, pod, bounds>>

(* The lease of a process that is gone runs out. *)
LeaseExpires ==
    /\ lease # None
    /\ proc[lease] # "leading"
    /\ lease' = None
    /\ UNCHANGED <<rules, configMap, template, elect, proc, seen, work, stores, stuck, pod, bounds>>

(* SIGTERM for a replica too many: mgr.Start returns, GracefulStop takes no new *)
(* streams and waits for the ones there are.                                    *)
Stop(o) ==
    /\ o \in Up
    /\ Cardinality(Up) > Wanted
    /\ proc' = [proc EXCEPT ![o] = "stopping"]
    /\ seen' = [seen EXCEPT ![o] = 1]
    /\ work' = [work EXCEPT ![o] = <<>>]
    /\ UNCHANGED <<rules, configMap, template, elect, lease, stores, stuck, pod, bounds>>

(* A process ends: its store and its streams end with it. *)
StreamsTo(o) == {p \in open : key[p] = o}
CloseAll(ps) ==
    /\ open' = open \ ps
    /\ key' = [p \in Pods |-> IF p \in ps THEN Oldest ELSE key[p]]
    /\ last' = [p \in Pods |-> IF p \in ps THEN L!NoBundle ELSE last[p]]

Ends(o) ==
    /\ proc' = [proc EXCEPT ![o] = "down"]
    /\ seen' = [seen EXCEPT ![o] = 1]
    /\ work' = [work EXCEPT ![o] = <<>>]
    /\ current' = [current EXCEPT ![o] = L!NoBundle]
    /\ CloseAll(StreamsTo(o))
    /\ stuck' = stuck \ ({o} \cup StreamsTo(o))
    /\ UNCHANGED <<rules, configMap, template, elect, lease, pod>>

(* shutdownGRPC: streams never end by themselves, so the timer stops them. *)
ShutdownGRPC(o) == proc[o] = "stopping" /\ Ends(o) /\ UNCHANGED bounds

(* The process crashes, or cannot renew its lease and main is fatal. *)
Crash(o) == proc[o] # "down" /\ Fault /\ Ends(o)

-----------------------------------------------------------------------------
(* Its controllers *)

(* What the cache has matters once the controllers run. *)
Refresh(o) ==
    /\ proc[o] = "leading" /\ seen[o] < Len(rules)
    /\ seen' = [seen EXCEPT ![o] = @ + 1]
    /\ UNCHANGED <<rules, configMap, template, elect, lease, proc, work, stores, stuck, pod, bounds>>

(* An Engine reconcile, which comes when an object is not as desired. *)
Reconcile(o) ==
    /\ proc[o] = "leading" /\ work[o] = <<>>
    /\ {configMap, template, current[o].sha} # {Desired(o)}
    /\ work' = [work EXCEPT ![o] = [i \in 1..3 |-> Desired(o)]]
    /\ UNCHANGED <<rules, configMap, template, elect, lease, proc, seen, stores, stuck, pod, bounds>>

(* Publish needs the store's lock; a stream that waits is drained by it. *)
Publish(o, b) ==
    /\ o \notin stuck
    /\ L!Publish(o, b)
    /\ stuck' = stuck \ StreamsTo(o)

(* Its next write: ConfigMap, Deployment, then PublishIfChanged. *)
Published(o, b) ==
    IF current[o].sha = b THEN o \notin stuck /\ UNCHANGED <<stores, stuck>>
    ELSE Publish(o, b)

Write(o) ==
    LET b == Head(work[o]) IN
    /\ work[o] # <<>>
    /\ work' = [work EXCEPT ![o] = Tail(@)]
    /\ configMap' = IF Len(work[o]) = 3 THEN b ELSE configMap
    /\ template' = IF Len(work[o]) = 2 THEN b ELSE template
    /\ IF Len(work[o]) = 1 THEN Published(o, b) ELSE UNCHANGED <<stores, stuck>>
    /\ UNCHANGED <<rules, elect, lease, proc, seen, pod, bounds>>

(* The RuleSet controller publishes too, whatever the Engine controller does. *)
PublishRuleSet(o) ==
    /\ proc[o] = "leading"
    /\ current[o].sha # Desired(o)
    /\ Publish(o, Desired(o))
    /\ UNCHANGED <<rules, configMap, template, elect, lease, proc, seen, work, pod, bounds>>

(* sendLatest waits with the lock held, for a stream of any Engine of which the *)
(* client has gone: the store is stuck until its process ends.                  *)
SendLatestWaits(o) ==
    /\ proc[o] = "leading" /\ o \notin stuck
    /\ stuck' = stuck \cup {o}
    /\ Fault
    /\ UNCHANGED <<rules, configMap, template, elect, lease, proc, seen, work, stores, pod>>

(* A Publish has come before Subscribe's initial send, which waits for the      *)
(* channel that nobody receives from yet.                                       *)
InitialSendWaits(p) ==
    /\ p \in open \ stuck /\ last[p].seq = 0 /\ current[key[p]].seq > 1
    /\ stuck' = stuck \cup {p}
    /\ Fault
    /\ UNCHANGED <<rules, configMap, template, elect, lease, proc, seen, work, stores, pod>>

-----------------------------------------------------------------------------
(* Engine pods *)

(* loadInitialWAF: with rules that do not parse the process ends, and the pod   *)
(* is not ready. Its stream ends with the process before it.                    *)
Boot(p, t) ==
    /\ pod' = [pod EXCEPT ![p] =
                 [template |-> t, active |-> IF configMap \in Parsable THEN configMap ELSE None]]
    /\ CloseAll({p})
    /\ stuck' = stuck \ {p}
    /\ UNCHANGED <<rules, configMap, template, elect, lease, proc, seen, work, current>>

ReplaceAtOnce(p) ==
    /\ pod[p].template # template
    /\ Boot(p, template)
    /\ UNCHANGED bounds

(* The Deployment replaces a pod whose template is not the present one, when    *)
(* the new one is ready: maxUnavailable is 0.                                   *)
Replace(p) ==
    /\ pod[p].template # template
    /\ configMap \in Parsable
    /\ Boot(p, template)
    /\ UNCHANGED bounds

(* A container ends and is restarted; while it fails it is started again and    *)
(* again, each time with what the ConfigMap has by then.                        *)
RestartContainer(p) == Fault /\ Boot(p, pod[p].template)

RestartFailed(p) ==
    /\ pod[p].active = None /\ configMap \in Parsable
    /\ Boot(p, pod[p].template)
    /\ UNCHANGED bounds

(* SubscribeConfig's loop: the Service picks a replica; the stream may break. *)
Connect(p, o) ==
    /\ pod[p].active # None
    /\ o \in Up
    /\ L!Open(p, o)
    /\ UNCHANGED <<rules, configMap, template, elect, lease, proc, seen, work, stuck, pod, bounds>>

Break(p) ==
    /\ p \in open /\ CloseAll({p})
    /\ stuck' = stuck \ {p}
    /\ Fault
    /\ UNCHANGED <<rules, configMap, template, elect, lease, proc, seen, work, current, pod>>

ReceiveSkipsBooted(p) ==
    LET b == current[key[p]].sha IN
    /\ stuck \cap {p, key[p]} = {}
    /\ L!DeliverCurrent(p)
    /\ pod[p].template # b
    /\ pod' = [pod EXCEPT ![p].active = IF b \in Parsable THEN b ELSE @]
    /\ UNCHANGED <<rules, configMap, template, elect, lease, proc, seen, work, stuck, bounds>>

(* The store's current bundle arrives, and newBundleHandler swaps it in or, if  *)
(* it does not parse, keeps the previous one.                                   *)
Receive(p) ==
    LET b == current[key[p]].sha IN
    /\ stuck \cap {p, key[p]} = {}
    /\ L!DeliverCurrent(p)
    /\ pod' = [pod EXCEPT ![p].active = IF b \in Parsable THEN b ELSE @]
    /\ UNCHANGED <<rules, configMap, template, elect, lease, proc, seen, work, stuck, bounds>>

-----------------------------------------------------------------------------
Operator(o) ==
    \/ Start(o) \/ Lead(o) \/ Stop(o) \/ ShutdownGRPC(o) \/ Crash(o)
    \/ Refresh(o) \/ Reconcile(o) \/ Write(o) \/ PublishRuleSet(o) \/ SendLatestWaits(o)

Engine(p) ==
    \/ Replace(p) \/ RestartContainer(p) \/ RestartFailed(p)
    \/ Break(p) \/ Receive(p) \/ InitialSendWaits(p)
    \/ \E o \in Replicas : Connect(p, o)

Next ==
    \/ \E b \in Bundles : EditRules(b)
    \/ LeaseExpires
    \/ \E o \in Replicas : Operator(o)
    \/ \E p \in Pods : Engine(p)

(* Kubernetes keeps the replicas there are to be, lets leases of the dead run   *)
(* out, replaces pods and restarts containers; caches follow, workers work,     *)
(* pods reconnect. Nothing is assumed of a store or a stream that is stuck, nor *)
(* that the RuleSet controller publishes what the Engine controller also does.  *)
Fairness ==
    /\ WF_vars(LeaseExpires)
    /\ WF_vars(\E o \in Replicas : Start(o)) /\ WF_vars(\E o \in Replicas : Lead(o))
    /\ WF_vars(\E o \in Replicas : Stop(o) \/ ShutdownGRPC(o))
    /\ WF_vars(\E o \in Replicas : Refresh(o))
    /\ \A o \in Replicas : WF_vars(Reconcile(o) \/ Write(o))
    /\ \A p \in Pods :
          /\ WF_vars(Replace(p) \/ RestartFailed(p))
          /\ WF_vars(Receive(p) \/ \E o \in Replicas : Connect(p, o))

Spec == Init /\ [][Next]_vars /\ Fairness

-----------------------------------------------------------------------------
(* Every variable keeps its type; a pod runs rules that parse or nothing,       *)
(* streams lead to processes that run, a process that is down has an empty      *)
(* store, and with leader election only the holder of the lease reconciles      *)
(* (main.go: order of startGRPCServer, mgr.Start and shutdownGRPC).             *)
TypeOK ==
    /\ rules # <<>> /\ {configMap, template} \subseteq Bundles
    /\ \A p \in Pods : pod[p].active \in Parsable \cup {None}
    /\ stuck \subseteq Replicas \cup open
    /\ \A o \in Replicas :
          /\ proc[o] \in {"down", "serving", "leading", "stopping"}
          /\ seen[o] \in 1..Len(rules)
          /\ proc[o] = "down" => current[o] = L!NoBundle /\ StreamsTo(o) = {}
          /\ work[o] # <<>> => proc[o] = "leading" /\ (elect => lease = o)
    /\ \A p \in open : last[p].seq <= current[key[p]].seq
    /\ changes \in 0..MaxChanges /\ faults \in 0..MaxFaults

Asked == {rules[i] : i \in 1..Len(rules)}

(* Rules that do not parse stop nobody by being asked for: they may be in the   *)
(* ConfigMap, the template and the store, be rolled out and be sent to a pod    *)
(* that runs, and it runs on. It takes a container that ends by itself to meet  *)
(* them (newBundleHandler: "keeping previous WAF"; loadInitialWAF; the rolling  *)
(* update of BuildDeployment).                                                  *)
BadRulesStopNobody ==
    \A p \in Pods : pod[p].active = None => faults > 0 /\ ~(Asked \subseteq Parsable)

(* Once users, rollouts and faults leave the system alone, with rules that      *)
(* parse and no store or stream stuck, every pod runs what users asked for      *)
(* last, whatever overlap of operator processes, stale caches, crash between    *)
(* two writes, lost lease, late stream, failed start or stuck store came        *)
(* before, with leader election and without it.                                 *)
Delivered ==
    <>[](rules[Len(rules)] \in Parsable /\ stuck = {})
        => <>[](\A p \in Pods : pod[p].active = rules[Len(rules)])

(* values.yaml: "set true for HA deployments". Delivered, with replicas that    *)
(* stand by.                                                                    *)
DeliveredByReplicas == elect => Delivered

-----------------------------------------------------------------------------
(* The inductive invariant. *)

Running == (Asked \cap Parsable) \cup {None}
Stored == {L!NoBundle} \cup [sha : Asked, seq : Nat \ {0}]

(* A process that is down has nothing, and who leads has the lease. *)
ProcInv(o) ==
    /\ proc[o] = "down" => current[o] = L!NoBundle
    /\ work[o] # <<>> => proc[o] = "leading"
    /\ elect /\ proc[o] = "leading" => lease = o

(* A stream leads to a process with the store it was opened on: what it sent    *)
(* last is not past what the store has, and is what the pod runs if it parses.  *)
StreamInv(p) ==
    /\ p \notin open => last[p] = L!NoBundle /\ key[p] = Oldest
    /\ p \in open => /\ proc[key[p]] # "down"
                     /\ last[p].seq <= current[key[p]].seq
                     /\ last[p].seq = current[key[p]].seq => last[p] = current[key[p]]
    /\ last[p].seq # 0 /\ last[p].sha \in Parsable => pod[p].active = last[p].sha

DeliveryInv ==
    /\ rules \in Seq(Bundles) /\ rules # <<>>
    /\ {configMap, template} \subseteq Asked
    /\ elect \in BOOLEAN /\ lease \in Replicas \cup {None}
    /\ proc \in [Replicas -> {"down", "serving", "leading", "stopping"}]
    /\ seen \in [Replicas -> 1..Len(rules)]
    /\ work \in [Replicas -> Seq(Asked)]
    /\ current \in [Replicas -> Stored] /\ last \in [Pods -> Stored]
    /\ open \subseteq Pods /\ key \in [Pods -> Replicas]
    /\ stuck \subseteq Replicas \cup open
    /\ pod \in [Pods -> [template : Asked, active : Running]]
    /\ changes \in 0..MaxChanges /\ faults \in 0..MaxFaults
    /\ BadRulesStopNobody
    /\ \A o \in Replicas : ProcInv(o)
    /\ \A p \in Pods : StreamInv(p)

(* Nothing but what users asked for at some time is written, published or run,  *)
(* whatever process was interrupted at whichever write.                         *)
OnlyWhatWasAsked ==
    /\ {configMap, template} \subseteq Asked
    /\ {current[o].sha : o \in Replicas} \cup {pod[p].active : p \in Pods}
            \subseteq Asked \cup {None}

(* While no process ends, stores and streams do what LatestBundle allows: what  *)
(* RuleStore implements is what the operator's processes and the pods rely on.  *)
StoresAsPromised == [][L!Next \/ \E o \in Replicas : Ends(o)]_stores
=============================================================================
