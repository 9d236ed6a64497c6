# coraza-operator: TLA+ models and proofs

coraza-operator compiles SecLang rules from Kubernetes resources and delivers
them to Coraza WAF engines. This directory models the path of a rule bundle,
from the user's edit to the decision about a request, the certificates that
protect it, the Kubernetes objects it needs and the processes that run it. TLC
checks the models on small instances; TLAPS proves every safety property of the
passing runs, and that the store implements its promise, for every value of the
constants.

Run a model with `tlc -config X.cfg M`, the proofs of a module with
`tlapm M.tla`. `PROJECT.json` lists the runs, the source lines
behind each definition, the hazards and the findings.

## The system

    users -> SecRules, ClusterSecRules, RuleSet, Engine       (API server)
                 |                        |
        RuleSet controller        Engine controller -> ConfigMap, Deployment, ...
                 |                        |                     |
                 +----> rulestore <-------+                mounted file
                            |                                   |
                  gRPC Subscribe (mTLS) ------------> engine: provider -> WAF
                  gRPC Enroll ----------------------> engine: certificate files

| Part | State | Operations | What makes it hard |
|---|---|---|---|
| `rulestore/store.go` | bundle and subscribers per engine, one-slot channels, a mutex | Publish, PublishIfChanged, Subscribe, unsubscribe | channels are used outside the lock |
| `grpcserver/server.go` | one goroutine per stream | Subscribe loop, identity check | clients vanish at any point |
| `grpcserver/enroll.go`, `pki/ca.go` | CA Secret, CA in memory | LoadOrCreate, Enroll | replicas race, operator restarts |
| `enginepkg/grpcclient.go` | three files on an emptyDir | check, enroll, write, load, stream, retry | crash between and inside writes; expiry |
| `enginepkg/provider.go`, `server.go` | WAF pointer, state pointer, gauge, cache file | boot, Swap, handler, `/-/status` | unsynchronised readers, kills, bad bundles |
| `controller/ruleset_controller.go`, `engine_controller.go` | API objects, informer cache, work queues, store | Reconcile of each, watches and predicates | stale caches, conflicts, filtered events |
| `engineassets/engineassets.go` | four owned objects per Engine | build, create or patch, collect | others write and delete them too |
| `compiler/compiler.go` | none | Compile, CountRules | pure |
| `secrules_controller.go`, `clustersecrules_controller.go` | status of their own resource | Reconcile | stale caches, deletion and creation under one name |
| `enginepkg/proxy.go`, `spoa.go` | one transaction per request | inspection phases | the WAF changes meanwhile; error and detection paths |
| `enginepkg/server.go` Run, `cmd/engine/main.go` | three listeners, `errCh`, a context | serve, fail, drain, exit | failures and signals at any point |
| `cmd/main.go` | operator process, lease | start, lead, stop, crash | processes overlap; each has its own store |

## Modules

| Module | Models | Run as |
|---|---|---|
| `LatestBundle` | what the store promises | `PROPERTY` of `RuleStore`, part of `Delivery` |
| `RuleStore` | the store, its publishers and the Subscribe handlers | `RuleStore*.cfg` |
| `RuleStoreProofs`, `EnrollmentProofs`, `EngineReloadProofs`, `EngineServerProofs`, `ControlPlaneProofs`, `OwnedObjectsProofs`, `DeliveryProofs` | theorems about the module of that name | `tlapm` |
| `SecRulesProofs` | theorems about `Compiler` and `SecRules` | `tlapm` |
| `Enrollment` | CA bring-up, Enroll, the engine's files and its connection loop | `MCEnrollment`, `Enrollment*.cfg` |
| `EngineReload` | the rules inside one engine over its restarts | `MCEngineReload`, `EngineReload*.cfg` |
| `EngineServer` | requests, listeners and shutdown of one engine process | `MCEngineServer`, `EngineServer*.cfg` |
| `Compiler` | Compile and CountRules, as operators | `SecRules` |
| `SecRules` | the SecRules and ClusterSecRules controllers | `MCSecRules`, `SecRules*.cfg` |
| `ControlPlane` | the RuleSet and Engine controllers against the API server | `MCControlPlane`, `ControlPlane*.cfg` |
| `EngineAssets` | the builders of the owned objects, and the engine's FromEnv | `OwnedObjects` |
| `OwnedObjects` | the four owned objects among the other controllers of the cluster | `MCOwnedObjects`, `OwnedObjects*.cfg` |
| `Delivery` | operator processes, leases, stores and engine pods together | `Delivery*.cfg` |

An operator named like an action with a suffix (`SendFullDrops`,
`WriteCaFirst`, `SyncRuleSetFiltered`) is a plausible wrong version of that
action. It is used in no specification; substituting it must break a property,
and `PROJECT.json` says which.

### RuleStore

`lock` is `s.mu`, `bundles` and `subscribers` are the maps, `ch[h]` is the slot
of a subscription's channel, and `pc`, `arg`, `todo`, `cur`, `hand` are the
positions and locals of the goroutines. A step ends where another goroutine can
interfere: taking the lock with the map update (`PublishStore`), each select of
`sendLatest` (`SendNow`, `SendFull`, `Drain`), its last send (`SendBlocking`),
the critical section of `Subscribe` (`Register`) and its send after the unlock
(`SendInitial`). Drained and empty channels look the same, so `Drain` also
covers the case that the receiver was faster. A bundle carries `seq`, the
number of publications of its key: it is not in the code and lets a property
say "newer".

`LatestBundle` is the same without goroutines: a current bundle per key, and
streams that are sent newer and newer ones with gaps, never past the current
one. The refinement mapping of `ImplementsLatest` takes `bundles` for the
current bundles, the handlers that are not idle (from the call of `Subscribe`, before
they are registered, until they have unsubscribed) for the open streams and what a
handler has sent last for what a stream was sent; channels, snapshots and
fan-out are invisible.

### Enrollment

`secret` is the CA Secret, `serving[o]` and `ca[o]` one operator replica,
`disk[p]` the three files of a container, `mem[p]` the key pair and the response
in memory. `writeFile` is two steps, because `os.OpenFile` with `O_TRUNC` leaves
an empty file (`Torn`) until `Write`. A container restarts on the same files, a
replaced pod on none. Any replica may answer any call, as the Service decides.
A certificate is its name, issuer, key and whether it has expired; TokenReview
is the comparison of the account a container runs under with the one it claims.

### EngineReload

`ruleFile` is the ConfigMap mount, `cache` and `tmp` the bundle cache on the
emptyDir, `waf` and `state` the two atomic pointers, `gauge` the metric.
`newest` is a history variable: what ought to be active once the bundle in work
has been handled. `known[c]` is what a client has last read from `/-/status`.

### EngineServer

`req[r]` is one request, a step per inspection phase; HTTP requests take
`BuildHandler`'s path, SPOE messages `HandleSPOE`'s. Every request is the same
but for its body (empty, small, over the limit). The paths show the WAF
different views of it: `proxy` with the client's address, the host and the
headers, `agent` without addresses, `bare` without headers too, which is how a
message goes on when its header block is missing or does not parse. `hits[v][w]`
says in which phase version `v` of the WAF interrupts view `w`: what a rule
matches is not modelled, when it decides is. `left` is a history variable, the
version in force when the answer was given. `server`, `errCh` and `run` are the
goroutines that serve, the channel they report to and the position of `Run`,
whose select leaves on an error, on a nil report (to the shutdown) or with the
context. All three listeners are enabled. The upstream answers, fails, breaks
off or hangs; once the process's context is done a round trip may fail, because
requests inherit that context.

### Compiler and SecRules

A line of a rule text is whether it starts a directive and the id on it, if any;
a text is a sequence of lines. `Compile` runs the scan over the lines. `SecRules`
is one source of either kind: the two files are the same code. `cache` lags
behind the object, which has a generation, a resourceVersion and a uid; the
status update is a step of its own that the API server refuses when the version
has moved. A failed or refused reconcile comes back; a restart loses the queue
and lists again. Conditions are the pair (Ready, Degraded) with the generation
they were observed at.

### EngineAssets and OwnedObjects

The builders return records of what decides how an object is rolled out and
reached: owner, labels, annotations, ports, environment, mounts, probe port,
hash. Images, resources and security contexts are constants of the code and left
out. An environment is a record with a field for each variable the operator may
set, `None` in one it did not. `FromEnv`, `Runs` and `Probed` are the other end:
what the process makes of its environment and of the mounted rules, the errors
with which `Run` returns (rules or upstream that do not parse, two listeners on
one port) and where the probes are answered. A template `Starts` when all of it
goes well. A reconcile writes the objects in the code's order, one step each,
with the spec it read at its start; `Copied` is the mutate function of each
kind. External: users and other clients (`ForeignEdit`, `ForeignDelete`), the
API server, which refuses ports that are none or that a Service has twice
(`Admits`; the reconcile then takes its error path, `Refused`), the garbage
collector, and the Deployment controller, which rolls pods out once they can
start and keeps its revision annotation on the Deployment. This module reads
live objects; stale caches are the subject of `ControlPlane`.

### Delivery

Each operator process has a store of its own, an instance of `LatestBundle` keyed
by process; the streams are the pods'. A process serves gRPC from its start and
runs its controllers with the lease, or at once when there is no leader election
(`elect` is either). The controllers are reduced to what they write: ConfigMap,
Deployment, store, each from the cache as it was when the reconcile began. Their
own faults are in `ControlPlane`. A rollout starts a process more than wanted and
stops one.

Bundles need not parse (`Parsable`). A pod that runs keeps its rules when it is
sent such a bundle (`Receive`); one that boots with such a ConfigMap runs nothing
and is started again until it can (`Boot`, `RestartFailed`); and a rolling update
waits for rules that parse (`Replace`, `maxUnavailable` 0).

`LatestBundle` promises nothing about waiting, and `RuleStore` does not keep such
a promise either (1 and 2 below). `stuck` has that in it: a store whose publisher
waits with the lock held, which lasts until the process ends
(`SendLatestWaits`), and a stream whose initial send waits, which lasts until the
next publication or its end (`InitialSendWaits`). A stuck store takes no
publication and serves no stream. Crashes, lost leases, broken streams, container
restarts and getting stuck share the bound `MaxFaults`.

### ControlPlane

Each controller has one worker (`rs`, `eng`) and a queue; `cache` follows the
API server object by object (`Sync*`), and what passes the predicates enqueues.
A Reconcile is a step per write to the API server. Abstractions:

- a cached read is merged with the write after it (reading earlier is reading a
  cache further behind);
- a bundle is the sequence of its sources' texts and stands for its own hash;
  two sources with equal text conflict;
- the three conditions are one value `cond`. `markAwaitingCompilation` does not
  clear `Degraded`, which this hides;
- a failed request is requeued at once; `RequeueAfter` (5, 10 or 30 s) is a
  delay longer than the cache's lag behind the operator's own writes;
- a success always changes `lastCompiledAt`. Stored times have a resolution of a
  second, so two identical successes within one second are one update in
  reality;
- watch events of an object may be coalesced; the cached `List` of
  `publishToEngines` does not fail;
- the Deployment has one desired replica which, once ready, stays ready:
  `maxUnavailable` is 0. ServiceAccount and Service are written in the same way
  as the ConfigMap and no property tells them apart.

`InstalledInit` is the state in which a fresh start comes to rest; with
`Installed = FALSE` the run begins with nothing done.

## Properties and runs

| Run | Result | States | Bounds |
|---|---|---|---|
| `rulestore` | holds | 128,244 | 1 publisher, 2 streams, 1 engine, 2 hashes, 3 publications |
| `rulestore_publish_returns` | violated | | 1 publisher, 1 stream |
| `enrollment` | holds | 157,140 | 2 replicas, 2 containers, 2 CAs, 3 key pairs, 2 faults |
| `engine_reload` | holds | 20,997 | 3 texts (1 bad), 2 clients, 3 bundles per process |
| `engine_server` | holds | 973,543 | 1 HTTP request, 1 SPOE message, 2 versions, 2 pairs of verdicts on 3 views, 1 fault |
| `sources` | holds | 37,896 | 1 source, 21 texts of up to 2 lines, 2 edits, 1 failed call, 1 restart |
| `control_plane` | holds | 1,641,805 | 2 RuleSets, 2 sources, 2 texts, 2 edits, 1 fault |
| `control_plane_converges` | holds | 252,346 | 1 RuleSet, 1 source, 1 edit, 1 fault, fresh start |
| `owned_objects` | holds | 216,205 | 1 Engine, 6 specs, 2 bundles (1 parses), 2 edits, 1 edit or deletion by others, 1 failed call |
| `owned_objects_steady_state` | violated | | as `owned_objects` |
| `delivery` | holds | 667,952 | 2 processes of which 1 wanted, 1 pod, 3 bundles (2 parse), 2 changes, 1 fault |
| `delivery_replicas` | violated | | as `delivery`, 2 wanted |

Further configurations, not listed as runs, each refute one statement of the
source and support the finding of that name:

| Configuration | Module | Refutes |
|---|---|---|
| `RuleStoreSubscribeReturns.cfg` | `RuleStore` | `SubscribeReturns` |
| `EnrollmentReenrolls.cfg` | `MCEnrollment` | `InvalidCertReenrolls` |
| `EngineReloadCache.cfg` | `MCEngineReload` | `RestartUsesCache` |
| `EngineReloadRuleCount.cfg` | `MCEngineReload` | `RuleCountOfActive` |
| `EngineServerDetection.cfg` | `MCEngineServer` | `DetectionPassesTraffic` |
| `EngineServerDrain.cfg` | `MCEngineServer` | `DrainIsGraceful` |
| `SecRulesDuplicates.cfg` | `MCSecRules` | `DetectsDuplicates` |
| `ControlPlaneQuietStatus.cfg` | `MCControlPlane` | `QuietStatus` |
| `ControlPlaneReadyHashIsActive.cfg` | `MCControlPlane` | `ReadyHashIsActive` |
| `OwnedObjectsPort.cfg` | `MCOwnedObjects` | `ListensOnSpecPort` |

Why the bounds suffice for the interesting cases: three publications are needed
to have one bundle with the engine, one in the channel and one being published,
and a second stream to have a fan-out half done. The rulestore instance with two
publishers and two publications (387,690 states) holds as well, and the proofs
cover every number. Two replicas and two CAs are a race; two faults are a crash
during the recovery from a crash; the third key pair lets certificate, key and
memory all differ. Two edits are an edit during the handling of another. In
`EngineServer` two versions are one replacement in mid-request, and the verdicts
are chosen so that each phase interrupts under one version and not under the
other, one for the address that only the proxy shows and one for the headers
that a bare message does not. The specs of `OwnedObjects` include SPOA ports
equal to the main and the metrics listener's, another listener port and an
upstream that does not parse. In `Delivery` two changes are rules that are
changed and taken back, or changed during a rollout; its second process is the
overlap, and its third bundle rules that do not parse between two that do. TLC
does not check deadlock where the system may stop: no user, publisher or client
need ever act again.

What holds:

- *RuleStore.* `NoLostUpdate`: when no fan-out is pending for it, the newest
  bundle queued for or sent to an engine is the store's. `NeverBackwards`: a
  stream sends strictly newer bundles although `Subscribe` sends its snapshot
  after unlocking. `StreamCatchesUp`: while no stream is torn down, each is
  eventually sent the current bundle. `StoreInv` is the inductive invariant of
  the proofs.
- *Enrollment.* `PairMatches`: files that make `ensureEnrolled` skip enrollment
  hold a complete certificate and its own key, because the CA file is written
  last. `OneCA`: replicas, Secret and files agree. `AnyReplicaAccepts`: files that
  load and have not expired are accepted by every replica that serves.
  `StreamsToItsOwnEngine`.
  `Recovers`: once faults stop, a container reaches a stream and keeps it,
  unless it met one of the two cases of `EnrollmentReenrolls.cfg`, which the
  property excludes by name.
- *EngineReload.* `Settled`: between bundles the WAF, the reported version, the
  error and the gauge describe the same thing. `StatusNeverAhead`: a client told
  of a version is never inspected by an older WAF. `CacheUsable`: the cache is
  never torn. `GoodBundleTakesEffect`.
- *ControlPlane.* `QuietEngine`, `QuietStore`, `QuietRuleSet`: whenever the
  operator has nothing left to do, the ConfigMap, the Deployment, the rulestore
  and the RuleSet status are what the user asked for: no trigger is missing.
  `MountsExist`. `EngineConverges` and `EngineReportsFailure` say that the
  operator does get there, or says why not. `QuietStore` and `EngineConverges`
  are stated for Engines whose `ruleSetRef` was not changed (see the hazards).
- *RuleStore* implements `LatestBundle` (`ImplementsLatest`).
- *EngineServer.* `OneVersionDecides`: whatever is swapped meanwhile, one version
  that was in force during the request explains its fate over all phases.
  `PathsAgree`: where a version makes the same of both views of a request, HAProxy
  is told to deny exactly what the proxy would not forward, with a body or
  without, although the phases are written twice. Rules on the address, or on
  headers that did not parse, may tell the paths apart, and errors do: the proxy
  answers 500 and the agent lets pass. `Exits`: a signal or the failure of any
  listener ends the process, with two slots in `errCh` for three senders, and
  with clients and upstream hanging.
- *Compiler, SecRules.* `FindsFirstConflict`, `CountsAgree`: the scan finds the
  first duplicate of the ids it can see, and the operator's count is the one the
  engine makes of the compiled text, banners included. `ConditionsAreEarned`: a
  condition of the present generation is true of the present body. `Reports`: a
  source that is left alone gets its conditions.
- *OwnedObjects.* `ServedAtRest`: whenever the controller has nothing to do, the
  four objects are there, and pods of the present template run and are reached as
  the spec says. `Converges`: an Engine that is left alone and that can run is in
  the end served by pods of its spec, whatever others did to its objects. It can
  run (`Runnable`) with the default port, an SPOA port other than 8080 and 9090,
  an upstream that is a URL and rules that parse; the API asks for none of these.
  `DeletedLeavesNothing`: an Engine deleted in mid-reconcile leaves nothing.
- *Delivery.* `BadRulesStopNobody`: rules that do not parse may be asked for,
  written, rolled out and sent, and no pod that runs stops for it; it takes a
  container that ends by itself to meet them. `Delivered`: with one wanted
  operator process, once the rules parse and nothing is stuck, every pod runs in
  the end what users asked for last, over rollouts, crashes between two writes,
  lost leases, reconnects, failed starts and a store or stream that was stuck for
  a time, with and without leader election. Of a store that stays stuck nothing
  is claimed: see 2 below.

What does not hold, each with the comment it contradicts in `PROJECT.json`:

1. `SubscribeReturns`: a Publish between the unlock and the initial send of
   `Subscribe` fills the channel, and the send the comment calls non-blocking
   waits until a later Publish drains it.
2. `PublishReturns`: the same late send can refill the channel between the drain
   and the send of `sendLatest`. If the client has gone, the handler's unsub
   waits for the lock and the publisher for the channel: the store is stuck.
   Sending the snapshot under the lock would remove both.
3. `InvalidCertReenrolls`: an expired certificate, or a `ca.crt` left empty by a
   crash, is never replaced, because only the existence of files is checked.
4. `RestartUsesCache`: nothing reads the bundle cache.
5. `RuleCountOfActive`: `/-/status` reports 0 rules until the first bundle.
6. `QuietStatus`: a status update is skipped when a stale cache already shows the
   new value, and the later status-only event is filtered.
7. `ReadyHashIsActive`: an Engine is Ready with the hash of a bundle its engines
   cannot parse, because ready replicas of the old template count.
8. `SteadyStateIsSilent`: `mutateDeployment` strips the revision annotation, the
   Deployment controller restores it, and the two wake each other for ever. (In
   practice these events also repair the stale status of 6.)
9. `DeliveredByReplicas`: with replicas standing by, a hot-reloaded pod that
   reconnects to a standby keeps rules that were taken back, because the standby
   serves a store nobody fills.
10. `ListensOnSpecPort`: the port of the spec never reaches the engine, which
    listens on 8080; with another port the pods never become ready.
11. `DetectionPassesTraffic`: in Detection mode a body over 1 MiB is cut off, or
    its request fails.
12. `DrainIsGraceful`: the signal cancels the requests that the shutdown waits for.
13. `DetectsDuplicates`: ids on continuation lines are not compared.

### Fairness

`RuleStore` assumes strong fairness of each goroutine's steps: the scheduler
runs a runnable goroutine, and `sync.RWMutex` does not starve a waiter. Calls,
new streams, errors and disconnects are never forced. `Enrollment`: processes
run and a broken stream is noticed. `EngineReload`: the handler's goroutine runs
and the kubelet restarts the container. `ControlPlane`: both workers run, every
watch delivers, delays elapse and pods start. `SecRules`: the worker runs and
the watch delivers. `OwnedObjects`: the operator's worker, the garbage collector
and the Deployment controller run, the last as far as pods can start.
`EngineServer`: `Run` and a goroutine that can report go on, Shutdown has its
deadline; nothing makes clients or upstream hurry. `Delivery`: Kubernetes keeps
the wanted processes, replaces pods and restarts containers, the leases of the
dead expire, caches follow, the Engine controller's worker works, pods reconnect
and receive. All of it is weak fairness of steps a stuck store or stream
disables: a publication is not assumed to return, nor a stream to deliver. The
RuleSet controller's publication is not assumed at all. Users and faults owe
nothing, and faults are bounded by `MaxFaults`, which reads "once faults have
stopped".

## Proofs

A theorem holds for every value of the constants that satisfies the module's
assumption: any number of engines, streams, replicas, containers, requests,
RuleSets, sources, edits and faults. Each `Spec => []Inv` is proved from an
inductive invariant, defined at the end of the module it is about and checked by
TLC on the same instances as the run. A proof has one lemma per part of the
invariant, and in it one step per action.

| Theorem | States | About |
|---|---|---|
| `StoreInvariant`, `StoreTypeOK`, `StoreNoLostUpdate` | `[]StoreInv`, `[]TypeOK`, `[]NoLostUpdate` | `RuleStore` |
| `StoreNeverBackwards` | `NeverBackwards`, an action property | `RuleStore` |
| `StoreImplementsLatest` | `ImplementsLatest`, the refinement | `RuleStore`, `LatestBundle` |
| `EnrollmentInvariant`, `EnrollmentTypeOK`, `EnrollmentPairMatches`, `EnrollmentOneCA`, `EnrollmentAnyReplica`, `EnrollmentStreams` | `[]EnrollmentInv`, `[]TypeOK`, `[]PairMatches`, `[]OneCA`, `[]AnyReplicaAccepts`, `[]StreamsToItsOwnEngine` | `Enrollment` |
| `ReloadInvariant`, `ReloadTypeOK`, `ReloadSettled`, `ReloadStatusNeverAhead`, `ReloadCacheUsable` | `[]ReloadInv`, `[]TypeOK`, `[]Settled`, `[]StatusNeverAhead`, `[]CacheUsable` | `EngineReload` |
| `ServerInvariant`, `ServerTypeOK`, `ServerOneVersionDecides`, `ServerPathsAgree` | `[]ServerInv`, `[]TypeOK`, `[]OneVersionDecides`, `[]PathsAgree` | `EngineServer` |
| `CompileIsRight`, `CompileCounts` | `CompilesRight` and `CountsRight` of every sequence of sources | `Compiler` |
| `SourceInvariant`, `SourceTypeOK`, `SourceConditions`, `SourceFindsFirst`, `SourceCountsAgree` | `[]SourceInv`, `[]TypeOK`, `[]ConditionsAreEarned`, `[]FindsFirstConflict`, `[]CountsAgree` | `SecRules` |
| `ControlInvariant`, `ControlTypeOK`, `ControlMountsExist`, `ControlQuietRuleSet`, `ControlQuietEngine`, `ControlQuietStore` | `[]ControlInv`, `[]TypeOK`, `[]MountsExist`, `[]QuietRuleSet`, `[]QuietEngine`, `[]QuietStore` | `ControlPlane` |
| `OwnedInvariant`, `OwnedTypeOK`, `OwnedServedAtRest`, `OwnedPodsCanStart`, `OwnedOrphans`, `OwnedSelectorMatches` | `[]OwnedInv`, `[]TypeOK`, `[]ServedAtRest`, `[]PodsCanStartAtRest`, `[]OrphansAreCollected`, `[]SelectorMatches` | `OwnedObjects`, `EngineAssets` |
| `DeliveryInvariant`, `DeliveryTypeOK`, `DeliveryBadRules`, `DeliveryOnlyAsked` | `[]DeliveryInv`, `[]TypeOK`, `[]BadRulesStopNobody`, `[]OnlyWhatWasAsked` | `Delivery` |
| `DeliveryStores` | `StoresAsPromised`, an action property | `Delivery`, `LatestBundle` |

The assumptions say that markers (`None`, `Absent`, `Torn`, `NoID`) are none of
the values they stand beside, that bounds are natural numbers and that functions
and sets have their types. Beyond that: there is an engine (`RuleStore`);
requests are finitely many and belong to one path (`EngineServer`); the empty
text is a text (`SecRules`); what is `Installed` at the start compiled
(`ControlPlane`); specs are of one Engine name (`OwnedObjects`); of the finitely
many operator processes at least one is wanted, they are not pods, and some
bundle parses (`Delivery`).

### RuleStore

`NoLostUpdate` is not inductive. `Register` takes a snapshot that is sent later,
so one has to know where the current bundle is between the two (`SnapshotInv`).
The drain throws a bundle away, which is safe only because a newer one is in the
publisher's hand and the subscriber is still in `todo` (`FanOutInv`). The
subscribers that a publisher works through are those of its key (`RegistryInv`).
`NeverBackwards` needs the order of what was sent, is in hand, is in the channel
and is still to come (`OrderInv`), and for it that a handler that is not
registered holds nothing (`AbsenceInv`).

The refinement uses the same invariant: `PublishStore`, `OpenStream`, the send to
the client and the end of a handler are the steps of `LatestBundle`, and a send
is allowed there because `OrderInv` puts what is in hand after what was sent and
not past the store's bundle. Every other step leaves the mapped state alone
(`StepImplementsLatest`). `Delivery` therefore uses the promise for the store.

### Enrollment

`PairMatches` speaks of complete sets of files; what makes it true is how far
`ensureEnrolled` has got. `FilesFit`: the CA file, written last, is only there
beside a certificate and its key. `Enrolling`: until its turn comes there is no
CA file, and the files before the one in work hold what is in memory, which
belongs together (`Response`). A kill changes the position and not the files,
so `FilesFit` must hold at every one of them. `OperatorInv`: a replica that
serves holds the Secret's CA, since the loser of the race loads it again;
issuer and CA of every file are therefore the Secret's, which gives `OneCA` and
`AnyReplicaAccepts`. A certificate is only issued to the account of its Engine,
and a stream needs a certificate: `StreamsToItsOwnEngine`.

### EngineReload

`HandlerInv` says what WAF, state, gauge and temporary file are at each position
of the handler, so that `Settled` holds when it is back at the start.
`StatusNeverAhead` needs the whole chain in the order in which `Swap` moves it:
what a client knows, the state's version, the WAF's, the bundle in work
(`VersionInv`). The cache stays usable because only a bundle that has been
applied is renamed into place.

### EngineServer

A request in flight was not blocked in the phases behind it (`Passed`) by the
version it began with; when it is answered, the answer is what the phases of
that version decide for the view it was shown (`InProxy`, `InAgent`). Hence
`OneVersionDecides`. `PathsAgree` compares the two sides: the agent stops at the
first interruption in either mode and does not write an empty body, the proxy
goes on in Detection mode and does write it; what each does with an interruption
in the same phase comes to the same. `errCh`
stays within its two slots because reports and goroutines that still owe one
are three together, which needs the cardinality theorems of the library.

### Compiler and SecRules

`CompileIsRight` and `CompileCounts` are about lists of any length, by induction
over the number of lines scanned. The library's induction theorems take a
predicate, which the installed provers cannot instantiate, so
`NatSetInduction` is stated for sets instead, from the well-foundedness of `<`,
and used with the set of numbers for which a statement holds. `ScanTrace` and
`JoinTrace` turn the two loops into sequences of intermediate results;
`ScanInvStep` says of each that the owners are the ids declared so far, with
their first source.

`ConditionsAreEarned` needs that a copy of the object (the cached one or the one
being reconciled) that has the API server's uid and version is that object
(`CopyOf`), and that uids are not used again and conditions are never of a later
generation (`Current`). `SourceFindsFirst` and `SourceCountsAgree` apply the
compiler's theorems to every RuleSet made of another text and this source.

### ControlPlane

At rest everything is as desired only if, before that, whatever is not as desired
has a trigger: this is what `ControlInv` says of each RuleSet, ConfigMap,
Deployment and store entry (`RuleSetInv`, `MapInv`, `DeployInv`, `StoreInv`). A
trigger is a queued or delayed request, an event the cache has not seen yet, or a
reconcile that is about to write what the cache holds now (`RsDue`, `EngDue`,
`EngLater`, `EngAt`). Three more parts are needed:

- the cache and what a reconcile has read are versions the API server had, and
  equal versions are equal objects (`RuleSetCopies`, `EngineCopies`,
  `ObjectCopies`): without it a status write could not be told from one that is
  refused;
- a reconcile that has read what is old by now is not the last one
  (`RsStaleInv`, `EngStaleInv`). It has to be said from the read on: a stale
  bundle is already there when the status is written, not only when it is
  published;
- a publication under way concerns Engines that refer to its RuleSet, unless
  their `ruleSetRef` was changed (`TodoInv`). That is why `QuietStore` is
  restricted to the others: for them it does not hold.

The hardest lemma, `DueStep`, shows that an Engine's trigger is only lost by a
step that handles it.

### OwnedObjects

`ServedAtRest` joins two arguments. The first is about steps: while nothing is
queued, a reconcile would leave every kind the loop has been through as it is
(`Applied`), and the worker holds the present Engine and bundle (`TriggerInv`).
Whoever edits or deletes an object, the Engine or its rules queues it; a write of
the worker that changes something queues it too, so one that does not has found
the object as it should be (`SilentPatch`). That objects keep their fields, an
owner that existed and a template that was built is `ObjectInv`. The owner gives
`OrphansAreCollected`. `SelectorMatches` needs that all specs are of one Engine:
the selector stays the one of the creation while templates come and go.

The second is about what is built (`BuiltServes`): the environment of a template,
read back by `FromEnv`, gives the mode, the upstream and the SPOA port of the
spec, and the Service's ports lead to the ports of the pod. `AppliedServes` puts
them together. For a runnable Engine they also give `PodsCanStartAtRest`
(`ConfigRuns`: the ports that come out of the environment differ, and rules and
upstream are those of the spec): what is left of `Converges` is that the
Deployment controller rolls out what it can. For another port it is not true
(10 above).

### Delivery

`BadRulesStopNobody` is part of the invariant: a pod is without rules only after
it booted from a ConfigMap that does not parse, and of the steps that boot a pod
`Replace` and `RestartFailed` wait for one that does, while `RestartContainer` is
a fault; what the ConfigMap holds was asked for (`Asked`), so that something
asked for does not parse. `Receive` never takes rules away.

`StreamInv` says that what a stream sent last is not past what its store has, is
the store's own bundle at the same position, and is what the pod runs if it
parses. That holds as long as a stream never outlives the store it was opened on,
because a process that restarts begins with an empty one. `ProcInv` says that a
process that is down has an empty store, that only one that leads has something
to write, and with leader election that it holds the lease. All that is written
or published is taken from the edits, however far a cache lags behind.

`StoresAsPromised`: but for the end of a process, every step is one that
`LatestBundle` allows for stores and streams. With `StoreImplementsLatest` this
is the link from the channels of the store to what pods run.

### Only model-checked

- Every liveness property (`StreamCatchesUp`, `Recovers`, `GoodBundleTakesEffect`,
  `Exits`, `Reports`, `EngineConverges`, `EngineReportsFailure`, `Converges`,
  `DeletedLeavesNothing`, `Delivered`): the prover handles neither fairness nor
  `ENABLED`.
- The properties that do not hold: their counterexamples are TLC's.

## Not modelled

- what rules match: Coraza is external, a WAF version is the phase in which it
  interrupts each view of a request;
- deletion of the CA Secret, expiry of the CA and of the server certificate,
  encodings and serial numbers of `pki`;
- durations: backoff, `RequeueAfter` and deadlines are steps that may happen;
- the Engine resource after enrollment: nothing in the code looks at it again, so
  a stream may outlast its Engine;
- flags and TLS options of the operator, its probes, the registration of metrics;
- a watch that was interrupted and lists again may show a deletion and a creation
  as one update; `SecRules` sees both;
- generated code (`zz_generated.deepcopy.go`, `config.pb.go`,
  `config_grpc.pb.go`).
