---------------------------- MODULE EngineAssets ----------------------------
(***************************************************************************)
(* What the operator builds for an Engine (internal/engineassets) and what *)
(* the engine binary makes of it (internal/enginepkg, config.go and the    *)
(* start of Run in server.go): builders as operators on an Engine record,  *)
(* environments as records of the variables by name, a variable that is    *)
(* not set being None.                                                     *)
(*                                                                         *)
(* An engine is [uid, name, mode, upstream, port, spoaPort, replicas]; a   *)
(* port of 0 is one that is not set. Images, resources and the two WAF_    *)
(* variables nothing reads are left out.                                   *)
(***************************************************************************)
EXTENDS Integers

CONSTANTS
    None,      \* a variable, object or annotation that is not there
    Parsable,  \* the rules that BuildWAF accepts
    URLs       \* the upstreams that url.Parse accepts

defaultListenerPort == 8080

Labels(engine) == [instance |-> engine.name, engine |-> engine.name]
ServiceAccountName(engine) == <<engine.name, "engine">>
RulesConfigMapName(engine) == <<engine.name, "rules">>

ListenerPort(engine) ==
    IF engine.port # 0 THEN engine.port ELSE defaultListenerPort

(* The container's ports by name; "spoa" is there only when it is enabled. *)
buildContainerPorts(engine) ==
    [http |-> ListenerPort(engine),
     spoa |-> IF engine.spoaPort # 0 THEN engine.spoaPort ELSE None]

(* A variable that is added on a condition. *)
Setenv(value, isSet) == IF isSet THEN value ELSE None

EnvVars(engine, hash, operatorAddr) ==
    [ENGINE_UPSTREAM_URL |-> engine.upstream,
     ENGINE_MODE |-> engine.mode,
     ENGINE_RULE_FILE |-> "/etc/coraza/rules.conf",
     ENGINE_SPOA_ADDR |-> Setenv(engine.spoaPort, engine.spoaPort # 0),
     RULESET_HASH |-> hash,
     ENGINE_OPERATOR_ADDR |-> operatorAddr,
     ENGINE_NAME |-> Setenv(engine.name, operatorAddr # None)]

BuildServiceAccount(engine) ==
    [labels |-> Labels(engine), annotations |-> {}]

BuildRulesConfigMap(engine, bundle) ==
    [labels |-> Labels(engine), annotations |-> {}, data |-> bundle]

(* The pod template keeps what decides how a pod is rolled out and reached: its *)
(* hash annotation, mounts, ports, environment and the port of both probes.     *)
BuildDeployment(engine, hash, operatorAddr) ==
    [labels |-> Labels(engine),
     annotations |-> {},
     selector |-> Labels(engine),
     replicas |-> engine.replicas,
     template |->
        [labels |-> Labels(engine),
         hash |-> hash,
         serviceAccount |-> ServiceAccountName(engine),
         configMap |-> RulesConfigMapName(engine),
         ports |-> buildContainerPorts(engine),
         env |-> EnvVars(engine, hash, operatorAddr),
         probe |-> ListenerPort(engine)]]

(* A Service port is a port of the pods, or the name of a container port. *)
BuildService(engine) ==
    [labels |-> Labels(engine),
     annotations |-> {},
     selector |-> Labels(engine),
     ports |-> [http |-> ListenerPort(engine),
                spoa |-> IF engine.spoaPort # 0 THEN "spoa" ELSE None]]

-----------------------------------------------------------------------------
(* The engine binary *)

(* os.Getenv, and the default for what is not set. *)
Getenv(env, v, default) ==
    IF v \in DOMAIN env /\ env[v] # None THEN env[v] ELSE default

(* FromEnv: None stands for its errors. *)
FromEnv(env) ==
    LET mode == Getenv(env, "ENGINE_MODE", "Detection") IN
    IF \/ Getenv(env, "ENGINE_UPSTREAM_URL", None) = None
       \/ Getenv(env, "ENGINE_RULE_FILE", None) = None
       \/ mode \notin {"Detection", "Blocking"}
    THEN None
    ELSE [upstream |-> env["ENGINE_UPSTREAM_URL"],
          mode |-> mode,
          listen |-> Getenv(env, "ENGINE_LISTEN_ADDR", 8080),
          metrics |-> Getenv(env, "ENGINE_METRICS_ADDR", 9090),
          spoa |-> Getenv(env, "ENGINE_SPOA_ADDR", None),
          operator |-> Getenv(env, "ENGINE_OPERATOR_ADDR", None),
          name |-> Getenv(env, "ENGINE_NAME", None)]

(* Run starts a listener for each address; two that are the same cannot both    *)
(* be bound, the second one's error goes to errCh, and Run returns it.          *)
Binds(config) ==
    /\ config.listen # config.metrics
    /\ config.spoa \notin {config.listen, config.metrics}

(* Run gets past its errors: the rule file parses, the upstream is a URL, and   *)
(* every listener listens.                                                      *)
Runs(config, rules) ==
    /\ rules \in Parsable
    /\ config.upstream \in URLs
    /\ Binds(config)

(* The mux of the main server has /readyz and /healthz; no other has them. *)
Probed(config, port) == port = config.listen
=============================================================================
