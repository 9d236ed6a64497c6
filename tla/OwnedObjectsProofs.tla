------------------------- MODULE OwnedObjectsProofs -------------------------
(***************************************************************************)
(* Proofs about OwnedObjects, for all Engine specs and bundles and any     *)
(* number of edits, of edits by others and of failing calls: no trigger is *)
(* missing, what is built for an Engine serves it, and what it leaves      *)
(* behind is collected.                                                    *)
(***************************************************************************)
EXTENDS OwnedObjects, TLAPS

(* Most steps are first-order and left to Zenon; those that need arithmetic,    *)
(* records or sequences say so.                                                 *)
USE ZenonT(30)

(* None is no number, bundle, template or string that matters, and no upstream. *)
LEMMA NoneIs ==
    /\ None \notin Nat /\ None \notin Bundles /\ None \notin Templates
    /\ None # "Detection" /\ None # "Blocking" /\ None # "spoa"
    /\ None # "/etc/coraza/rules.conf"
    /\ \A s \in Specs : s.name # None /\ s.upstream # None
    BY OwnedAssumption

(* None is no port. *)
LEMMA NoneIsNoPort == \A n \in Nat : None # n
    BY NoneIs

(* The bounds are numbers. *)
LEMMA BoundsAre == MaxEdits \in Nat /\ MaxForeign \in Nat /\ MaxErrors \in Nat
    BY OwnedAssumption

-----------------------------------------------------------------------------
(* The loop of applyOwnedObjects *)

(* The four kinds, in the order of the loop. *)
LEMMA KindsAre ==
    /\ Kinds = {"ServiceAccount", "ConfigMap", "Deployment", "Service"}
    /\ DOMAIN Order = 1..4
    /\ Order[1] = "ServiceAccount" /\ Order[2] = "ConfigMap"
    /\ Order[3] = "Deployment" /\ Order[4] = "Service"
    BY SMTT(30) DEF Kinds, Order

(* What the loop does after each kind. *)
LEMMA AfterIs ==
    /\ After("ServiceAccount") = "ConfigMap" /\ After("ConfigMap") = "Deployment"
    /\ After("Deployment") = "Service" /\ After("Service") = "status"
<1> Len(Order) = 4
    BY DEF Order
<1>1. /\ (CHOOSE i \in DOMAIN Order : Order[i] = "ServiceAccount") = 1
      /\ (CHOOSE i \in DOMAIN Order : Order[i] = "ConfigMap") = 2
      /\ (CHOOSE i \in DOMAIN Order : Order[i] = "Deployment") = 3
      /\ (CHOOSE i \in DOMAIN Order : Order[i] = "Service") = 4
    BY KindsAre, SMTT(30)
<1> QED
    BY <1>1, KindsAre, SMTT(30) DEF After

(* The kinds that come before each position. *)
LEMMA BeforeIs ==
    /\ Before("ServiceAccount") = {} /\ Before("ConfigMap") = {"ServiceAccount"}
    /\ Before("Deployment") = {"ServiceAccount", "ConfigMap"}
    /\ Before("Service") = {"ServiceAccount", "ConfigMap", "Deployment"}
    /\ Before("idle") = Kinds /\ Before("status") = Kinds
    BY KindsAre, SMTT(30) DEF Before

-----------------------------------------------------------------------------
(* What is built *)

(* The template of a Deployment that is built is one of the templates. *)
LEMMA TemplateIn ==
    ASSUME NEW s \in Specs, NEW b \in Bundles
    PROVE  BuildDeployment(s, b, OperatorAddr).template \in Templates
    BY SMT DEF Templates

(* All templates have the labels of the one Engine there is. *)
LEMMA TemplateLabels ==
    ASSUME NEW t \in Templates, NEW u \in Templates
    PROVE  t.labels = u.labels
<1>1. PICK s \in Specs, b \in Bundles : t = BuildDeployment(s, b, OperatorAddr).template
    BY SMTT(30) DEF Templates
<1>2. PICK r \in Specs, c \in Bundles : u = BuildDeployment(r, c, OperatorAddr).template
    BY SMTT(30) DEF Templates
<1>3. s.name = r.name
    BY OwnedAssumption
<1>4. t.labels = Labels(s) /\ u.labels = Labels(r)
    BY <1>1, <1>2 DEF BuildDeployment
<1> QED
    BY <1>3, <1>4 DEF Labels

(* A desired object has the fields of its kind, and the Engine for an owner; a  *)
(* Deployment's template is one of the templates, and its selector selects it.  *)
LEMMA DesiredIs ==
    ASSUME NEW k \in Kinds, NEW s \in Specs, NEW n \in 1..MaxEdits, NEW b \in Bundles
    PROVE  /\ DOMAIN Desired(k, Engine(s, n), b) = Fields(k)
           /\ Desired(k, Engine(s, n), b)["owner"] = n
           /\ k = "Deployment" =>
                /\ Desired(k, Engine(s, n), b)["template"] \in Templates
                /\ Desired(k, Engine(s, n), b)["selector"] = Desired(k, Engine(s, n), b)["template"].labels
           /\ Desired(k, Engine(s, n), b) # None
<1> DEFINE e == Engine(s, n)
<1>1. e.uid = n /\ e.name = s.name /\ e.mode = s.mode /\ e.upstream = s.upstream
      /\ e.port = s.port /\ e.spoaPort = s.spoaPort /\ e.replicas = s.replicas
    BY DEF Engine
<1>2. Built(k, e, b) = CASE k = "ServiceAccount" -> BuildServiceAccount(e)
                         [] k = "ConfigMap" -> BuildRulesConfigMap(e, b)
                         [] k = "Deployment" -> BuildDeployment(e, b, OperatorAddr)
                         [] k = "Service" -> BuildService(e)
    BY KindsAre, SMTT(30) DEF Built
<1>3. DOMAIN Built(k, e, b) \cup {"owner"} = Fields(k)
    BY <1>2, KindsAre, SMTT(30) DEF BuildServiceAccount, BuildRulesConfigMap, BuildDeployment, BuildService,
                          Fields, Copied
<1>4. BuildDeployment(e, b, OperatorAddr) = BuildDeployment(s, b, OperatorAddr) 
    BY <1>1 DEF BuildDeployment, Labels, ServiceAccountName, RulesConfigMapName,
                buildContainerPorts, ListenerPort, EnvVars, Setenv
<1>5. k = "Deployment" => /\ Desired(k, e, b)["template"] \in Templates
                          /\ Desired(k, e, b)["selector"] = Desired(k, e, b)["template"].labels
    <2> SUFFICES ASSUME k = "Deployment"
                 PROVE  /\ Desired(k, e, b)["template"] \in Templates
                        /\ Desired(k, e, b)["selector"] = Desired(k, e, b)["template"].labels
        OBVIOUS
    <2>1. /\ Desired(k, e, b)["template"] = Built(k, e, b)["template"]
          /\ Desired(k, e, b)["selector"] = Built(k, e, b)["selector"]
        BY <1>2, SMTT(30) DEF Desired, Stamped, BuildDeployment
    <2>2. Desired(k, e, b)["template"] = BuildDeployment(s, b, OperatorAddr).template
        BY <1>2, <1>4, <2>1
    <2>3. Built(k, e, b)["selector"] = Built(k, e, b)["template"].labels
        BY <1>2, SMTT(30) DEF BuildDeployment
    <2> QED
        BY <2>1, <2>2, <2>3, TemplateIn
<1>6. DOMAIN Desired(k, e, b) = Fields(k) /\ Desired(k, e, b)["owner"] = n
    BY <1>1, <1>3 DEF Desired, Stamped
<1>7. Desired(k, e, b) # None
    BY OwnedAssumption
<1> QED
    BY <1>5, <1>6, <1>7

(* FromEnv makes of the environment that is built for an Engine what its spec   *)
(* says: it never refuses it.                                                   *)
LEMMA ConfigIs ==
    ASSUME NEW s \in Specs, NEW b \in Bundles
    PROVE  FromEnv(EnvVars(s, b, OperatorAddr)) = Config(s)
<1> DEFINE env == EnvVars(s, b, OperatorAddr)
<1>1. s \in EngineSpec
    BY OwnedAssumption
<1>2. /\ s.upstream # None /\ s.mode # None /\ s.name # None /\ s.spoaPort # None
      /\ "/etc/coraza/rules.conf" # None /\ s.mode \in {"Detection", "Blocking"}
    <2>1. s.spoaPort \in Nat /\ s.mode \in {"Detection", "Blocking"}
        BY <1>1 DEF EngineSpec
    <2> QED
        BY <2>1, NoneIs
<1>3. /\ Getenv(env, "ENGINE_UPSTREAM_URL", None) = s.upstream
      /\ Getenv(env, "ENGINE_MODE", "Detection") = s.mode
      /\ Getenv(env, "ENGINE_RULE_FILE", None) # None
      /\ env["ENGINE_UPSTREAM_URL"] = s.upstream
    BY <1>2 DEF EnvVars, Getenv
<1>4. /\ Getenv(env, "ENGINE_LISTEN_ADDR", 8080) = 8080
      /\ Getenv(env, "ENGINE_METRICS_ADDR", 9090) = 9090
    BY SMTT(30) DEF EnvVars, Getenv
<1>5. Getenv(env, "ENGINE_SPOA_ADDR", None) = IF s.spoaPort = 0 THEN None ELSE s.spoaPort
    BY <1>2 DEF EnvVars, Getenv, Setenv
<1>6. /\ Getenv(env, "ENGINE_OPERATOR_ADDR", None) = OperatorAddr
      /\ Getenv(env, "ENGINE_NAME", None) = IF OperatorAddr = None THEN None ELSE s.name
    BY <1>2 DEF EnvVars, Getenv, Setenv
<1> QED
    BY <1>2, <1>3, <1>4, <1>5, <1>6, SMTT(30) DEF FromEnv, Config

(* With that configuration Run gets past its errors, unless the rules or the    *)
(* upstream do not parse or the SPOA port is one of the other two.              *)
LEMMA ConfigRuns ==
    ASSUME NEW s \in Specs, NEW b \in Parsable,
           s.upstream \in URLs, s.spoaPort \notin {8080, 9090}
    PROVE  Runs(Config(s), b)
<1>1. None # 8080 /\ None # 9090
    BY NoneIsNoPort, SMTT(30)
<1>2. /\ Config(s).upstream = s.upstream
      /\ Config(s).listen = 8080 /\ Config(s).metrics = 9090
      /\ Config(s).spoa = IF s.spoaPort = 0 THEN None ELSE s.spoaPort
    BY SMTT(30) DEF Config
<1>3. Binds(Config(s))
    BY <1>1, <1>2, SMTT(30) DEF Binds
<1> QED
    BY <1>2, <1>3, SMTT(30) DEF Runs

(* CreateOrPatch leaves an object alone exactly when the copied fields are the  *)
(* desired ones already.                                                        *)
LEMMA AppliedFields ==
    ASSUME NEW k \in Kinds, ObjectInv(k), Applied(k), NEW f \in Copied(k)
    PROVE  api[k][f] = Desired(k, engine, bundle)[f]
<1>1. f \in DOMAIN api[k]
    BY DEF ObjectInv, Applied, Fields
<1>2. CreateOrPatch(k, Desired(k, engine, bundle))
        = [g \in DOMAIN api[k] |->
             IF g \in Copied(k) THEN Desired(k, engine, bundle)[g] ELSE api[k][g]]
    BY DEF Applied, CreateOrPatch
<1>3. CreateOrPatch(k, Desired(k, engine, bundle))[f] = Desired(k, engine, bundle)[f]
    BY <1>1, <1>2
<1> QED
    BY <1>3 DEF Applied

(* The fields of the desired objects that a served Engine shows. *)
LEMMA DesiredFields ==
    ASSUME NEW e, NEW b
    PROVE  /\ Desired("ConfigMap", e, b)["data"] = b
           /\ Desired("Deployment", e, b)["replicas"] = e.replicas
           /\ Desired("Deployment", e, b)["template"]
                = BuildDeployment(e, b, OperatorAddr).template
           /\ Desired("Service", e, b)["selector"] = Labels(e)
           /\ Desired("Service", e, b)["ports"] = BuildService(e).ports
<1>1. Desired("ConfigMap", e, b)["data"] = b
    BY DEF Desired, Stamped, Built, BuildRulesConfigMap
<1>2. /\ Desired("Deployment", e, b)["replicas"] = e.replicas
      /\ Desired("Deployment", e, b)["template"] = BuildDeployment(e, b, OperatorAddr).template
    BY DEF Desired, Stamped, Built, BuildDeployment
<1>3. /\ Desired("Service", e, b)["selector"] = Labels(e)
      /\ Desired("Service", e, b)["ports"] = BuildService(e).ports
    BY DEF Desired, Stamped, Built, BuildService
<1> QED
    BY <1>1, <1>2, <1>3

(* What the pods of a Deployment that is built for an Engine run with, and how  *)
(* a Service that is built for it reaches them.                                 *)
LEMMA BuiltServes ==
    ASSUME NEW s \in Specs, NEW b \in Bundles, NEW n
    PROVE  LET template == BuildDeployment(Engine(s, n), b, OperatorAddr).template
               config == FromEnv(template.env)
               ports == BuildService(Engine(s, n)).ports
           IN  /\ config.mode = s.mode /\ config.upstream = s.upstream
               /\ config.spoa = IF s.spoaPort = 0 THEN None ELSE s.spoaPort
               /\ template.hash = b /\ template.labels = Labels(Engine(s, n))
               /\ ports["http"] = template.probe
               /\ (ports["spoa"] # None) <=> (config.spoa # None)
               /\ config.spoa # None => template.ports[ports["spoa"]] = config.spoa
               /\ template \in Templates /\ config = Config(s)
               /\ template.probe = ListenerPort(Engine(s, n))
<1> DEFINE e == Engine(s, n)
           template == BuildDeployment(e, b, OperatorAddr).template
           config == FromEnv(template.env)
           ports == BuildService(e).ports
<1>1. e.name = s.name /\ e.mode = s.mode /\ e.upstream = s.upstream
      /\ e.port = s.port /\ e.spoaPort = s.spoaPort
    BY DEF Engine
<1>2. /\ template.hash = b /\ template.labels = Labels(e) /\ template.probe = ListenerPort(e)
      /\ template.ports = buildContainerPorts(e)
      /\ template.env = EnvVars(e, b, OperatorAddr)
    BY DEF BuildDeployment
<1>3. EnvVars(e, b, OperatorAddr) = EnvVars(s, b, OperatorAddr)
    BY <1>1 DEF EnvVars, Setenv
<1>4. config = Config(s)
    BY <1>2, <1>3, ConfigIs
<1>5. /\ config.mode = s.mode /\ config.upstream = s.upstream
      /\ config.spoa = IF s.spoaPort = 0 THEN None ELSE s.spoaPort
    BY <1>4, SMTT(30) DEF Config
<1>6. /\ ports["http"] = ListenerPort(e)
      /\ ports["spoa"] = IF s.spoaPort = 0 THEN None ELSE "spoa"
    BY <1>1 DEF BuildService
<1>7. buildContainerPorts(e)["spoa"] = IF s.spoaPort = 0 THEN None ELSE s.spoaPort
    BY <1>1 DEF buildContainerPorts
<1>8. s.spoaPort # None
    BY OwnedAssumption, NoneIs DEF EngineSpec
<1>9. /\ (ports["spoa"] # None) <=> (config.spoa # None)
      /\ config.spoa # None => template.ports[ports["spoa"]] = config.spoa
    BY <1>2, <1>5, <1>6, <1>7, <1>8, NoneIs
<1>10. template = BuildDeployment(s, b, OperatorAddr).template
    BY <1>1, SMTT(30) DEF BuildDeployment, Labels, ServiceAccountName, RulesConfigMapName,
                buildContainerPorts, ListenerPort, EnvVars, Setenv
<1>11. template \in Templates
    BY <1>10, TemplateIn
<1> HIDE DEF template, config, ports
<1> QED
    BY <1>2, <1>4, <1>5, <1>6, <1>9, <1>11 DEF template, config, ports

(* An Engine whose objects are all as a reconcile leaves them, and whose pods   *)
(* are of the Deployment's template, is served as its spec says.                *)
LEMMA AppliedServes ==
    ASSUME engine \in Engines, bundle \in Bundles, pods = api["Deployment"].template,
           \A k \in Kinds : ObjectInv(k) /\ Applied(k)
    PROVE  engine # None => Serving
<1> SUFFICES ASSUME engine # None PROVE Serving
    OBVIOUS
<1> DEFINE Fix(k, f) == api[k][f] = Desired(k, engine, bundle)[f]
<1>1. PICK s \in Specs, n \in 1..edits : engine = Engine(s, n)
    BY SMTT(30) DEF Engines
<1>2. /\ Fix("ConfigMap", "data") /\ Fix("Deployment", "replicas")
      /\ Fix("Deployment", "template") /\ Fix("Service", "ports") /\ Fix("Service", "selector")
    <2>1. "data" \in Copied("ConfigMap") /\ {"replicas", "template"} \subseteq Copied("Deployment")
          /\ {"ports", "selector"} \subseteq Copied("Service")
        BY DEF Copied
    <2> QED
        BY <2>1, KindsAre, AppliedFields
<1>3. /\ api["ConfigMap"]["data"] = bundle
      /\ api["Deployment"]["replicas"] = engine.replicas
      /\ pods = BuildDeployment(engine, bundle, OperatorAddr).template
      /\ api["Service"]["selector"] = Labels(engine)
      /\ api["Service"]["ports"] = BuildService(engine).ports
    BY <1>2, DesiredFields, SMTT(30)
<1>4. engine.mode = s.mode /\ engine.upstream = s.upstream /\ engine.spoaPort = s.spoaPort
    BY <1>1 DEF Engine
<1>5. PodsRunTheSpec
    BY <1>1, <1>3, <1>4, BuiltServes, SMTT(30) DEF PodsRunTheSpec
<1>6. ServiceLeadsToPods
    BY <1>1, <1>3, BuiltServes, SMTT(30) DEF ServiceLeadsToPods
<1>7. pods # None
    BY <1>1, <1>3, BuiltServes, NoneIs, SMTT(30)
<1>8. \A k \in Kinds : api[k] # None
    BY DEF Applied
<1> QED
    BY <1>3, <1>5, <1>6, <1>7, <1>8 DEF Serving

-----------------------------------------------------------------------------
(* The inductive invariant *)

(* Engines are only added. *)
LEMMA EnginesGrow ==
    ASSUME OwnedInv, [Next]_vars
    PROVE  edits' \in edits..MaxEdits /\ Engines \subseteq Engines'
<1>1. edits \in 0..MaxEdits
    BY DEF OwnedInv, TypeOK
<1>2. edits' = edits \/ (edits < MaxEdits /\ edits' = edits + 1)
    BY DEF Next, vars, cluster, CreateEngine, EditEngine, EditRules, DeleteEngine,
          ForeignEdit, ForeignDelete, GarbageCollect, SyncRevision, RollOut, Operator,
          Begin, Apply, Refused, Finish, Fail
<1>3. edits' \in edits..MaxEdits
    BY <1>1, <1>2, BoundsAre, SMTT(30)
<1>4. \A n \in 1..edits : n \in 1..(edits')
    BY <1>1, <1>3, BoundsAre, SMTT(30)
<1> QED
    BY <1>3, <1>4, SMTT(30) DEF Engines

(* The initial state. *)
LEMMA OwnedInit == Init => OwnedInv
<1> SUFFICES ASSUME Init PROVE OwnedInv
    OBVIOUS
<1>1. bundle \in Bundles
    BY OwnedAssumption DEF Init
<1>2. edits \in 0..MaxEdits /\ foreign \in 0..MaxForeign /\ errors \in 0..MaxErrors
    BY BoundsAre, SMTT(30) DEF Init
<1>3. TypeOK
    BY <1>1, <1>2 DEF Init, TypeOK, NoWork
<1>4. TriggerInv /\ WorkInv /\ pods \in Templates \cup {None}
    BY DEF Init, TriggerInv, WorkInv
<1>5. \A k \in Kinds : ObjectInv(k)
    BY DEF Init, ObjectInv
<1> QED
    BY <1>3, <1>4, <1>5 DEF OwnedInv

(* What the worker holds, and where it is. *)
LEMMA WorkStep ==
    ASSUME OwnedInv, [Next]_vars
    PROVE  WorkInv' /\ pc' \in Kinds \cup {"idle", "status"} /\ (work'.engine = None <=> pc' = "idle")
<1> USE DEF WorkInv
<1>1. /\ WorkInv /\ pc \in Kinds \cup {"idle", "status"} /\ edits \in 0..MaxEdits
      /\ engine \in Engines \cup {None} /\ bundle \in Bundles
    BY DEF OwnedInv, TypeOK
<1>2. Engines \subseteq Engines' /\ edits' \in 0..MaxEdits
    BY <1>1, EnginesGrow, SMTT(30)
<1>3. WorkInv' /\ pc' \in Kinds \cup {"idle", "status"}
    <2>1. CASE UNCHANGED <<pc, work>>
        BY <1>1, <1>2, <2>1
    <2>2. CASE Begin
        BY <1>1, <1>2, <2>2, KindsAre, SMTT(30) DEF Begin
    <2>3. ASSUME NEW k \in Kinds, Apply(k) PROVE WorkInv' /\ pc' \in Kinds \cup {"idle", "status"}
        <3>1. pc \in Kinds /\ pc # "idle" /\ work' = work /\ pc' = After(pc)
            BY <2>3, KindsAre DEF Apply
        <3>2. pc' \in Kinds \cup {"status"} /\ pc' # "idle"
            BY <3>1, AfterIs, KindsAre
        <3> QED
            BY <1>1, <1>2, <3>1, <3>2
    <2>4. CASE Finish
        BY <2>4 DEF Finish
    <2>5. CASE Fail \/ \E k \in Kinds : Refused(k)
        BY <2>5 DEF Fail, Refused
    <2>6. \/ UNCHANGED <<pc, work>> \/ Begin \/ (\E k \in Kinds : Apply(k)) \/ Finish
          \/ Fail \/ (\E k \in Kinds : Refused(k))
        BY DEF Next, vars, cluster, CreateEngine, EditEngine, EditRules, DeleteEngine,
              ForeignEdit, ForeignDelete, GarbageCollect, SyncRevision, RollOut, Operator
    <2> QED
        BY <2>1, <2>2, <2>3, <2>4, <2>5, <2>6
<1>4. None \notin Engines'
    <2>1. \A n \in 1..(edits') : n \in 1..MaxEdits
        BY <1>2, BoundsAre, SMTT(30)
    <2>2. \A s \in Specs, n \in 1..MaxEdits : Engine(s, n) # None
        BY OwnedAssumption
    <2> QED
        BY <2>1, <2>2, SMTT(30) DEF Engines
<1> QED
    BY <1>3, <1>4, SMTT(30) DEF NoWork

(* The other types. *)
LEMMA TypeStep ==
    ASSUME OwnedInv, [Next]_vars
    PROVE  TypeOK' /\ pods' \in Templates \cup {None}
<1>1. /\ edits \in 0..MaxEdits /\ foreign \in 0..MaxForeign /\ errors \in 0..MaxErrors
      /\ engine \in Engines \cup {None} /\ bundle \in Bundles /\ queued \in BOOLEAN
      /\ DOMAIN api = Kinds /\ ready = (pods # None) /\ pods \in Templates \cup {None}
      /\ pods = None \/ FromEnv(pods.env) # None
    BY DEF OwnedInv, TypeOK
<1>2. Engines \subseteq Engines' /\ edits' \in 0..MaxEdits
    BY <1>1, EnginesGrow, SMTT(30)
<1>3. engine' \in Engines' \cup {None}
    <2>1. ASSUME NEW s \in Specs, CreateEngine(s) PROVE engine' \in Engines'
        <3>1. edits' \in 1..(edits')
            BY <1>1, <2>1, SMTT(30) DEF CreateEngine
        <3> QED
            BY <2>1, <3>1, SMTT(30) DEF CreateEngine, Engines
    <2>2. ASSUME NEW s \in Specs, EditEngine(s) PROVE engine' \in Engines'
        <3>1. PICK t \in Specs, n \in 1..edits : engine = Engine(t, n)
            BY <1>1, <2>2, SMTT(30) DEF EditEngine, Engines
        <3>2. engine' = Engine(s, n)
            BY <2>2, <3>1 DEF EditEngine, Engine
        <3>3. engine' \in Engines
            BY <3>2, SMTT(30) DEF Engines
        <3> QED
            BY <1>2, <3>3
    <2>3. CASE DeleteEngine
        BY <2>3 DEF DeleteEngine
    <2>4. CASE UNCHANGED engine
        BY <1>1, <1>2, <2>4
    <2>5. \/ \E s \in Specs : CreateEngine(s) \/ EditEngine(s)
          \/ DeleteEngine \/ UNCHANGED engine
        BY DEF Next, vars, cluster, EditRules, ForeignEdit, ForeignDelete, GarbageCollect,
              SyncRevision, RollOut, Operator, Begin, Apply, Refused, Finish, Fail
    <2> QED
        BY <2>1, <2>2, <2>3, <2>4, <2>5
<1>4. bundle' \in Bundles
    BY <1>1 DEF Next, vars, cluster, CreateEngine, EditEngine, EditRules, DeleteEngine,
          ForeignEdit, ForeignDelete, GarbageCollect, SyncRevision, RollOut, Operator,
          Begin, Apply, Refused, Finish, Fail
<1>5. foreign' \in 0..MaxForeign
    <2>1. foreign' = foreign \/ (foreign < MaxForeign /\ foreign' = foreign + 1)
        BY DEF Next, vars, cluster, CreateEngine, EditEngine, EditRules, DeleteEngine,
              ForeignEdit, ForeignDelete, GarbageCollect, SyncRevision, RollOut, Operator,
              Begin, Apply, Refused, Finish, Fail
    <2> QED
        BY <1>1, <2>1, BoundsAre, SMTT(30)
<1>6. errors' \in 0..MaxErrors
    <2>1. errors' = errors \/ (errors < MaxErrors /\ errors' = errors + 1)
        BY DEF Next, vars, cluster, CreateEngine, EditEngine, EditRules, DeleteEngine,
              ForeignEdit, ForeignDelete, GarbageCollect, SyncRevision, RollOut, Operator,
              Begin, Apply, Refused, Finish, Fail
    <2> QED
        BY <1>1, <2>1, BoundsAre, SMTT(30)
<1>7. queued' \in BOOLEAN
    BY <1>1 DEF Next, vars, cluster, CreateEngine, EditEngine, EditRules, DeleteEngine, Gone,
          ForeignEdit, ForeignDelete, GarbageCollect, SyncRevision, RollOut, Operator,
          Begin, Apply, Refused, Finish, Fail
<1>8. DOMAIN api' = Kinds
    BY <1>1 DEF Next, vars, cluster, CreateEngine, EditEngine, EditRules, DeleteEngine, Gone,
          ForeignEdit, ForeignDelete, GarbageCollect, SyncRevision, RollOut, Operator,
          Begin, Apply, Refused, Finish, Fail
<1>9. /\ pods' \in Templates \cup {None} /\ ready' = (pods' # None)
      /\ pods' = None \/ FromEnv(pods'.env) # None
    <2>1. CASE UNCHANGED <<pods, ready>>
        BY <1>1, <2>1
    <2>2. CASE \E k \in Kinds : Gone(k)
        BY <1>1, <2>2 DEF Gone
    <2>3. CASE RollOut
        <3>1. pods' \in Templates
            BY <2>3, KindsAre DEF RollOut, OwnedInv, ObjectInv
        <3>2. FromEnv(pods'.env) # None /\ ready' = TRUE
            BY <2>3 DEF RollOut, Starts
        <3> QED
            BY <3>1, <3>2, NoneIs
    <2>4. UNCHANGED <<pods, ready>> \/ (\E k \in Kinds : Gone(k)) \/ RollOut
        BY DEF Next, vars, cluster, CreateEngine, EditEngine, EditRules, DeleteEngine,
              ForeignEdit, ForeignDelete, GarbageCollect, SyncRevision, Operator,
              Begin, Apply, Refused, Finish, Fail
    <2> QED
        BY <2>1, <2>2, <2>3, <2>4
<1> QED
    BY <1>2, <1>3, <1>4, <1>5, <1>6, <1>7, <1>8, <1>9, WorkStep DEF TypeOK

(* The object that applyOwnedObject leaves has its fields, and an owner. *)
LEMMA PatchIs ==
    ASSUME OwnedInv, NEW k \in Kinds, pc = k,
           NEW obj, obj = CreateOrPatch(k, Desired(k, work.engine, work.bundle))
    PROVE  /\ DOMAIN obj = Fields(k)
           /\ obj["owner"] \in 1..edits
           /\ k = "Deployment" => /\ obj["template"] \in Templates
                                  /\ obj["selector"] = obj["template"].labels
<1>1. work \in [engine : Engines, bundle : Bundles]
    BY KindsAre DEF OwnedInv, WorkInv
<1>2. PICK s \in Specs, n \in 1..edits : work.engine = Engine(s, n)
    BY <1>1, SMTT(30) DEF Engines
<1>3. n \in 1..MaxEdits
    BY BoundsAre, SMTT(30) DEF OwnedInv, TypeOK
<1> DEFINE d == Desired(k, work.engine, work.bundle)
<1>4. /\ DOMAIN d = Fields(k) /\ d["owner"] \in 1..edits
      /\ k = "Deployment" => d["template"] \in Templates /\ d["selector"] = d["template"].labels
    BY <1>1, <1>2, <1>3, DesiredIs, SMTT(30)
<1> HIDE DEF d
<1>5. CASE api[k] = None
    BY <1>4, <1>5 DEF CreateOrPatch, d
<1>6. CASE api[k] # None
    <2>1. DOMAIN api[k] = Fields(k)
        BY <1>6 DEF OwnedInv, ObjectInv
    <2>2. obj = [f \in Fields(k) |-> IF f \in Copied(k) THEN d[f] ELSE api[k][f]]
        BY <1>6, <2>1 DEF CreateOrPatch, d
    <2>3. "owner" \in Copied(k) /\ Copied(k) \subseteq Fields(k)
        BY DEF Copied, Fields
    <2>4. k = "Deployment" => "template" \in Copied(k)
        BY SMTT(30) DEF Copied
    <2>5. obj["owner"] = d["owner"] /\ (k = "Deployment" => obj["template"] = d["template"])
        BY <2>2, <2>3, <2>4
    <2>6. k = "Deployment" => obj["selector"] = obj["template"].labels
        <3> SUFFICES ASSUME k = "Deployment" PROVE obj["selector"] = obj["template"].labels
            OBVIOUS
        <3>1. "selector" \in Fields(k) \ Copied(k)
            BY DEF Fields, Copied
        <3>2. obj["selector"] = api[k]["selector"]
            BY <2>2, <3>1
        <3>3. /\ api[k]["selector"] = api[k]["template"].labels
              /\ api[k]["template"] \in Templates
            BY <1>6 DEF OwnedInv, ObjectInv
        <3> QED
            BY <1>4, <2>5, <3>2, <3>3, TemplateLabels
    <2> QED
        BY <1>4, <2>2, <2>5, <2>6
<1> QED
    BY <1>5, <1>6

(* Whoever writes an object, it keeps its fields and an owner. *)
LEMMA ObjectStep ==
    ASSUME OwnedInv, [Next]_vars
    PROVE  \A k \in Kinds : ObjectInv(k)'
<1> SUFFICES ASSUME NEW k \in Kinds, api'[k] # None
             PROVE  /\ DOMAIN api'[k] = Fields(k)
                    /\ api'[k]["owner"] \in 1..(edits')
                    /\ k = "Deployment" => /\ api'[k]["template"] \in Templates
                                           /\ api'[k]["selector"] = api'[k]["template"].labels
    BY DEF ObjectInv
<1>1. DOMAIN api = Kinds /\ edits \in Nat
    BY BoundsAre, SMTT(30) DEF OwnedInv, TypeOK
<1>2. \A n \in 1..edits : n \in 1..(edits')
    BY <1>1, EnginesGrow, BoundsAre, SMTT(30)
<1>3. api[k] # None => /\ DOMAIN api[k] = Fields(k) /\ api[k]["owner"] \in 1..edits
                       /\ k = "Deployment" => /\ api[k]["template"] \in Templates
                                              /\ api[k]["selector"] = api[k]["template"].labels
    BY DEF OwnedInv, ObjectInv
<1>4. CASE api'[k] = api[k]
    BY <1>2, <1>3, <1>4
<1>5. ASSUME NEW j \in Kinds, Gone(j) PROVE api'[k] = api[k]
    BY <1>1, <1>5 DEF Gone
<1>6. ASSUME NEW j \in Kinds, ForeignEdit(j), k = j
      PROVE  /\ DOMAIN api'[k] = DOMAIN api[k] /\ api'[k]["owner"] = api[k]["owner"]
             /\ k = "Deployment" => /\ api'[k]["template"] = api[k]["template"]
                                    /\ api'[k]["selector"] = api[k]["selector"]
    <2>1. api[k] # None
        BY <1>6 DEF ForeignEdit
    <2>2. \/ k = "Deployment" /\ api'[k] = [api[k] EXCEPT !.replicas = @ + 1]
          \/ k = "Service" /\ api'[k] = [api[k] EXCEPT !.selector = None]
        BY <1>1, <1>6 DEF ForeignEdit
    <2>3. "owner" \in DOMAIN api[k]
          /\ (k = "Deployment" => {"template", "selector"} \subseteq DOMAIN api[k])
        BY <1>3, <2>1, SMTT(30) DEF Fields, Copied
    <2>4. CASE k = "Deployment"
        BY <2>2, <2>3, <2>4
    <2>5. CASE k = "Service"
        BY <2>2, <2>3, <2>5
    <2> QED
        BY <2>2, <2>4, <2>5
<1>7. ASSUME NEW j \in Kinds, ForeignEdit(j), k # j PROVE api'[k] = api[k]
    BY <1>1, <1>7 DEF ForeignEdit
<1>8. ASSUME SyncRevision, k = "Deployment"
      PROVE  /\ DOMAIN api'[k] = DOMAIN api[k] /\ api'[k]["owner"] = api[k]["owner"]
             /\ api'[k]["template"] = api[k]["template"]
             /\ api'[k]["selector"] = api[k]["selector"]
    <2>1. api'[k] = [api[k] EXCEPT !.annotations = @ \cup {"revision"}]
        BY <1>1, <1>8 DEF SyncRevision
    <2> QED
        BY <2>1, SMTT(30)
<1>9. ASSUME SyncRevision, k # "Deployment" PROVE api'[k] = api[k]
    BY <1>1, <1>9 DEF SyncRevision
<1>10. ASSUME NEW j \in Kinds, Apply(j), k # j PROVE api'[k] = api[k]
    BY <1>1, <1>10 DEF Apply
<1>11. ASSUME NEW j \in Kinds, Apply(j), k = j
       PROVE  /\ DOMAIN api'[k] = Fields(k) /\ api'[k]["owner"] \in 1..edits
              /\ k = "Deployment" => /\ api'[k]["template"] \in Templates
                                     /\ api'[k]["selector"] = api'[k]["template"].labels
    <2>1. pc = k /\ api'[k] = CreateOrPatch(k, Desired(k, work.engine, work.bundle))
        BY <1>1, <1>11 DEF Apply
    <2> QED
        BY <2>1, PatchIs
<1>12. \/ \E j \in Kinds : Gone(j) /\ api[j] # None
       \/ \E j \in Kinds : ForeignEdit(j) \/ Apply(j)
       \/ SyncRevision \/ UNCHANGED api
    BY DEF Next, vars, cluster, CreateEngine, EditEngine, EditRules, DeleteEngine,
          ForeignDelete, GarbageCollect, RollOut, Operator, Begin, Refused, Finish, Fail
<1>13. CASE \E j \in Kinds : ForeignEdit(j)
    <2>1. PICK j \in Kinds : ForeignEdit(j)
        BY <1>13
    <2>2. CASE k = j
        <3>1. api[k] # None
            BY <2>1, <2>2 DEF ForeignEdit
        <3> QED
            BY <1>2, <1>3, <1>6, <2>1, <2>2, <3>1
    <2> QED
        BY <1>4, <1>7, <2>1, <2>2
<1>14. CASE SyncRevision
    <2>1. CASE k = "Deployment"
        <3>1. api[k] # None
            BY <1>14, <2>1 DEF SyncRevision
        <3> QED
            BY <1>2, <1>3, <1>8, <1>14, <2>1, <3>1
    <2> QED
        BY <1>4, <1>9, <1>14, <2>1
<1>15. CASE \E j \in Kinds : Apply(j)
    BY <1>2, <1>4, <1>10, <1>11, <1>15
<1> QED
    BY <1>4, <1>5, <1>12, <1>13, <1>14, <1>15

(* A patch that changes nothing finds the object as it should be. *)
LEMMA SilentPatch ==
    ASSUME OwnedInv, NEW k \in Kinds, pc = k, engine # None, ~queued,
           CreateOrPatch(k, Desired(k, work.engine, work.bundle)) = api[k]
    PROVE  Applied(k)
<1>1. work.engine = engine /\ work.bundle = bundle
    BY KindsAre, SMTT(30) DEF OwnedInv, TriggerInv
<1>2. PICK s \in Specs, n \in 1..edits : engine = Engine(s, n)
    BY SMTT(30) DEF OwnedInv, TypeOK, Engines
<1>3. n \in 1..MaxEdits /\ bundle \in Bundles
    BY BoundsAre, SMTT(30) DEF OwnedInv, TypeOK
<1>4. Desired(k, engine, bundle) # None
    BY <1>2, <1>3, DesiredIs, SMTT(30)
<1>5. api[k] # None
    BY <1>1, <1>4 DEF CreateOrPatch
<1> QED
    BY <1>1, <1>5 DEF Applied

(* While nothing is queued, everything the worker has been through is as it     *)
(* left it: whoever disturbs an object, the Engine or its rules enqueues the    *)
(* Engine, and so does the worker's own change.                                 *)
LEMMA TriggerStep ==
    ASSUME OwnedInv, [Next]_vars
    PROVE  TriggerInv'
<1> SUFFICES ASSUME engine' # None, ~queued'
             PROVE  /\ \A k \in Before(pc') : Applied(k)'
                    /\ pc' # "idle" => work' = [engine |-> engine', bundle |-> bundle']
    BY DEF TriggerInv
<1> DEFINE Goal == /\ \A k \in Before(pc') : Applied(k)'
                   /\ pc' # "idle" => work' = [engine |-> engine', bundle |-> bundle']
<1>1. TriggerInv /\ queued \in BOOLEAN /\ DOMAIN api = Kinds
    BY DEF OwnedInv, TypeOK
<1>2. Before(pc) \subseteq Kinds
    BY DEF Before
<1>3. CASE UNCHANGED vars
    BY <1>1, <1>3 DEF vars, TriggerInv, Applied, CreateOrPatch
<1>4. CASE Begin
    <2>1. engine # None /\ engine' = engine /\ bundle' = bundle
        BY <1>4 DEF Begin, cluster
    <2>2. pc' = "ServiceAccount" /\ work' = [engine |-> engine', bundle |-> bundle']
        BY <1>4, <2>1, KindsAre DEF Begin
    <2> QED
        BY <2>2, BeforeIs
<1>5. ASSUME NEW j \in Kinds, Apply(j) PROVE Goal
    <2> DEFINE obj == CreateOrPatch(j, Desired(j, work.engine, work.bundle))
    <2>1. /\ pc = j /\ pc' = After(j) /\ work' = work /\ engine' = engine /\ bundle' = bundle
          /\ ~queued /\ obj = api[j]
        BY <1>5, <1>1 DEF Apply, cluster
    <2>2. \A k \in Kinds : api'[k] = api[k]
        BY <1>1, <1>5, <2>1 DEF Apply
    <2>3. Applied(j)
        BY <2>1, SilentPatch
    <2>4. Before(pc') \subseteq Before(pc) \cup {j}
        BY <2>1, AfterIs, BeforeIs, KindsAre
    <2>5. \A k \in Before(pc) : Applied(k)
        BY <1>1, <2>1 DEF TriggerInv
    <2>6. ASSUME NEW k \in Kinds, Applied(k) PROVE Applied(k)'
        BY <2>1, <2>2, <2>6 DEF Applied, CreateOrPatch
    <2>7. work' = [engine |-> engine', bundle |-> bundle']
        BY <1>1, <2>1, KindsAre DEF TriggerInv
    <2> QED
        BY <1>2, <2>3, <2>4, <2>5, <2>6, <2>7
<1>6. CASE Finish
    <2>1. /\ pc = "status" /\ pc' = "idle" /\ engine' = engine /\ bundle' = bundle /\ api' = api
          /\ ~queued
        BY <1>1, <1>6 DEF Finish, cluster
    <2>2. \A k \in Kinds : Applied(k)
        BY <1>1, <2>1, BeforeIs DEF TriggerInv
    <2>3. \A k \in Kinds : Applied(k)'
        BY <2>1, <2>2 DEF Applied, CreateOrPatch
    <2> QED
        BY <2>1, <2>3, BeforeIs
<1>7. ASSUME NEW b \in Bundles, EditRules(b) PROVE FALSE
    BY <1>7 DEF EditRules
<1>8. queued' \/ (\E b \in Bundles : EditRules(b)) \/ Begin \/ (\E j \in Kinds : Apply(j))
      \/ Finish \/ UNCHANGED vars
    BY DEF Next, CreateEngine, EditEngine, DeleteEngine, Gone, ForeignEdit,
          ForeignDelete, GarbageCollect, SyncRevision, RollOut, Operator, Refused, Fail
<1> QED
    BY <1>3, <1>4, <1>5, <1>6, <1>7, <1>8

-----------------------------------------------------------------------------
(* The theorems *)

(* The inductive invariant holds throughout: whoever writes an owned object,    *)
(* the Engine or its RuleSet enqueues the Engine, and what the loop of          *)
(* applyOwnedObjects has been through while nothing is queued is as it left it. *)
THEOREM OwnedInvariant == Spec => []OwnedInv
<1>1. OwnedInv /\ [Next]_vars => OwnedInv'
    BY WorkStep, TypeStep, ObjectStep, TriggerStep DEF OwnedInv
<1> QED
    BY OwnedInit, <1>1, PTL DEF Spec

(* The types, and that the worker holds an Engine exactly inside a reconcile. *)
THEOREM OwnedTypeOK == Spec => []TypeOK
<1>1. OwnedInv => TypeOK
    BY DEF OwnedInv
<1> QED
    BY OwnedInvariant, <1>1, PTL

(* No trigger is missing: a controller with nothing to do has the owned objects *)
(* in place, and pods of the present template serve the Engine as its spec      *)
(* says (applyOwnedObjects, the mutate functions and the Owns watches).         *)
THEOREM OwnedServedAtRest == Spec => []ServedAtRest
<1>1. OwnedInv => ServedAtRest
    <2> SUFFICES ASSUME OwnedInv, engine # None, ~queued, pc = "idle"
                 PROVE  /\ \A k \in Kinds : api[k] # None
                        /\ pods = api["Deployment"].template => Serving
        BY DEF ServedAtRest
    <2>1. \A k \in Kinds : Applied(k)
        BY BeforeIs DEF OwnedInv, TriggerInv
    <2>2. \A k \in Kinds : api[k] # None
        BY <2>1 DEF Applied
    <2>3. engine \in Engines /\ bundle \in Bundles /\ \A k \in Kinds : ObjectInv(k)
        BY DEF OwnedInv, TypeOK
    <2> QED
        BY <2>1, <2>2, <2>3, AppliedServes
<1> QED
    BY OwnedInvariant, <1>1, PTL

(* What is left of an Engine that is gone is the garbage collector's, because   *)
(* applyOwnedObjects stamps an owner reference on whatever it creates, also     *)
(* when it creates it after the deletion.                                       *)
THEOREM OwnedOrphans == Spec => []OrphansAreCollected
<1>1. OwnedInv => OrphansAreCollected
    <2> SUFFICES ASSUME OwnedInv, engine = None, NEW k \in Kinds, api[k] # None
                 PROVE  api[k]["owner"] \notin {None}
        BY DEF OrphansAreCollected, LiveOwners
    <2>1. api[k]["owner"] \in 1..edits
        BY DEF OwnedInv, ObjectInv
    <2>2. edits \in Nat
        BY BoundsAre, SMTT(30) DEF OwnedInv, TypeOK
    <2> QED
        BY <2>1, <2>2, NoneIs, SMTT(30)
<1> QED
    BY OwnedInvariant, <1>1, PTL

(* At rest nothing keeps the pods of a runnable Engine from being rolled out:   *)
(* applyOwnedObjects has made their mounts and put the rules there, FromEnv     *)
(* accepts the environment that EnvVars builds, Run gets past its errors and    *)
(* binds its listeners, and the probes go to the main one.                      *)
THEOREM OwnedPodsCanStart == Spec => []PodsCanStartAtRest
<1>1. OwnedInv => PodsCanStartAtRest
    <2> SUFFICES ASSUME OwnedInv, engine # None, ~queued, pc = "idle", Runnable
                 PROVE  Starts(api["Deployment"].template)
        BY DEF PodsCanStartAtRest
    <2>1. \A k \in Kinds : Applied(k) /\ ObjectInv(k)
        BY BeforeIs DEF OwnedInv, TriggerInv
    <2>2. PICK s \in Specs, n \in 1..edits : engine = Engine(s, n)
        BY SMTT(30) DEF OwnedInv, TypeOK, Engines
    <2>3. bundle \in Bundles
        BY DEF OwnedInv, TypeOK
    <2>4. /\ api["Deployment"]["template"] = BuildDeployment(engine, bundle, OperatorAddr).template
          /\ api["ConfigMap"]["data"] = bundle
        <3>1. /\ "Deployment" \in Kinds /\ "template" \in Copied("Deployment")
              /\ "ConfigMap" \in Kinds /\ "data" \in Copied("ConfigMap")
            BY KindsAre DEF Copied
        <3>2. api["Deployment"]["template"] = Desired("Deployment", engine, bundle)["template"]
            BY <2>1, <3>1, AppliedFields
        <3>3. api["ConfigMap"]["data"] = Desired("ConfigMap", engine, bundle)["data"]
            BY <2>1, <3>1, AppliedFields
        <3> QED
            BY <3>2, <3>3, DesiredFields
    <2> DEFINE template == api["Deployment"].template
    <2>5. FromEnv(template.env) = Config(s) /\ template.probe = ListenerPort(engine)
        BY <2>2, <2>3, <2>4, BuiltServes, SMTT(30)
    <2>6. Config(s) # None
        BY OwnedAssumption
    <2>7. Runs(Config(s), bundle)
        <3>1. engine.upstream = s.upstream /\ engine.spoaPort = s.spoaPort
            BY <2>2 DEF Engine
        <3> QED
            BY <3>1, ConfigRuns, SMTT(30) DEF Runnable
    <2>8. Probed(Config(s), template.probe)
        BY <2>5, SMTT(30) DEF Runnable, Probed, Config, defaultListenerPort
    <2>9. api["ServiceAccount"] # None /\ api["ConfigMap"] # None
        BY <2>1, KindsAre DEF Applied
    <2> HIDE DEF template
    <2>10. Starts(template)
        BY <2>4, <2>5, <2>6, <2>7, <2>8, <2>9 DEF Starts
    <2> QED
        BY <2>10 DEF template
<1> QED
    BY OwnedInvariant, <1>1, PTL

(* A Deployment selects the pods of its own template although mutateDeployment  *)
(* writes the selector on creation only: no update is refused for it.           *)
THEOREM OwnedSelectorMatches == Spec => []SelectorMatches
<1>1. OwnedInv => SelectorMatches
    BY KindsAre DEF OwnedInv, ObjectInv, SelectorMatches
<1> QED
    BY OwnedInvariant, <1>1, PTL
=============================================================================
