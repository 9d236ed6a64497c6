------------------------------ MODULE SecRules ------------------------------
(***************************************************************************)
(* The controllers that validate a single rule source                      *)
(* (internal/controller/secrules_controller.go; the one for ClusterSecRules*)
(* is the same but for the label of the source), with the informer cache   *)
(* they read, the API server that refuses updates of old versions, and     *)
(* users who edit, delete and create the object again.                     *)
(***************************************************************************)
EXTENDS Compiler

CONSTANTS
    Texts,      \* the bodies a source may have; <<>> is the empty string
    Label,      \* "<Kind>/<Name>" of the object
    Other,      \* "<Kind>/<Name>" of another source of its RuleSet
    None,       \* no object
    MaxEdits,   \* bound: creations and edits
    MaxErrors,  \* bound: failing API calls
    MaxRestarts \* bound: restarts of the operator

Statuses ==
    [ready : BOOLEAN, degraded : {None, NoID} \cup Conflicts,
     conditionGeneration : 0..MaxEdits, parsedRuleCount : Nat, observedGeneration : 0..MaxEdits]

Objects ==
    [uid : 1..MaxEdits, generation : 1..MaxEdits, version : Nat, rules : Texts, status : Statuses]

ASSUME SecRulesAssumption ==
    /\ <<>> \in Texts /\ Texts \subseteq Seq(Lines)
    /\ {Label, Other} \subseteq STRING
    /\ None \notin {NoID} \cup Conflicts \cup Objects
    /\ {MaxEdits, MaxErrors, MaxRestarts} \subseteq Nat

VARIABLES
    api,    \* the object in the API server, or None
    cache,  \* the object in the informer cache, or None
    queued, \* its key is in the work queue
    work,   \* the copy a running reconcile works on, or None
    edits, errors, restarts  \* counters for the bounds

vars == <<api, cache, queued, work, edits, errors, restarts>>

NoStatus == [ready |-> FALSE, degraded |-> None, conditionGeneration |-> 0,
             parsedRuleCount |-> 0, observedGeneration |-> 0]

Init ==
    /\ api = None /\ cache = None /\ work = None
    /\ queued = FALSE
    /\ edits = 0 /\ errors = 0 /\ restarts = 0

-----------------------------------------------------------------------------
(* Users, the API server and the watch *)

Create(t) ==
    /\ api = None
    /\ edits < MaxEdits
    /\ edits' = edits + 1
    /\ api' = [uid |-> edits', generation |-> 1, version |-> 1,
               rules |-> t, status |-> NoStatus]
    /\ UNCHANGED <<cache, queued, work, errors, restarts>>

Edit(t) ==
    /\ api # None
    /\ t # api.rules
    /\ edits < MaxEdits
    /\ edits' = edits + 1
    /\ api' = [uid |-> api.uid, generation |-> api.generation + 1,
               version |-> api.version + 1, rules |-> t, status |-> api.status]
    /\ UNCHANGED <<cache, queued, work, errors, restarts>>

Delete ==
    /\ api # None
    /\ api' = None
    /\ UNCHANGED <<cache, queued, work, edits, errors, restarts>>

(* GenerationChangedPredicate lets creations, deletions and new generations     *)
(* pass; the controller's own status updates it drops.                          *)
Passes(old, new) ==
    IF old = None \/ new = None THEN TRUE
    ELSE old.uid # new.uid \/ old.generation # new.generation

(* The cache catches up with the API server. *)
Watch ==
    /\ cache # api
    /\ cache' = api
    /\ queued' = (queued \/ Passes(cache, api))
    /\ UNCHANGED <<api, work, edits, errors, restarts>>

-----------------------------------------------------------------------------
(* Reconcile *)

(* r.Get, from the cache; not found ends the reconcile. *)
Get ==
    /\ work = None /\ queued
    /\ queued' = FALSE
    /\ work' = cache
    /\ UNCHANGED <<api, cache, edits, errors, restarts>>

(* The status computed for an object: degraded is the conflict reported, NoID   *)
(* for an empty spec, None when the condition is not True. A failure leaves     *)
(* parsedRuleCount and observedGeneration as they were.                         *)
Degraded(sr, why) ==
    [ready |-> FALSE, degraded |-> why, conditionGeneration |-> sr.generation,
     parsedRuleCount |-> sr.status.parsedRuleCount,
     observedGeneration |-> sr.status.observedGeneration]

Status(sr) ==
    LET bundle == Compile(<<[name |-> Label, body |-> sr.rules]>>) IN
    IF sr.rules = <<>> THEN Degraded(sr, NoID)
    ELSE IF bundle.err # NoID THEN Degraded(sr, bundle.err)
    ELSE [ready |-> TRUE, degraded |-> None, conditionGeneration |-> sr.generation,
          parsedRuleCount |-> bundle.ruleCount, observedGeneration |-> sr.generation]

(* patchStatusIfChanged: nothing to do. *)
Unchanged ==
    /\ work # None
    /\ Status(work) = work.status
    /\ work' = None
    /\ UNCHANGED <<api, cache, queued, edits, errors, restarts>>

(* An update of the status subresource leaves the generation alone. *)
WithStatus(sr, status) ==
    [uid |-> sr.uid, generation |-> sr.generation, version |-> sr.version + 1,
     rules |-> sr.rules, status |-> status]

(* The API server accepts an update of the version it has. *)
Accepts(sr) == api # None /\ api.uid = sr.uid /\ api.version = sr.version

UpdateBlind ==
    /\ work # None /\ api # None
    /\ Status(work) # work.status
    /\ api' = WithStatus(api, Status(work))
    /\ work' = None
    /\ UNCHANGED <<cache, queued, edits, errors, restarts>>

UpdateOverwrites ==
    /\ work # None /\ api # None
    /\ Status(work) # work.status
    /\ api' = [work EXCEPT !.status = Status(work)]
    /\ work' = None
    /\ UNCHANGED <<cache, queued, edits, errors, restarts>>

Update ==
    /\ work # None
    /\ Status(work) # work.status
    /\ Accepts(work)
    /\ api' = WithStatus(api, Status(work))
    /\ work' = None
    /\ UNCHANGED <<cache, queued, edits, errors, restarts>>

(* The update is refused; the error brings the key back with a backoff. *)
Refused ==
    /\ work # None
    /\ Status(work) # work.status
    /\ ~Accepts(work)
    /\ queued' = TRUE
    /\ work' = None
    /\ UNCHANGED <<api, cache, edits, errors, restarts>>

FailForgets ==
    /\ work # None
    /\ errors < MaxErrors
    /\ errors' = errors + 1
    /\ work' = None
    /\ UNCHANGED <<api, cache, queued, edits, restarts>>

(* A call fails. *)
Fail ==
    /\ work # None
    /\ errors < MaxErrors
    /\ errors' = errors + 1
    /\ queued' = TRUE
    /\ work' = None
    /\ UNCHANGED <<api, cache, edits, restarts>>

(* The operator restarts: its first list fills the cache and the queue. *)
Restart ==
    /\ restarts < MaxRestarts
    /\ restarts' = restarts + 1
    /\ cache' = api
    /\ queued' = (api # None)
    /\ work' = None
    /\ UNCHANGED <<api, edits, errors>>

Worker == Get \/ Unchanged \/ Update \/ Refused

Next ==
    \/ \E t \in Texts : Create(t) \/ Edit(t)
    \/ Delete
    \/ Watch
    \/ Worker
    \/ Fail
    \/ Restart

(* The worker runs and the watch delivers. *)
Fairness == WF_vars(Worker) /\ WF_vars(Watch)

Spec == Init /\ [][Next]_vars
FairSpec == Spec /\ Fairness

-----------------------------------------------------------------------------
(* What the conditions and the count of an object should say of its body. *)
Describes(status, sr) ==
    LET bundle == Compile(<<[name |-> Label, body |-> sr.rules]>>)
        good == sr.rules # <<>> /\ bundle.err = NoID
    IN  /\ status.conditionGeneration = sr.generation
        /\ status.ready <=> good
        /\ (status.degraded = None) <=> good
        /\ good => /\ status.parsedRuleCount = CountRules(sr.rules)
                   /\ status.observedGeneration = sr.generation

(* Every variable keeps its type, and neither the cache nor a reconcile is ever *)
(* ahead of the API server's version of the object they have in common.         *)
TypeOK ==
    /\ {api, cache, work} \subseteq Objects \cup {None}
    /\ queued \in BOOLEAN
    /\ edits \in 0..MaxEdits /\ errors \in 0..MaxErrors /\ restarts \in 0..MaxRestarts
    /\ \A o \in {cache, work} \ {None} :
          api # None /\ api.uid = o.uid => o.version <= api.version

(* A source that is no longer edited is in the end reported as what it is:      *)
(* Ready with its number of rules, or Degraded, although updates are refused,   *)
(* calls fail, the operator restarts, statuses are compared with a cache that   *)
(* is behind, and the object may have been created again at generation 1        *)
(* (secrules_controller.go Reconcile, patchStatusIfChanged, SetupWithManager).  *)
Reports == <>[](api # None => Describes(api.status, api))

(* Conditions for the object's present generation are true of its present body, *)
(* at every moment: a status computed from an old copy never lands on a newer   *)
(* object, not even on a namesake that is also at its first generation.         *)
ConditionsAreEarned ==
    api # None /\ api.status.conditionGeneration = api.generation
        => Describes(api.status, api)

-----------------------------------------------------------------------------
(* The inductive invariant. A copy of the object at the API server's version is *)
(* that object; uids are never used again, and generations only grow.           *)

CopyOf(o, present, n) ==
    o # None =>
        /\ o.uid <= n
        /\ present # None /\ present.uid = o.uid =>
              /\ o.version <= present.version
              /\ o.version = present.version => o = present

Current(o, n) ==
    o # None => /\ o.uid <= n /\ o.generation <= n
                /\ o.status.conditionGeneration <= o.generation

SourceInv ==
    /\ TypeOK
    /\ Current(api, edits)
    /\ CopyOf(cache, api, edits) /\ CopyOf(work, api, edits)
    /\ ConditionsAreEarned

-----------------------------------------------------------------------------
(* The compiler against a definition of what it should find *)

(* A RuleSet of another source and this one. *)
Pair(t, sr) == <<[name |-> Other, body |-> t], [name |-> Label, body |-> sr.rules]>>

(* Compile reports a conflict exactly when two directive lines, of one source   *)
(* or of two, carry the same id; the conflict is the first line that repeats an *)
(* id, with the source that declared it first; and otherwise the text is every  *)
(* source in order (compiler.go Compile).                                       *)
FindsFirstConflict ==
    api # None => \A t \in Texts : CompilesRight(Pair(t, api))

(* The operator and the engine count alike: what Compile reports for a bundle   *)
(* is what CountRules finds in the text the engine receives, and the sum of     *)
(* what the sources report one by one (compiler.go Compile, CountRules).        *)
CountsAgree ==
    api # None => \A t \in Texts :
        LET result == Compile(Pair(t, api)) IN
        /\ CountsRight(Pair(t, api))
        /\ result.err = NoID => result.ruleCount = CountRules(t) + CountRules(api.rules)

(* The ids a text declares: those of its directive lines, and those on the line *)
(* a directive continues on.                                                    *)
Declared(text) ==
    LET declares(i) == text[i].directive \/ (i > 1 /\ text[i - 1].directive)
    IN  {text[i].id : i \in {j \in DOMAIN text : declares(j)}} \ {NoID}

(* compiler.go, Compile: "It detects duplicate rule IDs across sources". Two    *)
(* sources that declare the same id, on whichever line of the rule, do not      *)
(* compile together.                                                            *)
DetectsDuplicates ==
    api # None => \A t \in Texts :
        Declared(t) \cap Declared(api.rules) # {} => Compile(Pair(t, api)).err # NoID
=============================================================================
