--------------------------- MODULE DeliveryProofs ---------------------------
(***************************************************************************)
(* Proofs about Delivery, for any number of operator replicas, engine      *)
(* pods, bundles, edits, rollouts and faults, with leader election and     *)
(* without it: who writes, what may be written, what a stream has sent,    *)
(* and what rules that do not parse can do to the pods.                    *)
(***************************************************************************)
EXTENDS Delivery, FiniteSetTheorems, TLAPS

(* Most steps are first-order and left to Zenon; those that need arithmetic,    *)
(* records or sequences say so.                                                 *)
USE ZenonT(30)

(* The constants: there is a first replica and a first bundle. *)
LEMMA ConstantsAre ==
    /\ Oldest \in Replicas /\ FirstBundle \in Bundles /\ FirstBundle \in Parsable
    /\ Parsable \subseteq Bundles
    /\ None \notin Bundles /\ None \notin Replicas
    /\ MaxChanges \in Nat /\ MaxFaults \in Nat
<1>1. Replicas # {}
    <2>1. Replicas = {} => Cardinality(Replicas) = 0
        BY FS_EmptySet
    <2> QED
        BY <2>1, DeliveryAssumption, SMTT(30)
<1> QED
    BY <1>1, DeliveryAssumption DEF Oldest, FirstBundle

-----------------------------------------------------------------------------
(* What users have asked for *)

(* Edits of the rules are appended. *)
LEMMA RulesStep ==
    ASSUME DeliveryInv, [Next]_vars
    PROVE  /\ rules' \in Seq(Bundles) /\ rules' # <<>>
           /\ Len(rules) \in Nat /\ Len(rules') \in Nat /\ Len(rules) <= Len(rules')
           /\ \A i \in 1..Len(rules) : rules'[i] = rules[i]
<1>1. rules \in Seq(Bundles) /\ rules # <<>>
    BY DEF DeliveryInv
<1>2. rules' = rules \/ \E b \in Bundles : rules' = Append(rules, b)
    BY DEF Next, vars, stores, bounds, Operator, Engine, EditRules, Start, Lead,
          LeaseExpires, Stop, ShutdownGRPC, Crash, Ends, Refresh, Reconcile, Write,
          PublishRuleSet, SendLatestWaits, InitialSendWaits, Replace, RestartContainer,
          RestartFailed, Boot, Connect, Break, Receive
<1>3. CASE rules' = rules
    BY <1>1, <1>3, SMTT(30)
<1>4. ASSUME NEW b \in Bundles, rules' = Append(rules, b)
      PROVE  /\ rules' \in Seq(Bundles) /\ rules' # <<>>
             /\ Len(rules) \in Nat /\ Len(rules') \in Nat /\ Len(rules) <= Len(rules')
             /\ \A i \in 1..Len(rules) : rules'[i] = rules[i]
    BY <1>1, <1>4, SMTT(30)
<1> QED
    BY <1>2, <1>3, <1>4

(* What was asked for stays so, and what is stored stays something asked for. *)
LEMMA AskedGrows ==
    ASSUME DeliveryInv, [Next]_vars
    PROVE  /\ Asked \subseteq Asked' /\ Stored \subseteq Stored' /\ Running \subseteq Running'
           /\ Seq(Asked) \subseteq Seq(Asked')
<1>1. Asked \subseteq Asked'
    <2>1. \A i \in 1..Len(rules) : i \in 1..Len(rules') /\ rules'[i] = rules[i]
        BY RulesStep, SMTT(30)
    <2> QED
        BY <2>1 DEF Asked
<1>2. Stored \subseteq Stored' /\ Running \subseteq Running'
    BY <1>1 DEF Stored, Running
<1>3. Seq(Asked) \subseteq Seq(Asked')
    BY <1>1, SMTT(30)
<1> QED
    BY <1>1, <1>2, <1>3

(* What users want, as a replica that may lag behind sees it, was asked for. *)
LEMMA DesiredAsked ==
    ASSUME DeliveryInv, NEW o \in Replicas
    PROVE  Desired(o) \in Asked
    BY DEF DeliveryInv, Desired, Asked

(* Only bundles are asked for. *)
LEMMA AskedAre ==
    ASSUME DeliveryInv
    PROVE  Asked \subseteq Bundles /\ None \notin Asked /\ rules[Len(rules)] \in Asked
<1>1. rules \in Seq(Bundles) /\ rules # <<>>
    BY DEF DeliveryInv
<1>2. \A i \in 1..Len(rules) : rules[i] \in Bundles
    BY <1>1, SMTT(30)
<1>3. Len(rules) \in 1..Len(rules)
    BY <1>1, SMTT(30)
<1> QED
    BY <1>2, <1>3, ConstantsAre DEF Asked

(* A stored bundle without a number is none, and the others have a content that *)
(* was asked for.                                                               *)
LEMMA StoredAre ==
    ASSUME NEW b \in Stored
    PROVE  /\ b.seq \in Nat
           /\ b.seq = 0 => b = L!NoBundle
           /\ b.seq # 0 => b.sha \in Asked
    BY SMTT(30) DEF Stored, L!NoBundle

-----------------------------------------------------------------------------
(* Types *)

(* The initial state. *)
LEMMA DeliveryInit == Init => DeliveryInv
<1> SUFFICES ASSUME Init PROVE DeliveryInv
    OBVIOUS
<1>1. rules \in Seq(Bundles) /\ rules # <<>> /\ Len(rules) = 1 /\ rules[1] = FirstBundle
    BY ConstantsAre, SMTT(30) DEF Init
<1>2. Asked = {FirstBundle}
    BY <1>1, SMTT(30) DEF Asked
<1>3. /\ {configMap, template} \subseteq Asked /\ elect \in BOOLEAN
      /\ lease \in Replicas \cup {None}
      /\ proc \in [Replicas -> {"down", "serving", "leading", "stopping"}]
      /\ open \subseteq Pods /\ key \in [Pods -> Replicas]
      /\ pod \in [Pods -> [template : Asked, active : Running]]
      /\ stuck \subseteq Replicas \cup open
    BY <1>2, ConstantsAre DEF Init, Running
<1>4. seen \in [Replicas -> 1..Len(rules)]
    BY <1>1, SMTT(30) DEF Init
<1>5. work \in [Replicas -> Seq(Asked)]
    BY SMTT(30) DEF Init
<1>6. current \in [Replicas -> Stored] /\ last \in [Pods -> Stored]
    <2>1. L!NoBundle \in Stored /\ [sha |-> FirstBundle, seq |-> 1] \in Stored
        BY <1>2, SMTT(30) DEF Stored
    <2> QED
        BY <2>1 DEF Init
<1>7. changes \in 0..MaxChanges /\ faults \in 0..MaxFaults
    BY ConstantsAre, SMTT(30) DEF Init
<1>8. \A o \in Replicas : ProcInv(o)
    BY DEF Init, ProcInv
<1>9. \A p \in Pods : StreamInv(p)
    BY DEF Init, StreamInv, L!NoBundle
<1>10. BadRulesStopNobody
    BY ConstantsAre DEF Init, BadRulesStopNobody
<1> QED
    BY <1>1, <1>3, <1>4, <1>5, <1>6, <1>7, <1>8, <1>9, <1>10 DEF DeliveryInv

(* The bounds. *)
LEMMA BoundsStep ==
    ASSUME DeliveryInv, [Next]_vars
    PROVE  changes' \in 0..MaxChanges /\ faults' \in 0..MaxFaults
<1>1. /\ changes' = changes \/ (changes < MaxChanges /\ changes' = changes + 1)
      /\ faults' = faults \/ (faults < MaxFaults /\ faults' = faults + 1)
    BY DEF Next, vars, stores, bounds, Operator, Engine, EditRules, Start, Lead, Fault,
          LeaseExpires, Stop, ShutdownGRPC, Crash, Ends, Refresh, Reconcile, Write,
          PublishRuleSet, SendLatestWaits, InitialSendWaits, Replace, RestartContainer,
          RestartFailed, Boot, Connect, Break, Receive
<1>2. changes \in 0..MaxChanges /\ faults \in 0..MaxFaults
    BY DEF DeliveryInv
<1> QED
    BY <1>1, <1>2, ConstantsAre, SMTT(30)

(* The processes, and the lease. *)
LEMMA ProcTypes ==
    ASSUME DeliveryInv, [Next]_vars
    PROVE  /\ elect' \in BOOLEAN /\ elect' = elect /\ lease' \in Replicas \cup {None}
           /\ proc' \in [Replicas -> {"down", "serving", "leading", "stopping"}]
<1>1. /\ elect \in BOOLEAN /\ lease \in Replicas \cup {None}
      /\ proc \in [Replicas -> {"down", "serving", "leading", "stopping"}]
    BY DEF DeliveryInv
<1>2. elect' = elect
    BY DEF Next, vars, stores, bounds, Operator, Engine, EditRules, Start, Lead,
          LeaseExpires, Stop, ShutdownGRPC, Crash, Ends, Refresh, Reconcile, Write,
          PublishRuleSet, SendLatestWaits, InitialSendWaits, Replace, RestartContainer,
          RestartFailed, Boot, Connect, Break, Receive
<1>3. lease' = lease \/ lease' \in Replicas \cup {None}
    BY DEF Next, vars, stores, bounds, Operator, Engine, EditRules, Start, Lead,
          LeaseExpires, Stop, ShutdownGRPC, Crash, Ends, Refresh, Reconcile, Write,
          PublishRuleSet, SendLatestWaits, InitialSendWaits, Replace, RestartContainer,
          RestartFailed, Boot, Connect, Break, Receive
<1>4. \/ proc' = proc
      \/ \E o \in Replicas, s \in {"down", "serving", "leading", "stopping"} :
            proc' = [proc EXCEPT ![o] = s]
    BY DEF Next, vars, stores, bounds, Operator, Engine, EditRules, Start, Lead,
          LeaseExpires, Stop, ShutdownGRPC, Crash, Ends, Refresh, Reconcile, Write,
          PublishRuleSet, SendLatestWaits, InitialSendWaits, Replace, RestartContainer,
          RestartFailed, Boot, Connect, Break, Receive
<1> QED
    BY <1>1, <1>2, <1>3, <1>4

(* How far the caches have come. *)
LEMMA SeenTypes ==
    ASSUME DeliveryInv, [Next]_vars
    PROVE  seen' \in [Replicas -> 1..Len(rules')]
<1>1. seen \in [Replicas -> 1..Len(rules)] /\ Len(rules) \in Nat \ {0}
    BY SMTT(30) DEF DeliveryInv
<1>2. /\ Len(rules') \in Nat /\ Len(rules) <= Len(rules')
      /\ seen \in [Replicas -> 1..Len(rules')]
    BY <1>1, RulesStep, SMTT(30)
<1>3. \/ seen' = seen
      \/ \E o \in Replicas : seen' = [seen EXCEPT ![o] = Len(rules)]
      \/ \E o \in Replicas : seen' = [seen EXCEPT ![o] = 1]
      \/ \E o \in Replicas : seen[o] < Len(rules) /\ seen' = [seen EXCEPT ![o] = @ + 1]
    BY DEF Next, vars, stores, bounds, Operator, Engine, EditRules, Start, Lead,
          LeaseExpires, Stop, ShutdownGRPC, Crash, Ends, Refresh, Reconcile, Write,
          PublishRuleSet, SendLatestWaits, InitialSendWaits, Replace, RestartContainer,
          RestartFailed, Boot, Connect, Break, Receive
<1> QED
    BY <1>1, <1>2, <1>3, SMTT(30)

(* What a reconcile has yet to write was asked for. *)
LEMMA WorkTypes ==
    ASSUME DeliveryInv, [Next]_vars
    PROVE  work' \in [Replicas -> Seq(Asked')]
<1>1. work \in [Replicas -> Seq(Asked)]
    BY DEF DeliveryInv
<1>2. \/ work' = work
      \/ \E o \in Replicas : work' = [work EXCEPT ![o] = <<>>]
      \/ \E o \in Replicas : work' = [work EXCEPT ![o] = [i \in 1..3 |-> Desired(o)]]
      \/ \E o \in Replicas : work[o] # <<>> /\ work' = [work EXCEPT ![o] = Tail(@)]
    BY DEF Next, vars, stores, bounds, Operator, Engine, EditRules, Start, Lead,
          LeaseExpires, Stop, ShutdownGRPC, Crash, Ends, Refresh, Reconcile, Write,
          PublishRuleSet, SendLatestWaits, InitialSendWaits, Replace, RestartContainer,
          RestartFailed, Boot, Connect, Break, Receive
<1>3. \A o \in Replicas : [i \in 1..3 |-> Desired(o)] \in Seq(Asked)
    BY DesiredAsked, SMTT(30)
<1>4. \A o \in Replicas : work[o] # <<>> => Tail(work[o]) \in Seq(Asked)
    BY <1>1, SMTT(30)
<1>5. <<>> \in Seq(Asked)
    BY SMTT(30)
<1>6. work' \in [Replicas -> Seq(Asked)]
    BY <1>1, <1>2, <1>3, <1>4, <1>5
<1> QED
    BY <1>6, AskedGrows

(* The next write of a reconcile. *)
LEMMA HeadAsked ==
    ASSUME DeliveryInv, NEW o \in Replicas, work[o] # <<>>
    PROVE  Head(work[o]) \in Asked
<1>1. work[o] \in Seq(Asked)
    BY DEF DeliveryInv
<1> QED
    BY <1>1, SMTT(30)

(* The ConfigMap and the pod template hold what was asked for. *)
LEMMA WrittenTypes ==
    ASSUME DeliveryInv, [Next]_vars
    PROVE  {configMap', template'} \subseteq Asked'
<1>1. configMap \in Asked /\ template \in Asked
    BY DEF DeliveryInv
<1>2. \/ UNCHANGED <<configMap, template>>
      \/ \E o \in Replicas : Write(o)
    BY DEF Next, vars, stores, bounds, Operator, Engine, EditRules, Start, Lead,
          LeaseExpires, Stop, ShutdownGRPC, Crash, Ends, Refresh, Reconcile,
          PublishRuleSet, SendLatestWaits, InitialSendWaits, Replace, RestartContainer,
          RestartFailed, Boot, Connect, Break, Receive
<1>3. ASSUME NEW o \in Replicas, Write(o)
      PROVE  configMap' \in {configMap, Head(work[o])} /\ template' \in {template, Head(work[o])}
             /\ work[o] # <<>>
    BY <1>3 DEF Write
<1>4. configMap' \in Asked /\ template' \in Asked
    BY <1>1, <1>2, <1>3, HeadAsked
<1> QED
    BY <1>4, AskedGrows

(* A process changes its own store only: it publishes what was asked for while  *)
(* it leads, or it ends.                                                        *)
LEMMA StoreCases ==
    ASSUME DeliveryInv, [Next]_vars
    PROVE  \/ UNCHANGED current
           \/ \E o \in Replicas : Ends(o)
           \/ \E o \in Replicas, b \in Asked :
                 L!Publish(o, b) /\ proc[o] = "leading" /\ UNCHANGED <<proc, pod>>
<1>1. \/ UNCHANGED current
      \/ \E o \in Replicas : Ends(o) \/ Write(o) \/ PublishRuleSet(o)
    BY DEF Next, vars, stores, bounds, Operator, Engine, EditRules, Start, Lead,
          LeaseExpires, Stop, ShutdownGRPC, Crash, Refresh, Reconcile,
          SendLatestWaits, InitialSendWaits, Replace, RestartContainer, RestartFailed,
          Boot, Connect, Break, Receive, L!Open, L!DeliverCurrent, L!Deliver
<1>2. ASSUME NEW o \in Replicas, PublishRuleSet(o)
      PROVE  L!Publish(o, Desired(o)) /\ proc[o] = "leading" /\ UNCHANGED <<proc, pod>>
    BY <1>2 DEF PublishRuleSet, Publish
<1>3. ASSUME NEW o \in Replicas, Write(o)
      PROVE  \/ UNCHANGED current
             \/ L!Publish(o, Head(work[o])) /\ proc[o] = "leading" /\ UNCHANGED <<proc, pod>>
    <2>1. proc[o] = "leading"
        BY <1>3 DEF Write, DeliveryInv, ProcInv
    <2> QED
        BY <1>3, <2>1 DEF Write, Published, Publish, stores
<1>4. \A o \in Replicas : Write(o) => Head(work[o]) \in Asked
    BY HeadAsked DEF Write
<1> QED
    BY <1>1, <1>2, <1>3, <1>4, DesiredAsked

(* The stores hold what was asked for. *)
LEMMA StoreTypes ==
    ASSUME DeliveryInv, [Next]_vars
    PROVE  current' \in [Replicas -> Stored']
<1>1. current \in [Replicas -> Stored]
    BY DEF DeliveryInv
<1>2. L!NoBundle \in Stored
    BY DEF Stored
<1>3. ASSUME NEW o \in Replicas, Ends(o) PROVE current' \in [Replicas -> Stored]
    BY <1>1, <1>2, <1>3 DEF Ends
<1>4. ASSUME NEW o \in Replicas, NEW b \in Asked, L!Publish(o, b)
      PROVE  current' \in [Replicas -> Stored]
    <2>1. current[o].seq \in Nat
        BY <1>1, StoredAre
    <2>2. [sha |-> b, seq |-> current[o].seq + 1] \in Stored
        BY <2>1, SMTT(30) DEF Stored
    <2> QED
        BY <1>1, <1>4, <2>2 DEF L!Publish
<1>5. current' \in [Replicas -> Stored]
    BY <1>1, <1>3, <1>4, StoreCases
<1> QED
    BY <1>5, AskedGrows

(* Which steps are about the pods and their streams. *)
LEMMA StreamCases ==
    ASSUME [Next]_vars
    PROVE  \/ UNCHANGED <<open, key, last, pod>>
           \/ \E o \in Replicas : Ends(o)
           \/ \E p \in Pods : Boot(p, template) \/ Boot(p, pod[p].template)
           \/ \E p \in Pods : CloseAll({p}) /\ UNCHANGED <<current, proc, pod>>
           \/ \E p \in Pods, o \in Replicas : Connect(p, o)
           \/ \E p \in Pods : Receive(p)
    BY DEF Next, vars, stores, bounds, Operator, Engine, EditRules, Start, Lead,
          LeaseExpires, Stop, ShutdownGRPC, Crash, Refresh, Reconcile, Write, Published,
          PublishRuleSet, Publish, SendLatestWaits, InitialSendWaits, Replace,
          RestartContainer, RestartFailed, Break, L!Publish

(* Closing streams forgets whose they were, and what they sent. *)
LEMMA CloseTypes ==
    ASSUME DeliveryInv, NEW ps, CloseAll(ps)
    PROVE  open' \subseteq Pods /\ key' \in [Pods -> Replicas] /\ last' \in [Pods -> Stored]
<1>1. open \subseteq Pods /\ key \in [Pods -> Replicas] /\ last \in [Pods -> Stored]
    BY DEF DeliveryInv
<1>2. L!NoBundle \in Stored
    BY DEF Stored
<1> QED
    BY <1>1, <1>2, ConstantsAre DEF CloseAll

(* The streams and the pods. *)
LEMMA StreamTypes ==
    ASSUME DeliveryInv, [Next]_vars
    PROVE  /\ open' \subseteq Pods /\ key' \in [Pods -> Replicas] /\ last' \in [Pods -> Stored']
           /\ pod' \in [Pods -> [template : Asked', active : Running']]
<1> DEFINE Typed == /\ open' \subseteq Pods /\ key' \in [Pods -> Replicas]
                    /\ last' \in [Pods -> Stored]
                    /\ pod' \in [Pods -> [template : Asked, active : Running]]
<1>1. /\ open \subseteq Pods /\ key \in [Pods -> Replicas] /\ last \in [Pods -> Stored]
      /\ pod \in [Pods -> [template : Asked, active : Running]]
      /\ current \in [Replicas -> Stored]
    BY DEF DeliveryInv
<1>2. ASSUME NEW o \in Replicas, Ends(o) PROVE Typed
    BY <1>1, <1>2, CloseTypes DEF Ends
<1>3. ASSUME NEW p \in Pods, NEW t \in Asked, Boot(p, t) PROVE Typed
    <2> DEFINE rec == [template |-> t,
                       active |-> IF configMap \in Parsable THEN configMap ELSE None]
    <2>1. open' \subseteq Pods /\ key' \in [Pods -> Replicas] /\ last' \in [Pods -> Stored]
        BY <1>3, CloseTypes DEF Boot
    <2>2. rec \in [template : Asked, active : Running]
        BY DEF DeliveryInv, Running
    <2>3. pod' = [pod EXCEPT ![p] = rec]
        BY <1>3 DEF Boot
    <2> HIDE DEF rec
    <2> QED
        BY <1>1, <2>1, <2>2, <2>3
<1>4. ASSUME NEW p \in Pods, CloseAll({p}) /\ UNCHANGED <<current, proc, pod>> PROVE Typed
    BY <1>1, <1>4, CloseTypes
<1>5. ASSUME NEW p \in Pods, NEW o \in Replicas, Connect(p, o) PROVE Typed
    BY <1>1, <1>5 DEF Connect, L!Open
<1>6. ASSUME NEW p \in Pods, Receive(p) PROVE Typed
    <2> DEFINE b == current[key[p]]
    <2>1. /\ last' = [last EXCEPT ![p] = b] /\ open' = open /\ key' = key /\ last[p].seq < b.seq
          /\ pod' = [pod EXCEPT ![p].active = IF b.sha \in Parsable THEN b.sha ELSE @]
        BY <1>6 DEF Receive, L!DeliverCurrent, L!Deliver, L!MaySend
    <2>2. b \in Stored /\ last[p] \in Stored
        BY <1>1
    <2>3. b.sha \in Asked
        <3> HIDE DEF b
        <3>1. b.seq \in Nat /\ last[p].seq \in Nat /\ last[p].seq < b.seq
            BY <2>1, <2>2, StoredAre
        <3>2. b.seq # 0
            BY <3>1, SMTT(30)
        <3> QED
            BY <2>2, <3>2, StoredAre
    <2> HIDE DEF b
    <2>4. pod' \in [Pods -> [template : Asked, active : Running]]
        BY <1>1, <2>1, <2>3 DEF Running
    <2> QED
        BY <1>1, <2>1, <2>2, <2>4
<1>7. Typed
    <2>1. template \in Asked /\ \A p \in Pods : pod[p].template \in Asked
        BY <1>1 DEF DeliveryInv
    <2> QED
        BY <1>1, <1>2, <1>3, <1>4, <1>5, <1>6, <2>1, StreamCases
<1> HIDE DEF Typed
<1>8. /\ open' \subseteq Pods /\ key' \in [Pods -> Replicas]
      /\ last' \in [Pods -> Stored] /\ pod' \in [Pods -> [template : Asked, active : Running]]
    BY <1>7 DEF Typed
<1>9. last' \in [Pods -> Stored']
    BY <1>8, AskedGrows
<1>10. pod' \in [Pods -> [template : Asked', active : Running']]
    BY <1>8, AskedGrows
<1> QED
    BY <1>8, <1>9, <1>10

-----------------------------------------------------------------------------
(* Who leads, and what streams lead to *)

(* Where what a process has may change. *)
LEMMA ProcCases ==
    ASSUME [Next]_vars
    PROVE  \/ UNCHANGED <<proc, work, lease>>
           \/ LeaseExpires
           \/ \E o \in Replicas : \/ Start(o) \/ Lead(o) \/ Stop(o) \/ Ends(o)
                                  \/ Reconcile(o) \/ Write(o)
    BY DEF Next, vars, stores, bounds, Operator, Engine, EditRules, ShutdownGRPC, Crash,
          Refresh, PublishRuleSet, SendLatestWaits, InitialSendWaits, Replace, RestartContainer,
          RestartFailed, Boot, Connect, Break, Receive

(* A process that is down has an empty store, only a process that leads has     *)
(* something to write, and with leader election that is the lease's holder.     *)
LEMMA ProcStep ==
    ASSUME DeliveryInv, [Next]_vars, NEW q \in Replicas
    PROVE  ProcInv(q)'
<1>1. /\ proc \in [Replicas -> {"down", "serving", "leading", "stopping"}]
      /\ work \in [Replicas -> Seq(Asked)] /\ current \in [Replicas -> Stored]
      /\ lease \in Replicas \cup {None} /\ elect' = elect
    BY ProcTypes DEF DeliveryInv
<1>2. ProcInv(q)
    BY DEF DeliveryInv
<1>3. proc'[q] = "down" => current'[q] = L!NoBundle
    <2>1. CASE UNCHANGED current
        <3>1. proc'[q] = "down" => proc[q] = "down" \/ \E o \in Replicas : Ends(o)
            BY <1>1, ProcCases DEF Start, Lead, Stop, Reconcile, Write, LeaseExpires
        <3>2. ASSUME NEW o \in Replicas, Ends(o), proc'[q] = "down"
              PROVE  proc[q] = "down" \/ current'[q] = L!NoBundle
            BY <1>1, <3>2 DEF Ends
        <3> QED
            BY <1>2, <2>1, <3>1, <3>2 DEF ProcInv
    <2>2. ASSUME NEW o \in Replicas, Ends(o)
          PROVE  proc'[q] = "down" => current'[q] = L!NoBundle
        BY <1>1, <1>2, <2>2 DEF Ends, ProcInv
    <2>3. ASSUME NEW o \in Replicas, NEW b \in Asked,
                 L!Publish(o, b) /\ proc[o] = "leading" /\ UNCHANGED <<proc, pod>>
          PROVE  proc'[q] = "down" => current'[q] = L!NoBundle
        BY <1>1, <1>2, <2>3 DEF L!Publish, ProcInv
    <2> QED
        BY <2>1, <2>2, <2>3, StoreCases
<1>4. /\ work'[q] # <<>> => proc'[q] = "leading"
      /\ elect /\ proc'[q] = "leading" => lease' = q
    <2> DEFINE Goal == /\ work'[q] # <<>> => proc'[q] = "leading"
                       /\ elect /\ proc'[q] = "leading" => lease' = q
    <2>1. CASE UNCHANGED <<proc, work, lease>>
        BY <1>2, <2>1 DEF ProcInv
    <2>2. CASE LeaseExpires
        BY <1>2, <2>2 DEF LeaseExpires, ProcInv
    <2>3. ASSUME NEW o \in Replicas, Start(o) PROVE Goal
        BY <1>1, <1>2, <2>3 DEF Start, ProcInv
    <2>4. ASSUME NEW o \in Replicas, Lead(o) PROVE Goal
        BY <1>1, <1>2, <2>4, ConstantsAre DEF Lead, ProcInv
    <2>5. ASSUME NEW o \in Replicas, Stop(o) PROVE Goal
        BY <1>1, <1>2, <2>5 DEF Stop, ProcInv
    <2>6. ASSUME NEW o \in Replicas, Ends(o) PROVE Goal
        BY <1>1, <1>2, <2>6 DEF Ends, ProcInv
    <2>7. ASSUME NEW o \in Replicas, Reconcile(o) PROVE Goal
        BY <1>1, <1>2, <2>7 DEF Reconcile, ProcInv
    <2>8. ASSUME NEW o \in Replicas, Write(o) PROVE Goal
        BY <1>1, <1>2, <2>8 DEF Write, ProcInv
    <2> QED
        BY <2>1, <2>2, <2>3, <2>4, <2>5, <2>6, <2>7, <2>8, ProcCases
<1> QED
    BY <1>1, <1>3, <1>4 DEF ProcInv

(* A stream that is closed has sent nothing; one that stays finds its store. *)
LEMMA ClosedStream ==
    ASSUME DeliveryInv, NEW ps, CloseAll(ps), NEW p \in Pods, p \in ps
    PROVE  /\ p \notin open' /\ last'[p] = L!NoBundle /\ last'[p].seq = 0
           /\ key'[p] = Oldest
    BY DEF CloseAll, L!NoBundle

(* A stream leads to a process that has the store it was opened on: what it     *)
(* sent last is not past what the store has, and is what the pod runs.          *)
LEMMA StreamStep ==
    ASSUME DeliveryInv, [Next]_vars, NEW p \in Pods
    PROVE  StreamInv(p)'
<1>1. /\ open \subseteq Pods /\ key \in [Pods -> Replicas] /\ last \in [Pods -> Stored]
      /\ pod \in [Pods -> [template : Asked, active : Running]]
      /\ current \in [Replicas -> Stored]
      /\ proc \in [Replicas -> {"down", "serving", "leading", "stopping"}]
    BY DEF DeliveryInv
<1>2. StreamInv(p)
    BY DEF DeliveryInv
<1> DEFINE Kept == /\ (p \in open' <=> p \in open) /\ key'[p] = key[p] /\ last'[p] = last[p]
                   /\ pod'[p].active = pod[p].active
           Same(o) == current'[o] = current[o] /\ (proc'[o] = "down" => proc[o] = "down")
<1>3. ASSUME Kept, p \in open => Same(key[p]) PROVE StreamInv(p)'
    BY <1>2, <1>3 DEF StreamInv
<1>4. ASSUME p \notin open', last'[p] = L!NoBundle, last'[p].seq = 0, key'[p] = Oldest
      PROVE  StreamInv(p)'
    BY <1>4 DEF StreamInv
<1>5. ASSUME NEW o \in Replicas, Ends(o) PROVE StreamInv(p)'
    <2>1. CASE p \in StreamsTo(o)
        BY <1>4, <1>5, <2>1, ClosedStream DEF Ends
    <2>2. CASE p \notin StreamsTo(o)
        <3>1. Kept
            BY <1>5, <2>2 DEF Ends, CloseAll
        <3>2. p \in open => key[p] # o
            BY <2>2 DEF StreamsTo
        <3>3. p \in open => Same(key[p])
            BY <1>1, <1>5, <3>2 DEF Ends
        <3> QED
            BY <1>3, <3>1, <3>3
    <2> QED
        BY <2>1, <2>2
<1>6. ASSUME NEW r \in Pods, NEW t, Boot(r, t) PROVE StreamInv(p)'
    <2>1. CASE p = r
        BY <1>4, <1>6, <2>1, ClosedStream DEF Boot
    <2>2. CASE p # r
        BY <1>1, <1>3, <1>6, <2>2 DEF Boot, CloseAll
    <2> QED
        BY <2>1, <2>2
<1>7. ASSUME NEW r \in Pods, CloseAll({r}) /\ UNCHANGED <<current, proc, pod>>
      PROVE  StreamInv(p)'
    <2>1. CASE p = r
        BY <1>4, <1>7, <2>1, ClosedStream
    <2>2. CASE p # r
        BY <1>1, <1>3, <1>7, <2>2 DEF CloseAll
    <2> QED
        BY <2>1, <2>2
<1>8. ASSUME NEW r \in Pods, NEW o \in Replicas, Connect(r, o) PROVE StreamInv(p)'
    <2>1. /\ open' = open \cup {r} /\ key' = [key EXCEPT ![r] = o] /\ r \notin open
          /\ UNCHANGED <<current, last, proc, pod>> /\ proc[o] # "down"
        BY <1>8 DEF Connect, L!Open, Up
    <2>2. CASE p # r
        BY <1>1, <1>3, <2>1, <2>2
    <2>3. CASE p = r
        <3>1. last'[p] = L!NoBundle /\ last'[p].seq = 0
            BY <1>2, <2>1, <2>3, SMTT(30) DEF StreamInv, L!NoBundle
        <3>2. p \in open' /\ key'[p] = o /\ current'[o] = current[o] /\ proc'[o] # "down"
            BY <1>1, <2>1, <2>3
        <3>3. current[o] \in Stored
            BY <1>1
        <3>4. current[o].seq \in Nat /\ (current[o].seq = 0 => current[o] = L!NoBundle)
            BY <3>3, StoredAre
        <3> QED
            BY <3>1, <3>2, <3>4, SMTT(30) DEF StreamInv
    <2> QED
        BY <2>2, <2>3
<1>9. ASSUME NEW r \in Pods, Receive(r) PROVE StreamInv(p)'
    <2> DEFINE b == current[key[r]]
    <2>1. /\ r \in open /\ last' = [last EXCEPT ![r] = b]
          /\ UNCHANGED <<open, key, current, proc>>
          /\ pod' = [pod EXCEPT ![r].active = IF b.sha \in Parsable THEN b.sha ELSE @]
        BY <1>9 DEF Receive, L!DeliverCurrent, L!Deliver
    <2>2. CASE p # r
        BY <1>1, <1>3, <2>1, <2>2
    <2>3. CASE p = r
        <3>1. /\ last'[p] = b /\ (b.sha \in Parsable => pod'[p].active = b.sha)
              /\ current'[key'[p]] = b
            BY <1>1, <2>1, <2>3
        <3>2. b.seq \in Nat
            BY <1>1, StoredAre
        <3>3. p \in open' /\ proc'[key'[p]] # "down"
            BY <1>2, <2>1, <2>3 DEF StreamInv
        <3> HIDE DEF b
        <3> QED
            BY <3>1, <3>2, <3>3, SMTT(30) DEF StreamInv
    <2> QED
        BY <2>2, <2>3
<1>10. ASSUME NEW o \in Replicas, NEW b \in Asked, UNCHANGED <<open, key, last, pod>>,
              L!Publish(o, b) /\ proc[o] = "leading" /\ UNCHANGED <<proc, pod>>
       PROVE  StreamInv(p)'
    <2>1. current' = [current EXCEPT ![o] = [sha |-> b, seq |-> current[o].seq + 1]]
        BY <1>10 DEF L!Publish
    <2>2. CASE p \in open /\ key[p] = o
        <3>1. current'[o].seq = current[o].seq + 1
            BY <1>1, <2>1
        <3>2. current[o].seq \in Nat /\ last[p].seq \in Nat /\ last[p].seq <= current[o].seq
            BY <1>1, <1>2, <2>2, StoredAre DEF StreamInv
        <3>3. last[p].seq <= current'[o].seq /\ last[p].seq # current'[o].seq
            BY <3>1, <3>2, SMTT(30)
        <3> QED
            BY <1>2, <1>10, <2>2, <3>3 DEF StreamInv
    <2>3. CASE p \in open /\ key[p] # o
        <3>1. Kept /\ Same(key[p])
            BY <1>1, <1>10, <2>1, <2>3
        <3> QED
            BY <1>3, <3>1
    <2>4. CASE p \notin open
        BY <1>3, <1>10, <2>4
    <2> QED
        BY <2>2, <2>3, <2>4
<1>11. ASSUME UNCHANGED <<open, key, last, pod>>, UNCHANGED current, \A o \in Replicas : ~Ends(o)
       PROVE  StreamInv(p)'
    <2>1. \A q \in Replicas : proc'[q] = "down" => proc[q] = "down"
        BY <1>1, <1>11, ProcCases DEF Start, Lead, Stop, Reconcile, Write, LeaseExpires
    <2>2. key[p] \in Replicas
        BY <1>1
    <2> QED
        BY <1>3, <1>11, <2>1, <2>2
<1>12. CASE UNCHANGED <<open, key, last, pod>>
    BY <1>5, <1>10, <1>11, <1>12, StoreCases
<1> QED
    BY <1>5, <1>6, <1>7, <1>8, <1>9, <1>12, StreamCases

-----------------------------------------------------------------------------
(* What waits, and what stops *)

(* Only stores, and streams that are open, wait. *)
LEMMA StuckStep ==
    ASSUME DeliveryInv, [Next]_vars
    PROVE  stuck' \subseteq Replicas \cup open'
<1>1. stuck \subseteq Replicas \cup open
    BY DEF DeliveryInv
<1>2. ASSUME NEW o \in Replicas, Ends(o) PROVE stuck' \subseteq Replicas \cup open'
    BY <1>1, <1>2 DEF Ends, CloseAll
<1>3. ASSUME NEW p \in Pods, CloseAll({p}), stuck' = stuck \ {p}
      PROVE  stuck' \subseteq Replicas \cup open'
    BY <1>1, <1>3 DEF CloseAll
<1>4. ASSUME open \subseteq open', stuck' \subseteq stuck \cup Replicas \cup open
      PROVE  stuck' \subseteq Replicas \cup open'
    BY <1>1, <1>4
<1>5. \/ \E o \in Replicas : Ends(o)
      \/ \E p \in Pods : CloseAll({p}) /\ stuck' = stuck \ {p}
      \/ open \subseteq open' /\ stuck' \subseteq stuck \cup Replicas \cup open
    BY DEF Next, vars, stores, bounds, Operator, Engine, EditRules, Start, Lead,
          LeaseExpires, Stop, ShutdownGRPC, Crash, Refresh, Reconcile, Write, Published,
          PublishRuleSet, Publish, SendLatestWaits, InitialSendWaits, Replace,
          RestartContainer, RestartFailed, Boot, Connect, Break, Receive,
          L!Publish, L!Open, L!DeliverCurrent, L!Deliver
<1> QED
    BY <1>2, <1>3, <1>4, <1>5

(* Where what a pod runs may change. *)
LEMMA PodCases ==
    ASSUME [Next]_vars
    PROVE  \/ UNCHANGED pod
           \/ \E p \in Pods : Replace(p) \/ RestartFailed(p) \/ RestartContainer(p) \/ Receive(p)
    BY DEF Next, vars, stores, bounds, Operator, Engine, EditRules, Start, Lead,
          LeaseExpires, Stop, ShutdownGRPC, Crash, Ends, Refresh, Reconcile, Write,
          PublishRuleSet, SendLatestWaits, InitialSendWaits, Connect, Break

(* A pod that runs nothing has been restarted, on rules that do not parse. *)
LEMMA BadRulesStep ==
    ASSUME DeliveryInv, [Next]_vars
    PROVE  BadRulesStopNobody'
<1> SUFFICES ASSUME NEW p \in Pods, pod'[p].active = None
             PROVE  faults' > 0 /\ ~(Asked' \subseteq Parsable)
    BY DEF BadRulesStopNobody
<1>1. /\ pod \in [Pods -> [template : Asked, active : Running]]
      /\ configMap \in Asked /\ faults \in Nat /\ Asked \subseteq Asked'
    BY AskedGrows, ConstantsAre, SMTT(30) DEF DeliveryInv
<1>2. faults' = faults \/ faults' = faults + 1
    BY DEF Next, vars, stores, bounds, Operator, Engine, EditRules, Start, Lead, Fault,
          LeaseExpires, Stop, ShutdownGRPC, Crash, Ends, Refresh, Reconcile, Write,
          PublishRuleSet, SendLatestWaits, InitialSendWaits, Replace, RestartContainer,
          RestartFailed, Boot, Connect, Break, Receive
<1>3. CASE pod[p].active = None
    <2>1. faults > 0 /\ ~(Asked \subseteq Parsable)
        BY <1>3 DEF DeliveryInv, BadRulesStopNobody
    <2>2. faults' > 0
        BY <1>1, <1>2, <2>1, SMTT(30)
    <2> QED
        BY <1>1, <2>1, <2>2
<1>4. None \notin Parsable
    BY ConstantsAre
<1>5. ASSUME NEW r \in Pods, NEW t, Boot(r, t), pod[p].active # None
      PROVE  configMap \notin Parsable
    <2> DEFINE runs == IF configMap \in Parsable THEN configMap ELSE None
    <2>1. pod' = [pod EXCEPT ![r] = [template |-> t, active |-> runs]]
        BY <1>5 DEF Boot
    <2> HIDE DEF runs
    <2>2. p = r
        BY <1>1, <1>5, <2>1
    <2>3. pod'[p].active = runs
        BY <1>1, <2>1, <2>2
    <2> QED
        BY <1>4, <2>3 DEF runs
<1>6. ASSUME NEW r \in Pods, Receive(r) PROVE pod[p].active = None
    <2> DEFINE b == current[key[r]].sha
    <2>1. pod' = [pod EXCEPT ![r].active = IF b \in Parsable THEN b ELSE @]
        BY <1>6 DEF Receive
    <2> HIDE DEF b
    <2>2. CASE p # r
        BY <1>1, <2>1, <2>2
    <2>3. CASE p = r
        <3>1. pod'[p].active = IF b \in Parsable THEN b ELSE pod[p].active
            BY <1>1, <2>1, <2>3
        <3> QED
            BY <1>4, <3>1
    <2> QED
        BY <2>2, <2>3
<1>7. ASSUME NEW r \in Pods, RestartContainer(r), pod[p].active # None
      PROVE  faults' > 0 /\ ~(Asked' \subseteq Parsable)
    <2>1. configMap \notin Parsable /\ faults' = faults + 1
        BY <1>5, <1>7 DEF RestartContainer, Fault
    <2>2. faults' > 0
        BY <1>1, <2>1, SMTT(30)
    <2> QED
        BY <1>1, <2>1, <2>2
<1>8. ASSUME NEW r \in Pods, Replace(r) \/ RestartFailed(r) PROVE pod[p].active = None
    BY <1>5, <1>8 DEF Replace, RestartFailed
<1> QED
    BY <1>3, <1>6, <1>7, <1>8, PodCases

-----------------------------------------------------------------------------
(* The theorems *)

(* The inductive invariant holds throughout, whatever overlap of operator       *)
(* processes, crash, lost lease or broken stream there is.                      *)
THEOREM DeliveryInvariant == Spec => []DeliveryInv
<1>1. DeliveryInv /\ [Next]_vars => DeliveryInv'
    <2> SUFFICES ASSUME DeliveryInv, [Next]_vars PROVE DeliveryInv'
        OBVIOUS
    <2>1. /\ rules' \in Seq(Bundles) /\ rules' # <<>> /\ {configMap', template'} \subseteq Asked'
          /\ seen' \in [Replicas -> 1..Len(rules')] /\ work' \in [Replicas -> Seq(Asked')]
          /\ current' \in [Replicas -> Stored']
        BY RulesStep, WrittenTypes, SeenTypes, WorkTypes, StoreTypes
    <2>2. /\ elect' \in BOOLEAN /\ lease' \in Replicas \cup {None}
          /\ proc' \in [Replicas -> {"down", "serving", "leading", "stopping"}]
          /\ open' \subseteq Pods /\ key' \in [Pods -> Replicas] /\ last' \in [Pods -> Stored']
          /\ pod' \in [Pods -> [template : Asked', active : Running']]
          /\ changes' \in 0..MaxChanges /\ faults' \in 0..MaxFaults
        BY ProcTypes, StreamTypes, BoundsStep
    <2>3. \A o \in Replicas : ProcInv(o)'
        BY ProcStep
    <2>4. \A p \in Pods : StreamInv(p)'
        BY StreamStep
    <2>5. stuck' \subseteq Replicas \cup open' /\ BadRulesStopNobody'
        BY StuckStep, BadRulesStep
    <2> QED
        BY <2>1, <2>2, <2>3, <2>4, <2>5 DEF DeliveryInv
<1> QED
    BY DeliveryInit, <1>1, PTL DEF Spec

(* Streams lead to processes that run, a process that is down has an empty      *)
(* store, and with leader election only the holder of the lease reconciles      *)
(* (main.go: startGRPCServer, mgr.Start, shutdownGRPC).                         *)
THEOREM DeliveryTypeOK == Spec => []TypeOK
<1>1. DeliveryInv => TypeOK
    <2> SUFFICES ASSUME DeliveryInv PROVE TypeOK
        OBVIOUS
    <2>1. \A p \in Pods : pod[p].active \in Parsable \cup {None}
        BY DEF DeliveryInv, Running
    <2>2. /\ rules # <<>> /\ {configMap, template} \subseteq Bundles
          /\ stuck \subseteq Replicas \cup open
        BY AskedAre DEF DeliveryInv
    <2>3. ASSUME NEW o \in Replicas
          PROVE  /\ proc[o] \in {"down", "serving", "leading", "stopping"}
                 /\ seen[o] \in 1..Len(rules)
                 /\ proc[o] = "down" => current[o] = L!NoBundle /\ StreamsTo(o) = {}
                 /\ work[o] # <<>> => proc[o] = "leading" /\ (elect => lease = o)
        <3>1. proc[o] \in {"down", "serving", "leading", "stopping"} /\ seen[o] \in 1..Len(rules)
            BY DEF DeliveryInv
        <3>2. ProcInv(o) /\ \A p \in open : p \in Pods /\ StreamInv(p)
            BY DEF DeliveryInv
        <3>3. proc[o] = "down" => StreamsTo(o) = {}
            BY <3>2 DEF StreamsTo, StreamInv
        <3> QED
            BY <3>1, <3>2, <3>3 DEF ProcInv
    <2>4. \A p \in open : last[p].seq <= current[key[p]].seq
        BY DEF DeliveryInv, StreamInv
    <2>5. changes \in 0..MaxChanges /\ faults \in 0..MaxFaults
        BY DEF DeliveryInv
    <2> QED
        BY <2>1, <2>2, <2>3, <2>4, <2>5 DEF TypeOK
<1> QED
    BY DeliveryInvariant, <1>1, PTL

(* Rules that do not parse stop no pod by being asked for, wherever they are    *)
(* written, published, rolled out or sent to (newBundleHandler keeps the        *)
(* previous WAF, and BuildDeployment's rolling update the previous pods).       *)
THEOREM DeliveryBadRules == Spec => []BadRulesStopNobody
<1>1. DeliveryInv => BadRulesStopNobody
    BY DEF DeliveryInv
<1> QED
    BY DeliveryInvariant, <1>1, PTL

(* While no process ends, every step is a step of LatestBundle for the stores   *)
(* and the streams, or leaves them alone: the promise RuleStore implements is   *)
(* all that Delivery takes from the store.                                      *)
THEOREM DeliveryStores == Spec => StoresAsPromised
<1>1. DeliveryInv /\ [Next]_vars => [L!Next \/ \E o \in Replicas : Ends(o)]_stores
    <2> SUFFICES ASSUME DeliveryInv, [Next]_vars
                 PROVE  UNCHANGED stores \/ L!Next \/ \E o \in Replicas : Ends(o)
        OBVIOUS
    <2> DEFINE Goal == UNCHANGED stores \/ L!Next \/ \E o \in Replicas : Ends(o)
    <2>1. /\ key \in [Pods -> Replicas] /\ last \in [Pods -> Stored] /\ open \subseteq Pods
          /\ current \in [Replicas -> Stored]
        BY DEF DeliveryInv
    <2>2. ASSUME NEW o \in Replicas, NEW b \in Asked, L!Publish(o, b) PROVE L!Next
        <3>1. b \in Bundles \cup {None}
            BY AskedAre
        <3> QED
            BY <2>2, <3>1 DEF L!Next
    <2>3. ASSUME NEW p \in Pods, CloseAll({p}), UNCHANGED current PROVE Goal
        <3>1. CASE p \in open
            <4>1. /\ open' = open \ {p} /\ key' = [key EXCEPT ![p] = Oldest]
                  /\ last' = [last EXCEPT ![p] = L!NoBundle]
                BY <2>1, <2>3 DEF CloseAll
            <4>2. L!Close(p)
                BY <2>3, <3>1, <4>1, ConstantsAre DEF L!Close
            <4> QED
                BY <4>2 DEF L!Next
        <3>2. CASE p \notin open
            <4>1. last[p] = L!NoBundle /\ key[p] = Oldest
                BY <3>2 DEF DeliveryInv, StreamInv
            <4>2. open' = open /\ key' = key /\ last' = last
                BY <2>1, <2>3, <3>2, <4>1 DEF CloseAll
            <4> QED
                BY <2>3, <4>2 DEF stores
        <3> QED
            BY <3>1, <3>2
    <2>4. ASSUME NEW p \in Pods, NEW o \in Replicas, Connect(p, o) PROVE L!Next
        BY <2>4 DEF Connect, L!Next
    <2>5. ASSUME NEW p \in Pods, Receive(p) PROVE L!Next
        <3> DEFINE b == current[key[p]]
        <3>1. L!Deliver(p, b) /\ last[p].seq < b.seq
            BY <2>5 DEF Receive, L!DeliverCurrent, L!Deliver, L!MaySend
        <3>2. b \in Stored /\ last[p] \in Stored
            BY <2>1
        <3>3. b = [sha |-> b.sha, seq |-> b.seq] /\ b.seq \in Nat /\ last[p].seq \in Nat
            BY <3>2, SMTT(30) DEF Stored, L!NoBundle
        <3>4. b.seq \in 1..b.seq
            BY <3>1, <3>3, SMTT(30)
        <3>5. b.sha \in Bundles \cup {None}
            BY <3>2, AskedAre, SMTT(30) DEF Stored, L!NoBundle
        <3> QED
            BY <3>1, <3>3, <3>4, <3>5 DEF L!Next
    <2>6. CASE UNCHANGED <<open, key, last, pod>>
        BY <2>2, <2>6, StoreCases DEF stores
    <2> QED
        BY <2>3, <2>4, <2>5, <2>6, StreamCases DEF Boot
<1> QED
    BY DeliveryInvariant, <1>1, PTL DEF Spec, StoresAsPromised

(* Nothing but what users asked for is written to the ConfigMap or the pod      *)
(* template, published or run, whichever process was interrupted at whichever   *)
(* write (applyOwnedObjects, publishBundle, newBundleHandler).                  *)
THEOREM DeliveryOnlyAsked == Spec => []OnlyWhatWasAsked
<1>1. DeliveryInv => OnlyWhatWasAsked
    <2> SUFFICES ASSUME DeliveryInv PROVE OnlyWhatWasAsked
        OBVIOUS
    <2>1. \A p \in Pods : pod[p].active \in Asked \cup {None}
        BY DEF DeliveryInv, Running
    <2>2. ASSUME NEW o \in Replicas PROVE current[o].sha \in Asked \cup {None}
        <3>1. current[o] \in Stored
            BY DEF DeliveryInv
        <3> QED
            BY <3>1, SMTT(30) DEF Stored, L!NoBundle
    <2>3. {configMap, template} \subseteq Asked
        BY DEF DeliveryInv
    <2> QED
        BY <2>1, <2>2, <2>3 DEF OnlyWhatWasAsked
<1> QED
    BY DeliveryInvariant, <1>1, PTL
=============================================================================
