--------------------------- MODULE SecRulesProofs ---------------------------
(***************************************************************************)
(* Proofs about Compiler and SecRules for all sources, texts and bounds:   *)
(* what Compile returns for any number of sources, and that the status a   *)
(* reconcile writes describes the object it was computed from, which is    *)
(* the one the API server has when it accepts the update.                  *)
(*                                                                         *)
(* Compile is a loop, so each fact about it is proved by induction over    *)
(* how far the scan has come. An induction is carried out on the set of    *)
(* the positions for which the fact holds (NatSetInduction).               *)
(***************************************************************************)
EXTENDS SecRules, Integers, FiniteSetTheorems, SequenceTheorems, WellFoundedInduction, TLAPS

(* Most steps are first-order and left to Zenon; those that need arithmetic,    *)
(* records or sequences say so.                                                 *)
USE ZenonT(30)

-----------------------------------------------------------------------------
(* The compiler *)

USE CompilerAssumption

(* A nonempty set of naturals has a least element. *)
LEMMA LeastNat ==
    ASSUME NEW T \in SUBSET Nat, T # {}
    PROVE  \E x \in T : \A y \in T : x <= y
<1> DEFINE R == OpToRel(<, Nat)
<1>1. \A x, y \in Nat : x < y => <<x, y>> \in R
    BY DEF OpToRel
<1>2. IsWellFoundedOn(R, Nat)
    BY NatLessThanWellFounded
<1> HIDE DEF R
<1>3. PICK x \in T : \A y \in T : ~(<<y, x>> \in R)
    BY <1>2, WFMin
<1>4. \A y \in T : ~(y < x)
    BY <1>1, <1>3
<1> QED
    BY <1>4, SMTT(30)

(* Min of such a set is that element. *)
LEMMA MinNat ==
    ASSUME NEW T \in SUBSET Nat, T # {}
    PROVE  Min(T) \in T /\ \A y \in T : Min(T) <= y
BY LeastNat DEF Min

(* Induction over the naturals, on the set of those that have the property. *)
LEMMA NatSetInduction ==
    ASSUME NEW S \in SUBSET Nat, 0 \in S, \A n \in S : n + 1 \in S
    PROVE  S = Nat
<1> SUFFICES ASSUME Nat \ S # {} PROVE FALSE
    OBVIOUS
<1>1. PICK x \in Nat \ S : \A y \in Nat \ S : x <= y
    <2> DEFINE T == Nat \ S
    <2>1. T \in SUBSET Nat /\ T # {}
        OBVIOUS
    <2> HIDE DEF T
    <2>2. \E x \in T : \A y \in T : x <= y
        BY <2>1, LeastNat
    <2> QED
        BY <2>2 DEF T
<1>2. x - 1 \in Nat /\ (x - 1) + 1 = x
    BY <1>1, SMTT(30)
<1>3. x - 1 \in S
    BY <1>1, <1>2, SMTT(30)
<1> QED
    BY <1>2, <1>3

-----------------------------------------------------------------------------
(* The loops *)

(* The scan as the sequence of its states, one per line: g is one run of the    *)
(* loop over the lines.                                                         *)
ScanRun(g, ls) ==
    /\ g[0] = Start
    /\ \A k \in 1..Len(ls) : g[k] = Scan(g[k - 1], ls[k])

AfterDef(f, n, ls) ==
    f = [k \in 0..n |-> IF k = 0 THEN Start ELSE Scan(f[k - 1], ls[k])]

(* The loop is well defined, and its result the last state of such a run. *)
LEMMA ScanTrace ==
    ASSUME NEW D, NEW ls \in Seq(D)
    PROVE  \E g : ScanRun(g, ls) /\ ScanAll(ls) = g[Len(ls)]
<1> DEFINE S == {n \in Nat : \E f : AfterDef(f, n, ls)}
<1>1. 0 \in S
    <2>1. AfterDef([k \in 0..0 |-> Start], 0, ls)
        BY SMTT(30) DEF AfterDef
    <2> QED
        BY <2>1
<1>2. ASSUME NEW n \in S PROVE n + 1 \in S
    <2>1. PICK f : AfterDef(f, n, ls)
        OBVIOUS
    <2> DEFINE e == Scan(f[n], ls[n + 1])
               g == [k \in 0..(n + 1) |-> IF k = n + 1 THEN e ELSE f[k]]
    <2> HIDE DEF e
    <2>2. ASSUME NEW k \in 0..(n + 1)
          PROVE  g[k] = IF k = 0 THEN Start ELSE Scan(g[k - 1], ls[k])
        <3>1. CASE k = n + 1
            <4>1. k # 0 /\ k - 1 = n /\ n \in 0..(n + 1) /\ n # n + 1
                BY <3>1, SMTT(30)
            <4>2. g[k] = e /\ g[n] = f[n]
                BY <3>1, <4>1
            <4> QED
                BY <3>1, <4>1, <4>2 DEF e
        <3>2. CASE k # n + 1
            <4>1. k \in 0..n /\ (k # 0 => k - 1 \in 0..(n + 1) /\ k - 1 # n + 1)
                BY <3>2, SMTT(30)
            <4>2. f[k] = IF k = 0 THEN Start ELSE Scan(f[k - 1], ls[k])
                BY <2>1, <4>1 DEF AfterDef
            <4>3. g[k] = f[k] /\ (k # 0 => g[k - 1] = f[k - 1])
                BY <3>2, <4>1
            <4> QED
                BY <4>2, <4>3
        <3> QED
            BY <3>1, <3>2
    <2>3. AfterDef(g, n + 1, ls)
        BY <2>2 DEF AfterDef
    <2> QED
        BY <2>3, SMTT(30)
<1> HIDE DEF S
<1>3. S = Nat
    BY <1>1, <1>2, NatSetInduction DEF S
<1> DEFINE f == CHOOSE f : AfterDef(f, Len(ls), ls)
<1>4. AfterDef(f, Len(ls), ls)
    BY <1>3, LenProperties DEF S
<1>5. ScanAll(ls) = f[Len(ls)]
    BY DEF ScanAll, AfterDef
<1> HIDE DEF f
<1>6. ScanRun(f, ls)
    <2>1. \A k \in 0..Len(ls) : f[k] = IF k = 0 THEN Start ELSE Scan(f[k - 1], ls[k])
        BY <1>4 DEF AfterDef
    <2>2. 0 \in 0..Len(ls) /\ \A k \in 1..Len(ls) : k \in 0..Len(ls) /\ k # 0
        BY LenProperties, SMTT(30)
    <2> QED
        BY <2>1, <2>2 DEF ScanRun
<1> QED
    BY <1>5, <1>6

(* Likewise for the texts one after the other. *)
JoinRun(f, seqs) ==
    /\ f[0] = <<>>
    /\ \A i \in 1..Len(seqs) : f[i] = f[i - 1] \o seqs[i]

JoinDef(f, n, seqs) ==
    f = [i \in 0..n |-> IF i = 0 THEN <<>> ELSE f[i - 1] \o seqs[i]]

(* Joining is well defined, and its result the last step of such a run. *)
LEMMA JoinTrace ==
    ASSUME NEW seqs, Len(seqs) \in Nat
    PROVE  \E f : JoinRun(f, seqs) /\ Join(seqs) = f[Len(seqs)]
<1> DEFINE S == {n \in Nat : \E f : JoinDef(f, n, seqs)}
<1>1. 0 \in S
    <2>1. JoinDef([i \in 0..0 |-> <<>>], 0, seqs)
        BY SMTT(30) DEF JoinDef
    <2> QED
        BY <2>1
<1>2. ASSUME NEW n \in S PROVE n + 1 \in S
    <2>1. PICK f : JoinDef(f, n, seqs)
        OBVIOUS
    <2> DEFINE e == f[n] \o seqs[n + 1]
               g == [i \in 0..(n + 1) |-> IF i = n + 1 THEN e ELSE f[i]]
    <2> HIDE DEF e
    <2>2. ASSUME NEW i \in 0..(n + 1)
          PROVE  g[i] = IF i = 0 THEN <<>> ELSE g[i - 1] \o seqs[i]
        <3>1. CASE i = n + 1
            <4>1. i # 0 /\ i - 1 = n /\ n \in 0..(n + 1) /\ n # n + 1
                BY <3>1, SMTT(30)
            <4>2. g[i] = e /\ g[n] = f[n]
                BY <3>1, <4>1
            <4> QED
                BY <3>1, <4>1, <4>2 DEF e
        <3>2. CASE i # n + 1
            <4>1. i \in 0..n /\ (i # 0 => i - 1 \in 0..(n + 1) /\ i - 1 # n + 1)
                BY <3>2, SMTT(30)
            <4>2. f[i] = IF i = 0 THEN <<>> ELSE f[i - 1] \o seqs[i]
                BY <2>1, <4>1 DEF JoinDef
            <4>3. g[i] = f[i] /\ (i # 0 => g[i - 1] = f[i - 1])
                BY <3>2, <4>1
            <4> QED
                BY <4>2, <4>3
        <3> QED
            BY <3>1, <3>2
    <2>3. JoinDef(g, n + 1, seqs)
        BY <2>2 DEF JoinDef
    <2> QED
        BY <2>3, SMTT(30)
<1> HIDE DEF S
<1>3. S = Nat
    BY <1>1, <1>2, NatSetInduction DEF S
<1> DEFINE f == CHOOSE f : JoinDef(f, Len(seqs), seqs)
<1>4. JoinDef(f, Len(seqs), seqs)
    BY <1>3 DEF S
<1>5. Join(seqs) = f[Len(seqs)]
    BY DEF Join, JoinDef
<1> HIDE DEF f
<1>6. JoinRun(f, seqs)
    <2>1. \A i \in 0..Len(seqs) : f[i] = IF i = 0 THEN <<>> ELSE f[i - 1] \o seqs[i]
        BY <1>4 DEF JoinDef
    <2>2. 0 \in 0..Len(seqs) /\ \A i \in 1..Len(seqs) : i \in 0..Len(seqs) /\ i # 0
        BY SMTT(30)
    <2> QED
        BY <2>1, <2>2 DEF JoinRun
<1> QED
    BY <1>5, <1>6

(* A run over some texts begins with the first of them. *)
LEMMA JoinFirst ==
    ASSUME NEW D, NEW seqs, NEW f, JoinRun(f, seqs), Len(seqs) \in Nat \ {0}, seqs[1] \in Seq(D)
    PROVE  f[1] = seqs[1]
<1>1. 1 \in 1..Len(seqs) /\ 1 - 1 = 0
    BY SMTT(30)
<1>2. f[1] = <<>> \o seqs[1]
    BY <1>1 DEF JoinRun
<1> QED
    BY <1>2, ConcatEmptySeq

-----------------------------------------------------------------------------
(* The scan *)

Labels == [label : STRING, line : Lines]
Owner == [id : IDs, label : STRING]
States == [ruleCount : Nat, ruleOwner : SUBSET Owner, conflict : Conflicts \cup {NoID}]

(* What one line does to the scan. *)
LEMMA ScanStep ==
    ASSUME NEW st \in States, NEW l \in Labels
    PROVE  /\ st.conflict # NoID \/ ~l.line.directive => Scan(st, l) = st
           /\ st.conflict = NoID /\ l.line.directive =>
                /\ l.line.id = NoID =>
                      Scan(st, l) = [ruleCount |-> st.ruleCount + 1, ruleOwner |-> st.ruleOwner,
                                     conflict |-> NoID]
                /\ l.line.id # NoID /\ Owners(st, l.line.id) = {} =>
                      Scan(st, l) = [ruleCount |-> st.ruleCount + 1,
                                     ruleOwner |-> st.ruleOwner
                                         \cup {[id |-> l.line.id, label |-> l.label]},
                                     conflict |-> NoID]
                /\ l.line.id # NoID /\ Owners(st, l.line.id) # {} =>
                      Scan(st, l) = [ruleCount |-> st.ruleCount, ruleOwner |-> st.ruleOwner,
                                     conflict |-> [id |-> l.line.id,
                                        first |-> CHOOSE o \in Owners(st, l.line.id) : TRUE,
                                        second |-> l.label]]
<1> USE DEF States
<1>1. CASE st.conflict # NoID \/ ~l.line.directive
    BY <1>1 DEF Scan
<1>2. CASE st.conflict = NoID /\ l.line.directive /\ l.line.id = NoID
    BY <1>2 DEF Scan
<1>3. CASE st.conflict = NoID /\ l.line.directive /\ l.line.id # NoID /\ Owners(st, l.line.id) = {}
    BY <1>3 DEF Scan
<1>4. CASE st.conflict = NoID /\ l.line.directive /\ l.line.id # NoID /\ Owners(st, l.line.id) # {}
    BY <1>4 DEF Scan
<1> QED
    BY <1>1, <1>2, <1>3, <1>4 DEF Labels, Lines

Directives(ls, k) == {i \in 1..k : ls[i].line.directive}
Declaring(ls, k) == {i \in Directives(ls, k) : ls[i].line.id # NoID}

(* What the scan's state says of the first k lines: without a conflict, who     *)
(* declares what, that none is a duplicate, and how many directives there are;  *)
(* otherwise the conflict is the one of the first duplicate.                    *)
ScanInv(st, ls, k) ==
    /\ st \in States
    /\ st.conflict = NoID =>
          /\ st.ruleOwner = {[id |-> ls[i].line.id, label |-> ls[i].label] : i \in Declaring(ls, k)}
          /\ \A j \in 1..k : j \notin Duplicates(ls)
          /\ st.ruleCount = Cardinality(Directives(ls, k))
    /\ st.conflict # NoID =>
          \E j \in 1..k :
              /\ j \in Duplicates(ls) /\ \A i \in 1..(j - 1) : i \notin Duplicates(ls)
              /\ st.conflict = FirstConflict(ls, j)

(* The directives of the first lines are finite in number; a line adds itself.  *)
LEMMA DirectivesNext ==
    ASSUME NEW ls, NEW k \in Nat
    PROVE  /\ IsFiniteSet(Directives(ls, k)) /\ Cardinality(Directives(ls, k)) \in Nat
           /\ ls[k + 1].line.directive =>
                 Cardinality(Directives(ls, k + 1)) = Cardinality(Directives(ls, k)) + 1
           /\ ~ls[k + 1].line.directive => Directives(ls, k + 1) = Directives(ls, k)
<1>1. IsFiniteSet(Directives(ls, k))
    <2>1. IsFiniteSet(1..k)
        BY FS_Interval, SMTT(30)
    <2> QED
        BY <2>1, FS_Subset DEF Directives
<1>2. k + 1 \notin Directives(ls, k)
    BY SMTT(30) DEF Directives
<1>3. ASSUME ls[k + 1].line.directive
      PROVE  Directives(ls, k + 1) = Directives(ls, k) \cup {k + 1}
    BY <1>3, SMTT(30) DEF Directives
<1>4. ASSUME ~ls[k + 1].line.directive
      PROVE  Directives(ls, k + 1) = Directives(ls, k)
    BY <1>4, SMTT(30) DEF Directives
<1> QED
    BY <1>1, <1>2, <1>3, <1>4, FS_AddElement, FS_CardinalityType

(* Who owns an id, after k lines without a conflict. *)
LEMMA OwnersAre ==
    ASSUME NEW ls \in Seq(Labels), NEW k \in 0..(Len(ls) - 1), NEW st, ScanInv(st, ls, k),
           st.conflict = NoID, NEW id \in IDs
    PROVE  Owners(st, id) = {ls[i].label : i \in {i \in Declaring(ls, k) : ls[i].line.id = id}}
<1> DEFINE own(i) == [id |-> ls[i].line.id, label |-> ls[i].label]
<1>1. st.ruleOwner = {own(i) : i \in Declaring(ls, k)}
    BY DEF ScanInv
<1>2. \A i : own(i).id = ls[i].line.id /\ own(i).label = ls[i].label
    OBVIOUS
<1> HIDE DEF own
<1> QED
    BY <1>1, <1>2, SMTT(30) DEF Owners

(* The next line keeps what the state says. *)
LEMMA ScanInvStep ==
    ASSUME NEW ls \in Seq(Labels), NEW k \in 0..(Len(ls) - 1), NEW st, ScanInv(st, ls, k)
    PROVE  ScanInv(Scan(st, ls[k + 1]), ls, k + 1)
<1> DEFINE l == ls[k + 1]
           id == l.line.id
           new == Scan(st, l)
<1>1. /\ l \in Labels /\ st \in States /\ k \in Nat /\ k + 1 \in DOMAIN ls
      /\ id \in IDs \cup {NoID} /\ l.label \in STRING /\ l.line.directive \in BOOLEAN
    <2>1. k \in Nat /\ k + 1 \in 1..Len(ls) /\ DOMAIN ls = 1..Len(ls)
        BY LenProperties, SMTT(30)
    <2>2. l \in Labels
        BY <2>1, ElementOfSeq
    <2>3. l.line \in Lines /\ l.label \in STRING
        BY <2>2 DEF Labels
    <2> HIDE DEF l
    <2>4. id \in IDs \cup {NoID} /\ l.line.directive \in BOOLEAN
        BY <2>3 DEF Lines
    <2> QED
        BY <2>1, <2>2, <2>3, <2>4 DEF ScanInv
<1> SUFFICES ScanInv(new, ls, k + 1)
    OBVIOUS
<1>2. \A i \in 1..(k + 1) : i = k + 1 \/ i \in 1..k
    BY SMTT(30)
<1>3. ASSUME st.conflict = NoID, id # NoID
      PROVE  Owners(st, id) = {ls[i].label : i \in {i \in Declaring(ls, k) : ls[i].line.id = id}}
    BY <1>1, <1>3, OwnersAre, SMTT(30)
<1>4. CASE st.conflict # NoID
    <2>1. new = st
        BY <1>1, <1>4, ScanStep
    <2>2. PICK j \in 1..k :
              /\ j \in Duplicates(ls) /\ \A i \in 1..(j - 1) : i \notin Duplicates(ls)
              /\ st.conflict = FirstConflict(ls, j)
        BY <1>4 DEF ScanInv
    <2>3. j \in 1..(k + 1)
        BY SMTT(30)
    <2> HIDE DEF new
    <2> QED
        BY <1>1, <1>4, <2>1, <2>2, <2>3 DEF ScanInv
<1>5. CASE st.conflict = NoID /\ ~l.line.directive
    <2>1. new = st
        BY <1>1, <1>5, ScanStep
    <2>2. Directives(ls, k + 1) = Directives(ls, k)
        BY <1>1, <1>5, DirectivesNext
    <2>3. Declaring(ls, k + 1) = Declaring(ls, k)
        BY <2>2 DEF Declaring
    <2>4. k + 1 \notin Duplicates(ls)
        BY <1>5 DEF Duplicates
    <2> HIDE DEF new
    <2> QED
        BY <1>1, <1>2, <1>5, <2>1, <2>2, <2>3, <2>4 DEF ScanInv
<1>6. CASE st.conflict = NoID /\ l.line.directive /\ id = NoID
    <2>1. /\ new \in States /\ new.ruleCount = st.ruleCount + 1
          /\ new.ruleOwner = st.ruleOwner /\ new.conflict = NoID
        BY <1>1, <1>6, ScanStep, SMTT(30) DEF States
    <2>2. Cardinality(Directives(ls, k + 1)) = Cardinality(Directives(ls, k)) + 1
        BY <1>1, <1>6, DirectivesNext
    <2>3. Declaring(ls, k + 1) = Declaring(ls, k)
        BY <1>2, <1>6, SMTT(30) DEF Declaring, Directives
    <2>4. k + 1 \notin Duplicates(ls)
        BY <1>6 DEF Duplicates
    <2> HIDE DEF new
    <2> QED
        BY <1>1, <1>2, <1>6, <2>1, <2>2, <2>3, <2>4 DEF ScanInv
<1>7. CASE st.conflict = NoID /\ l.line.directive /\ id # NoID /\ Owners(st, id) = {}
    <2>1. /\ new \in States /\ new.ruleCount = st.ruleCount + 1
          /\ new.ruleOwner = st.ruleOwner \cup {[id |-> id, label |-> l.label]}
          /\ new.conflict = NoID
        BY <1>1, <1>7, ScanStep, SMTT(30) DEF States, Owner
    <2>2. Cardinality(Directives(ls, k + 1)) = Cardinality(Directives(ls, k)) + 1
        BY <1>1, <1>7, DirectivesNext
    <2>3. Declaring(ls, k + 1) = Declaring(ls, k) \cup {k + 1}
        BY <1>2, <1>7, SMTT(30) DEF Declaring, Directives
    <2>4. k + 1 \notin Duplicates(ls)
        <3>1. \A i \in Declaring(ls, k) : ls[i].line.id # id
            BY <1>7, <1>3
        <3>2. Earlier(ls, k + 1) = {}
            BY <1>1, <1>7, <3>1, SMTT(30) DEF Earlier, Declaring, Directives
        <3> QED
            BY <3>2 DEF Duplicates
    <2>5. new.ruleOwner = {[id |-> ls[i].line.id, label |-> ls[i].label] : i \in Declaring(ls, k + 1)}
        <3> DEFINE own(i) == [id |-> ls[i].line.id, label |-> ls[i].label]
        <3>1. st.ruleOwner = {own(i) : i \in Declaring(ls, k)} /\ own(k + 1) = [id |-> id, label |-> l.label]
            BY <1>7 DEF ScanInv
        <3> HIDE DEF own, new
        <3>2. new.ruleOwner = {own(i) : i \in Declaring(ls, k + 1)}
            BY <2>1, <2>3, <3>1
        <3> QED
            BY <3>2 DEF own
    <2>6. new.ruleCount = Cardinality(Directives(ls, k + 1))
        BY <1>7, <2>1, <2>2 DEF ScanInv
    <2>7. \A j \in 1..(k + 1) : j \notin Duplicates(ls)
        BY <1>2, <1>7, <2>4 DEF ScanInv
    <2> HIDE DEF new
    <2> QED
        BY <2>1, <2>5, <2>6, <2>7 DEF ScanInv
<1>8. CASE st.conflict = NoID /\ l.line.directive /\ id # NoID /\ Owners(st, id) # {}
    <2> DEFINE Same == {i \in Declaring(ls, k) : ls[i].line.id = id}
               m == Min(Earlier(ls, k + 1))
    <2>1. Earlier(ls, k + 1) = Same
        BY <1>1, <1>8, SMTT(30) DEF Earlier, Declaring, Directives
    <2>2. Owners(st, id) = {ls[i].label : i \in Same}
        BY <1>8, <1>3
    <2>3. Same # {} /\ Same \in SUBSET Nat
        BY <1>8, <2>2, SMTT(30) DEF Declaring, Directives
    <2>4. m \in Same /\ \A i \in Same : m <= i
        BY <2>1, <2>3, MinNat
    <2>5. ASSUME NEW i \in Same PROVE i = m
        <3>1. /\ i \in 1..k /\ m \in 1..k /\ m <= i /\ i \in DOMAIN ls
              /\ ls[m].line.directive /\ ls[i].line.directive
              /\ ls[m].line.id = ls[i].line.id /\ ls[i].line.id # NoID
            BY <1>1, <2>4, <2>5, SMTT(30) DEF Declaring, Directives
        <3>2. i \notin Duplicates(ls)
            BY <1>8, <3>1 DEF ScanInv
        <3>3. m \notin 1..(i - 1)
            BY <3>1, <3>2 DEF Duplicates, Earlier
        <3> QED
            BY <3>1, <3>3, SMTT(30)
    <2>6. (CHOOSE o \in Owners(st, id) : TRUE) = ls[m].label
        <3>1. Owners(st, id) = {ls[m].label}
            BY <2>2, <2>4, <2>5
        <3> QED
            BY <3>1
    <2>7. k + 1 \in Duplicates(ls)
        BY <1>1, <1>8, <2>1, <2>3 DEF Duplicates
    <2> HIDE DEF Same, m
    <2>8. new = [ruleCount |-> st.ruleCount, ruleOwner |-> st.ruleOwner,
                 conflict |-> [id |-> id, first |-> ls[m].label, second |-> l.label]]
        BY <1>1, <1>8, <2>6, ScanStep
    <2>9. new.conflict = FirstConflict(ls, k + 1)
        BY <2>8, SMTT(30) DEF FirstConflict, m
    <2>10. ls[m].label \in STRING
        <3>1. m \in 1..Len(ls)
            BY <1>1, <2>4, SMTT(30) DEF Same, Declaring, Directives
        <3>2. ls[m] \in Labels
            BY <3>1, ElementOfSeq
        <3> QED
            BY <3>2 DEF Labels
    <2>11. new \in States /\ new.conflict # NoID
        <3>1. new.conflict \in Conflicts
            BY <1>1, <1>8, <2>8, <2>10, SMTT(30) DEF Conflicts
        <3> QED
            BY <1>1, <2>8, <3>1, SMTT(30) DEF States
    <2>12. \A i \in 1..((k + 1) - 1) : i \notin Duplicates(ls)
        BY <1>8, SMTT(30) DEF ScanInv
    <2> HIDE DEF new
    <2> QED
        BY <1>1, <2>7, <2>9, <2>11, <2>12, SMTT(30) DEF ScanInv
<1> QED
    BY <1>1, <1>4, <1>5, <1>6, <1>7, <1>8

(* Scanning starts and ends with what the state says. *)
LEMMA ScanEnd ==
    ASSUME NEW ls \in Seq(Labels)
    PROVE  ScanInv(ScanAll(ls), ls, Len(ls))
<1>1. PICK g : ScanRun(g, ls) /\ ScanAll(ls) = g[Len(ls)]
    BY ScanTrace
<1>2. Len(ls) \in Nat
    BY LenProperties
<1> DEFINE S == {k \in Nat : k <= Len(ls) => ScanInv(g[k], ls, k)}
<1>3. 0 \in S
    <2>1. g[0] \in States /\ g[0].ruleOwner = {} /\ g[0].ruleCount = 0 /\ g[0].conflict = NoID
        BY <1>1, SMTT(30) DEF ScanRun, Start, States
    <2>2. Directives(ls, 0) = {} /\ Declaring(ls, 0) = {} /\ Cardinality({}) = 0
        BY FS_EmptySet, SMTT(30) DEF Directives, Declaring
    <2>3. /\ g[0].ruleOwner = {[id |-> ls[i].line.id, label |-> ls[i].label] : i \in Declaring(ls, 0)}
          /\ \A j \in 1..0 : j \notin Duplicates(ls)
        BY <2>1, <2>2, SMTT(30)
    <2>4. ScanInv(g[0], ls, 0)
        BY <2>1, <2>2, <2>3 DEF ScanInv
    <2> QED
        BY <2>4
<1>4. ASSUME NEW k \in S PROVE k + 1 \in S
    <2> SUFFICES ASSUME k + 1 <= Len(ls) PROVE ScanInv(g[k + 1], ls, k + 1)
        BY SMTT(30)
    <2>1. k \in 0..(Len(ls) - 1) /\ ScanInv(g[k], ls, k)
        BY <1>2, SMTT(30)
    <2>2. k + 1 \in 1..Len(ls) /\ (k + 1) - 1 = k
        BY <1>2, SMTT(30)
    <2>3. g[k + 1] = Scan(g[k], ls[k + 1])
        BY <1>1, <2>2 DEF ScanRun
    <2> QED
        BY <2>1, <2>3, ScanInvStep
<1> HIDE DEF S
<1>5. S = Nat
    BY <1>3, <1>4, NatSetInduction DEF S
<1> QED
    BY <1>1, <1>2, <1>5, SMTT(30) DEF S

-----------------------------------------------------------------------------
(* Counting *)

(* The directives of two texts, one after the other, are those of both. *)
LEMMA CountConcat ==
    ASSUME NEW s \in Seq(Lines), NEW t \in Seq(Lines)
    PROVE  /\ CountRules(s \o t) = CountRules(s) + CountRules(t)
           /\ CountRules(s) \in Nat
<1> DEFINE m == Len(s)
           n == Len(t)
           A == {i \in 1..m : s[i].directive}
           B == {i \in 1..n : t[i].directive}
           C == {j \in (m + 1)..(m + n) : t[j - m].directive}
           f == [i \in B |-> m + i]
<1>1. /\ m \in Nat /\ n \in Nat
      /\ DOMAIN s = 1..m /\ DOMAIN t = 1..n /\ DOMAIN (s \o t) = 1..(m + n)
      /\ \A i \in 1..(m + n) : (s \o t)[i] = IF i <= m THEN s[i] ELSE t[i - m]
    <2>1. s \o t \in Seq(Lines) /\ Len(s \o t) = m + n
        BY ConcatProperties
    <2> QED
        BY <2>1, LenProperties, ConcatProperties
<1> HIDE DEF m, n
<1>2. CountRules(s) = Cardinality(A) /\ CountRules(t) = Cardinality(B)
    BY <1>1 DEF CountRules
<1>3. {i \in DOMAIN (s \o t) : (s \o t)[i].directive} = A \cup C
    <2>1. \A i : i \in A <=> i \in 1..(m + n) /\ i <= m /\ (s \o t)[i].directive
        BY <1>1, SMTT(30)
    <2>2. \A i : i \in C <=> i \in 1..(m + n) /\ ~(i <= m) /\ (s \o t)[i].directive
        BY <1>1, SMTT(30)
    <2> HIDE DEF A, C
    <2> QED
        BY <1>1, <2>1, <2>2
<1>4. IsFiniteSet(A) /\ IsFiniteSet(B) /\ Cardinality(A) \in Nat /\ Cardinality(B) \in Nat
    <2>1. IsFiniteSet(1..m) /\ IsFiniteSet(1..n)
        BY <1>1, FS_Interval, SMTT(30)
    <2>2. A \in SUBSET (1..m) /\ B \in SUBSET (1..n)
        OBVIOUS
    <2> HIDE DEF A, B
    <2> QED
        BY <2>1, <2>2, FS_Subset, FS_CardinalityType
<1>5. IsFiniteSet(C) /\ Cardinality(C) = Cardinality(B)
    <2>1. f \in [B -> C] /\ \A i, j \in B : f[i] = f[j] => i = j
        BY <1>1, SMTT(30)
    <2>2. \A j \in C : \E i \in B : f[i] = j
        <3> SUFFICES ASSUME NEW j \in C PROVE \E i \in B : f[i] = j
            OBVIOUS
        <3>1. j - m \in B /\ m + (j - m) = j
            BY <1>1, SMTT(30)
        <3> QED
            BY <3>1
    <2> HIDE DEF f, B, C
    <2>3. f \in Bijection(B, C)
        BY <2>1, <2>2 DEF Bijection, Injection, Surjection, IsInjective
    <2>4. ExistsBijection(B, C)
        BY <2>3 DEF ExistsBijection
    <2> QED
        BY <1>4, <2>4, FS_Bijection
<1>6. A \cap C = {}
    BY <1>1, SMTT(30)
<1> HIDE DEF A, B, C
<1>7. Cardinality(A \cup C) = Cardinality(A) + Cardinality(B)
    <2>1. Cardinality(A \cup C) = Cardinality(A) + Cardinality(C) - Cardinality(A \cap C)
        BY <1>4, <1>5, FS_Union
    <2>2. Cardinality(A \cap C) = 0
        BY <1>6, FS_EmptySet
    <2> QED
        BY <1>4, <1>5, <2>1, <2>2, SMTT(30)
<1> QED
    BY <1>2, <1>3, <1>4, <1>7 DEF CountRules

(* The lines of a labelled text; they are counted as the scan counts. *)
Plain(ls) == [i \in 1..Len(ls) |-> ls[i].line]

(* They count what the scan counts. *)
LEMMA PlainCount ==
    ASSUME NEW ls \in Seq(Labels)
    PROVE  /\ Plain(ls) \in Seq(Lines) /\ Len(Plain(ls)) = Len(ls)
           /\ CountRules(Plain(ls)) = Cardinality(Directives(ls, Len(ls)))
<1>1. Len(ls) \in Nat /\ \A i \in 1..Len(ls) : ls[i].line \in Lines
    <2>1. Len(ls) \in Nat /\ \A i \in 1..Len(ls) : ls[i] \in Labels
        BY LenProperties, ElementOfSeq
    <2> QED
        BY <2>1 DEF Labels
<1>2. Plain(ls) \in Seq(Lines) /\ Len(Plain(ls)) = Len(ls) /\ DOMAIN Plain(ls) = 1..Len(ls)
    BY <1>1, SMTT(30) DEF Plain
<1>3. {i \in DOMAIN Plain(ls) : Plain(ls)[i].directive} = Directives(ls, Len(ls))
    BY <1>1, <1>2 DEF Plain, Directives
<1> QED
    BY <1>2, <1>3 DEF CountRules

(* One labelled text after another. *)
LEMMA PlainConcat ==
    ASSUME NEW s \in Seq(Labels), NEW t \in Seq(Labels)
    PROVE  s \o t \in Seq(Labels) /\ Plain(s \o t) = Plain(s) \o Plain(t)
<1>1. /\ s \o t \in Seq(Labels) /\ Len(s \o t) = Len(s) + Len(t)
      /\ \A i \in 1..(Len(s) + Len(t)) : (s \o t)[i] = IF i <= Len(s) THEN s[i] ELSE t[i - Len(s)]
    BY ConcatProperties
<1>2. /\ Plain(s) \in Seq(Lines) /\ Plain(t) \in Seq(Lines) /\ Plain(s \o t) \in Seq(Lines)
      /\ Len(Plain(s)) = Len(s) /\ Len(Plain(t)) = Len(t)
      /\ Len(Plain(s \o t)) = Len(s) + Len(t) /\ Len(s) \in Nat /\ Len(t) \in Nat
    BY <1>1, PlainCount, LenProperties
<1>3. /\ Plain(s) \o Plain(t) \in Seq(Lines)
      /\ Len(Plain(s) \o Plain(t)) = Len(s) + Len(t)
      /\ \A i \in 1..(Len(s) + Len(t)) : (Plain(s) \o Plain(t))[i] =
             IF i <= Len(s) THEN Plain(s)[i] ELSE Plain(t)[i - Len(s)]
    <2> DEFINE u == Plain(s)
               v == Plain(t)
    <2> HIDE DEF u, v
    <2>1. u \in Seq(Lines) /\ v \in Seq(Lines) /\ Len(u) = Len(s) /\ Len(v) = Len(t)
        BY <1>2 DEF u, v
    <2>2. /\ u \o v \in Seq(Lines) /\ Len(u \o v) = Len(u) + Len(v)
          /\ \A i \in 1..(Len(u) + Len(v)) : (u \o v)[i] = IF i <= Len(u) THEN u[i] ELSE v[i - Len(u)]
        BY <2>1, ConcatProperties
    <2> QED
        BY <2>1, <2>2 DEF u, v
<1>4. ASSUME NEW i \in 1..(Len(s) + Len(t))
      PROVE  Plain(s \o t)[i] = (Plain(s) \o Plain(t))[i]
    <2>1. CASE i <= Len(s)
        <3>1. i \in 1..Len(s) /\ i \in 1..Len(s \o t)
            BY <1>1, <1>2, <2>1, SMTT(30)
        <3> QED
            BY <1>1, <1>3, <2>1, <3>1 DEF Plain
    <2>2. CASE ~(i <= Len(s))
        <3>1. i - Len(s) \in 1..Len(t) /\ i \in 1..Len(s \o t)
            BY <1>1, <1>2, <2>2, SMTT(30)
        <3> QED
            BY <1>1, <1>3, <2>2, <3>1 DEF Plain
    <2> QED
        BY <2>1, <2>2
<1> QED
    BY <1>1, <1>2, <1>3, <1>4, SeqEqual

-----------------------------------------------------------------------------
(* Sources *)

(* One source, as it is scanned and as it is written. *)
Tagged(src) == [j \in DOMAIN src.body |-> [label |-> src.name, line |-> src.body[j]]]
Framed(src) == <<Banner>> \o src.body \o <<Banner>>

(* Both are sequences with the directives of the body. *)
LEMMA OneSource ==
    ASSUME NEW src \in Sources
    PROVE  /\ Tagged(src) \in Seq(Labels) /\ Plain(Tagged(src)) = src.body
           /\ Framed(src) \in Seq(Lines) /\ CountRules(Framed(src)) = CountRules(src.body)
<1> DEFINE body == src.body
<1>1. body \in Seq(Lines) /\ src.name \in STRING
    BY DEF Sources
<1>2. /\ Len(body) \in Nat /\ DOMAIN body = 1..Len(body)
      /\ \A i \in 1..Len(body) : body[i] \in Lines
    BY <1>1, LenProperties, ElementOfSeq
<1>3. Tagged(src) \in Seq(Labels) /\ Len(Tagged(src)) = Len(body)
    <2>1. Tagged(src) \in [1..Len(body) -> Labels]
        BY <1>1, <1>2 DEF Tagged, Labels
    <2> HIDE DEF body
    <2> QED
        BY <1>2, <2>1, SMTT(30)
<1>4. Plain(Tagged(src)) = body
    <2>1. \A i \in 1..Len(body) : Tagged(src)[i].line = body[i]
        BY <1>2 DEF Tagged
    <2>2. Plain(Tagged(src)) \in Seq(Lines) /\ Len(Plain(Tagged(src))) = Len(body)
        BY <1>3, PlainCount
    <2>3. \A i \in 1..Len(body) : Plain(Tagged(src))[i] = body[i]
        BY <1>3, <2>1 DEF Plain
    <2> HIDE DEF body
    <2> QED
        BY <1>1, <2>2, <2>3, SeqEqual
<1>5. <<Banner>> \in Seq(Lines) /\ CountRules(<<Banner>>) = 0
    <2>1. Banner \in Lines /\ ~Banner.directive
        BY DEF Banner, Line, Lines
    <2> HIDE DEF body
    <2>2. <<Banner>> \in Seq(Lines) /\ DOMAIN <<Banner>> = {1} /\ <<Banner>>[1] = Banner
        BY <2>1, SMTT(30)
    <2>3. {i \in DOMAIN <<Banner>> : <<Banner>>[i].directive} = {}
        BY <2>1, <2>2
    <2> QED
        BY <2>2, <2>3, FS_EmptySet DEF CountRules
<1> HIDE DEF body
<1>6. /\ <<Banner>> \o body \in Seq(Lines) /\ CountRules(<<Banner>> \o body) = 0 + CountRules(body)
      /\ CountRules(body) \in Nat
    BY <1>1, <1>5, CountConcat, ConcatProperties
<1>7. /\ <<Banner>> \o body \o <<Banner>> \in Seq(Lines)
      /\ CountRules(<<Banner>> \o body \o <<Banner>>) = CountRules(<<Banner>> \o body) + 0
    BY <1>5, <1>6, CountConcat, ConcatProperties
<1> QED
    BY <1>3, <1>4, <1>6, <1>7, SMTT(30) DEF Framed, body

(* What is scanned and what is written hold the same directives. *)
LEMMA AllSources ==
    ASSUME NEW sources \in Seq(Sources), sources # <<>>
    PROVE  /\ Labelled(sources) \in Seq(Labels)
           /\ Concatenate(sources) \in Seq(Lines)
           /\ CountRules(Plain(Labelled(sources))) = CountRules(Concatenate(sources))
<1> DEFINE n == Len(sources)
           tagged == [i \in DOMAIN sources |-> Tagged(sources[i])]
           framed == [i \in DOMAIN sources |-> Framed(sources[i])]
<1>1. /\ n \in Nat \ {0} /\ DOMAIN sources = 1..n
      /\ \A i \in 1..n : sources[i] \in Sources
    BY EmptySeq, LenProperties, ElementOfSeq
<1>2. Labelled(sources) = Join(tagged) /\ Concatenate(sources) = Join(framed)
    BY DEF Labelled, Concatenate, Tagged, Framed
<1> HIDE DEF n
<1>3. /\ Len(tagged) = n /\ \A i \in 1..n : tagged[i] = Tagged(sources[i])
      /\ Len(framed) = n /\ \A i \in 1..n : framed[i] = Framed(sources[i])
    BY <1>1, SMTT(30)
<1> HIDE DEF tagged, framed
<1>4. PICK f : JoinRun(f, tagged) /\ Join(tagged) = f[n]
    BY <1>1, <1>3, JoinTrace
<1>5. PICK h : JoinRun(h, framed) /\ Join(framed) = h[n]
    BY <1>1, <1>3, JoinTrace
<1> DEFINE P(i) == /\ f[i] \in Seq(Labels) /\ h[i] \in Seq(Lines)
                   /\ CountRules(Plain(f[i])) = CountRules(h[i])
           S == {i \in Nat : i + 1 <= n => P(i + 1)}
<1>6. 0 \in S
    <2>0. Len(tagged) \in Nat \ {0} /\ Len(framed) \in Nat \ {0}
        BY <1>1, <1>3
    <2>1. 1 \in 1..n
        BY <1>1, SMTT(30)
    <2>2. tagged[1] \in Seq(Labels) /\ framed[1] \in Seq(Lines)
        BY <1>1, <1>3, <2>1, OneSource
    <2>3. f[1] = tagged[1]
        BY <1>4, <2>0, <2>2, JoinFirst
    <2>4. h[1] = framed[1]
        BY <1>5, <2>0, <2>2, JoinFirst
    <2>5. f[1] = Tagged(sources[1]) /\ h[1] = Framed(sources[1])
        BY <1>3, <2>1, <2>3, <2>4
    <2>6. P(1)
        BY <1>1, <2>1, <2>5, OneSource
    <2> QED
        BY <2>6, SMTT(30)
<1>7. ASSUME NEW i \in S PROVE i + 1 \in S
    <2> SUFFICES ASSUME (i + 1) + 1 <= n PROVE P((i + 1) + 1)
        BY SMTT(30)
    <2> DEFINE j == i + 1
               src == sources[j + 1]
    <2>1. j \in Nat /\ P(j) /\ j + 1 <= n /\ (j + 1) - 1 = j
        BY <1>1, SMTT(30)
    <2>2. j + 1 \in 1..n
        BY <1>1, <2>1, SMTT(30)
    <2> HIDE DEF j
    <2>3. src \in Sources
        BY <1>1, <2>2
    <2>4. f[j + 1] = f[j] \o Tagged(src) /\ h[j + 1] = h[j] \o Framed(src)
        BY <1>3, <1>4, <1>5, <2>1, <2>2 DEF JoinRun
    <2> HIDE DEF src
    <2>5. /\ Tagged(src) \in Seq(Labels) /\ Plain(Tagged(src)) = src.body /\ src.body \in Seq(Lines)
          /\ Framed(src) \in Seq(Lines) /\ CountRules(Framed(src)) = CountRules(src.body)
        BY <2>3, OneSource DEF Sources
    <2>6. /\ f[j + 1] \in Seq(Labels) /\ Plain(f[j + 1]) = Plain(f[j]) \o src.body
          /\ h[j + 1] \in Seq(Lines)
        <3> HIDE DEF P
        <3>1. f[j] \in Seq(Labels) /\ h[j] \in Seq(Lines)
            BY <2>1 DEF P
        <3>2. f[j] \o Tagged(src) \in Seq(Labels)
            BY <2>5, <3>1, PlainConcat
        <3>3. Plain(f[j] \o Tagged(src)) = Plain(f[j]) \o src.body
            BY <2>5, <3>1, PlainConcat
        <3>4. h[j] \o Framed(src) \in Seq(Lines)
            BY <2>5, <3>1, ConcatProperties
        <3> QED
            BY <2>4, <3>2, <3>3, <3>4
    <2>7. Plain(f[j]) \in Seq(Lines)
        BY <2>1, PlainCount
    <2>8. CountRules(Plain(f[j + 1])) = CountRules(Plain(f[j])) + CountRules(src.body)
        BY <2>5, <2>6, <2>7, CountConcat
    <2>9. CountRules(h[j + 1]) = CountRules(h[j]) + CountRules(Framed(src))
        BY <2>1, <2>4, <2>5, CountConcat
    <2> QED
        BY <2>1, <2>5, <2>6, <2>8, <2>9 DEF j
<1> HIDE DEF S
<1>8. S = Nat
    BY <1>6, <1>7, NatSetInduction DEF S
<1>9. P(n)
    <2>1. n - 1 \in S /\ (n - 1) + 1 = n
        BY <1>1, <1>8, SMTT(30)
    <2> QED
        BY <1>1, <2>1, SMTT(30) DEF S
<1> QED
    BY <1>2, <1>4, <1>5, <1>9

(* Compile's result is the scan's last state. *)
LEMMA CompileIs ==
    ASSUME NEW sources \in Seq(Sources), sources # <<>>
    PROVE  LET ls == Labelled(sources)
               end == ScanAll(ls)
           IN  /\ ls \in Seq(Labels) /\ ScanInv(end, ls, Len(ls))
               /\ Compile(sources).err = end.conflict
               /\ end.conflict = NoID =>
                     /\ Compile(sources).compiled = Concatenate(sources)
                     /\ Compile(sources).ruleCount = end.ruleCount
BY AllSources, ScanEnd DEF Compile, Bundle, ConflictError

(* For all sources: Compile reports a conflict exactly when two directive lines *)
(* carry the same id, and then the first line that repeats one; otherwise it    *)
(* returns every source in order (compiler.go Compile).                         *)
THEOREM CompileIsRight == \A sources \in Seq(Sources) : CompilesRight(sources)
<1> SUFFICES ASSUME NEW sources \in Seq(Sources) PROVE CompilesRight(sources)
    OBVIOUS
<1> DEFINE ls == Labelled(sources)
           dups == Duplicates(ls)
           end == ScanAll(ls)
<1>1. CASE sources = <<>>
    <2>1. Labelled(sources) = <<>> /\ Concatenate(sources) = <<>>
        <3>1. /\ [i \in DOMAIN sources |-> [j \in DOMAIN sources[i].body |->
                     [label |-> sources[i].name, line |-> sources[i].body[j]]]] = <<>>
              /\ [i \in DOMAIN sources |-> <<Banner>> \o sources[i].body \o <<Banner>>] = <<>>
            BY <1>1, SMTT(30)
        <3>2. Join(<<>>) = <<>>
            <4>1. Len(<<>>) = 0 /\ 0 \in Nat
                BY SMTT(30)
            <4> QED
                BY <4>1, JoinTrace DEF JoinRun
        <3> QED
            BY <3>1, <3>2 DEF Labelled, Concatenate
    <2>2. dups = {}
        BY <2>1, SMTT(30) DEF Duplicates
    <2> QED
        BY <1>1, <2>1, <2>2 DEF CompilesRight, Compile, Bundle
<1>2. CASE sources # <<>>
    <2>1. /\ ls \in Seq(Labels) /\ ScanInv(end, ls, Len(ls))
          /\ Compile(sources).err = end.conflict
          /\ end.conflict = NoID => Compile(sources).compiled = Concatenate(sources)
        BY <1>2, CompileIs
    <2>2. DOMAIN ls = 1..Len(ls) /\ Len(ls) \in Nat
        BY <2>1, LenProperties
    <2> HIDE DEF ls, end
    <2>3. dups \in SUBSET (1..Len(ls)) /\ dups \in SUBSET Nat
        BY <2>2, SMTT(30) DEF Duplicates
    <2>4. CASE end.conflict = NoID
        <3>1. dups = {}
            BY <2>1, <2>3, <2>4 DEF ScanInv
        <3> QED
            BY <2>1, <2>4, <3>1 DEF CompilesRight, ls
    <2>5. CASE end.conflict # NoID
        <3>1. PICK j \in 1..Len(ls) :
                  /\ j \in dups /\ \A i \in 1..(j - 1) : i \notin dups
                  /\ end.conflict = FirstConflict(ls, j)
            BY <2>1, <2>5 DEF ScanInv
        <3> HIDE DEF dups
        <3>2. Min(dups) \in dups /\ Min(dups) <= j
            BY <2>3, <3>1, MinNat
        <3>3. Min(dups) = j
            <4> DEFINE m == Min(dups)
            <4>1. m \in dups /\ m <= j /\ m \in 1..Len(ls)
                BY <2>3, <3>2
            <4> HIDE DEF m
            <4>2. ~(m < j)
                BY <2>2, <3>1, <4>1, SMTT(30)
            <4> QED
                BY <2>2, <4>1, <4>2, SMTT(30) DEF m
        <3> QED
            BY <2>1, <3>1, <3>3 DEF CompilesRight, ls, dups
    <2> QED
        BY <2>4, <2>5
<1> QED
    BY <1>1, <1>2

(* For all sources: the operator's count of a bundle is the engine's count of   *)
(* the text it receives (Compile, CountRules).                                  *)
THEOREM CompileCounts == \A sources \in Seq(Sources) : CountsRight(sources)
<1> SUFFICES ASSUME NEW sources \in Seq(Sources), Compile(sources).err = NoID
             PROVE  Compile(sources).ruleCount = CountRules(Compile(sources).compiled)
    BY DEF CountsRight
<1>1. CASE sources = <<>>
    <2>1. CountRules(<<>>) = 0
        BY FS_EmptySet, SMTT(30) DEF CountRules
    <2> QED
        BY <1>1, <2>1 DEF Compile, Bundle
<1>2. CASE sources # <<>>
    <2> DEFINE ls == Labelled(sources)
               end == ScanAll(ls)
    <2>1. /\ ls \in Seq(Labels) /\ ScanInv(end, ls, Len(ls)) /\ end.conflict = NoID
          /\ Compile(sources).compiled = Concatenate(sources)
          /\ Compile(sources).ruleCount = end.ruleCount
        BY <1>2, CompileIs
    <2>2. CountRules(Plain(ls)) = CountRules(Concatenate(sources))
        BY <1>2, AllSources
    <2> HIDE DEF ls, end
    <2>3. CountRules(Plain(ls)) = Cardinality(Directives(ls, Len(ls)))
        BY <2>1, PlainCount
    <2> QED
        BY <2>1, <2>2, <2>3 DEF ScanInv
<1> QED
    BY <1>1, <1>2

(* The type of Compile's result, and its count without a conflict. *)
LEMMA CompileTyped ==
    ASSUME NEW sources \in Seq(Sources), sources # <<>>
    PROVE  /\ Compile(sources).err \in Conflicts \cup {NoID}
           /\ Compile(sources).err = NoID =>
                 Compile(sources).ruleCount = CountRules(Plain(Labelled(sources)))
<1> DEFINE ls == Labelled(sources)
           end == ScanAll(ls)
<1>1. /\ ls \in Seq(Labels) /\ ScanInv(end, ls, Len(ls))
      /\ Compile(sources).err = end.conflict
      /\ end.conflict = NoID => Compile(sources).ruleCount = end.ruleCount
    BY CompileIs
<1> HIDE DEF ls, end
<1>2. CountRules(Plain(ls)) = Cardinality(Directives(ls, Len(ls)))
    BY <1>1, PlainCount
<1>3. end.conflict \in Conflicts \cup {NoID}
    BY <1>1 DEF ScanInv, States
<1> QED
    BY <1>1, <1>2, <1>3 DEF ScanInv, ls

(* What a single source reports. *)
LEMMA SingleSource ==
    ASSUME NEW a \in Sources
    PROVE  /\ Compile(<<a>>).err \in Conflicts \cup {NoID}
           /\ Compile(<<a>>).err = NoID => Compile(<<a>>).ruleCount = CountRules(a.body)
<1> DEFINE sources == <<a>>
           tagged == [i \in DOMAIN sources |-> Tagged(sources[i])]
<1>1. /\ sources \in Seq(Sources) /\ sources # <<>> /\ DOMAIN sources = 1..1
      /\ sources[1] = a
    BY SMTT(30)
<1>2. Labelled(sources) = Join(tagged)
    BY DEF Labelled, Tagged
<1> HIDE DEF sources
<1>3. Len(tagged) = 1 /\ tagged[1] = Tagged(a)
    BY <1>1, SMTT(30)
<1> HIDE DEF tagged
<1>4. Join(tagged) = Tagged(a)
    <2>0. Len(tagged) \in Nat \ {0}
        BY <1>3, SMTT(30)
    <2>1. PICK f : JoinRun(f, tagged) /\ Join(tagged) = f[Len(tagged)]
        BY <2>0, JoinTrace
    <2>2. tagged[1] \in Seq(Labels)
        BY <1>3, OneSource
    <2>3. f[1] = tagged[1]
        BY <2>0, <2>1, <2>2, JoinFirst
    <2> QED
        BY <1>3, <2>1, <2>3
<1>5. Plain(Labelled(sources)) = a.body
    BY <1>2, <1>4, OneSource
<1>6. /\ Compile(sources).err \in Conflicts \cup {NoID}
      /\ Compile(sources).err = NoID => Compile(sources).ruleCount = CountRules(a.body)
    BY <1>1, <1>5, CompileTyped
<1> QED
    BY <1>6 DEF sources

(* The count of two sources is the sum of theirs. *)
LEMMA TwoSources ==
    ASSUME NEW a \in Sources, NEW b \in Sources, Compile(<<a, b>>).err = NoID
    PROVE  Compile(<<a, b>>).ruleCount = CountRules(a.body) + CountRules(b.body)
<1> DEFINE sources == <<a, b>>
           tagged == [i \in DOMAIN sources |-> Tagged(sources[i])]
<1>1. /\ sources \in Seq(Sources) /\ sources # <<>> /\ DOMAIN sources = 1..2
      /\ sources[1] = a /\ sources[2] = b
    BY SMTT(30)
<1>2. Labelled(sources) = Join(tagged) /\ Compile(sources).err = NoID
    BY DEF Labelled, Tagged
<1> HIDE DEF sources
<1>3. Len(tagged) = 2 /\ tagged[1] = Tagged(a) /\ tagged[2] = Tagged(b)
    BY <1>1, SMTT(30)
<1> HIDE DEF tagged
<1>4. Join(tagged) = Tagged(a) \o Tagged(b)
    <2>0. Len(tagged) \in Nat \ {0}
        BY <1>3, SMTT(30)
    <2>1. PICK f : JoinRun(f, tagged) /\ Join(tagged) = f[Len(tagged)]
        BY <2>0, JoinTrace
    <2>2. f[1] = tagged[1]
        <3>1. tagged[1] \in Seq(Labels)
            BY <1>3, OneSource
        <3> QED
            BY <2>0, <2>1, <3>1, JoinFirst
    <2>3. f[2] = f[1] \o tagged[2]
        <3>1. 2 - 1 = 1 /\ 2 \in 1..Len(tagged)
            BY <1>3, SMTT(30)
        <3> QED
            BY <2>1, <3>1 DEF JoinRun
    <2> QED
        BY <1>3, <2>1, <2>2, <2>3
<1>5. Plain(Tagged(a) \o Tagged(b)) = a.body \o b.body
    <2>1. /\ Tagged(a) \in Seq(Labels) /\ Plain(Tagged(a)) = a.body
          /\ Tagged(b) \in Seq(Labels) /\ Plain(Tagged(b)) = b.body
        BY OneSource
    <2> QED
        BY <2>1, PlainConcat
<1>6. CountRules(a.body \o b.body) = CountRules(a.body) + CountRules(b.body)
    <2>1. a.body \in Seq(Lines) /\ b.body \in Seq(Lines)
        BY DEF Sources
    <2> QED
        BY <2>1, CountConcat
<1>7. Compile(sources).ruleCount = CountRules(Plain(Labelled(sources)))
    BY <1>1, <1>2, CompileTyped
<1> QED
    BY <1>2, <1>4, <1>5, <1>6, <1>7 DEF sources

(* A count is a number. *)
LEMMA CountNat == ASSUME NEW s \in Seq(Lines) PROVE CountRules(s) \in Nat
<1>1. DOMAIN s = 1..Len(s) /\ Len(s) \in Nat
    BY LenProperties
<1>2. IsFiniteSet({i \in DOMAIN s : s[i].directive})
    <2>1. IsFiniteSet(1..Len(s))
        BY <1>1, FS_Interval, SMTT(30)
    <2> QED
        BY <1>1, <2>1, FS_Subset
<1> QED
    BY <1>2, FS_CardinalityType DEF CountRules

-----------------------------------------------------------------------------
(* The controller of a rule source *)

USE SecRulesAssumption

(* The status computed for an object describes it. *)
LEMMA StatusDescribes ==
    ASSUME NEW sr \in Objects
    PROVE  Status(sr) \in Statuses /\ Describes(Status(sr), sr)
<1> DEFINE source == [name |-> Label, body |-> sr.rules]
           bundle == Compile(<<source>>)
<1>1. /\ sr.rules \in Seq(Lines) /\ sr.generation \in 0..MaxEdits
      /\ sr.status.parsedRuleCount \in Nat /\ sr.status.observedGeneration \in 0..MaxEdits
    BY SMTT(30) DEF Objects, Statuses
<1>2. source \in Sources /\ source.body = sr.rules
    BY <1>1 DEF Sources
<1>3. /\ bundle.err \in Conflicts \cup {NoID}
      /\ bundle.err = NoID => bundle.ruleCount = CountRules(sr.rules)
      /\ CountRules(sr.rules) \in Nat
    BY <1>1, <1>2, SingleSource, CountNat
<1> HIDE DEF bundle
<1>4. CASE sr.rules = <<>>
    <2>1. Status(sr) = Degraded(sr, NoID)
        BY <1>4 DEF Status
    <2>3. Describes(Status(sr), sr)
        BY <1>4, <2>1, SMTT(30) DEF Degraded, Describes
    <2> QED
        BY <1>1, <2>1, <2>3, SMTT(30) DEF Degraded, Statuses
<1>5. CASE sr.rules # <<>> /\ bundle.err # NoID
    <2>1. Status(sr) = Degraded(sr, bundle.err)
        BY <1>5 DEF Status, bundle
    <2>3. bundle.err # None
        BY <1>3
    <2>4. Describes(Status(sr), sr)
        BY <1>5, <2>1, <2>3, SMTT(30) DEF Degraded, Describes, bundle
    <2> QED
        BY <1>1, <1>3, <2>1, <2>4, SMTT(30) DEF Degraded, Statuses
<1>6. CASE sr.rules # <<>> /\ bundle.err = NoID
    <2>1. Status(sr) = [ready |-> TRUE, degraded |-> None, conditionGeneration |-> sr.generation,
                        parsedRuleCount |-> bundle.ruleCount, observedGeneration |-> sr.generation]
        BY <1>6 DEF Status, bundle
    <2>2. Describes(Status(sr), sr)
        BY <1>3, <1>6, <2>1, SMTT(30) DEF Describes, bundle
    <2> QED
        BY <1>1, <1>3, <1>6, <2>1, <2>2, SMTT(30) DEF Statuses
<1> QED
    BY <1>4, <1>5, <1>6

(* An accepted update keeps the object. *)
LEMMA WithStatusIs ==
    ASSUME NEW sr \in Objects, NEW status \in Statuses
    PROVE  /\ WithStatus(sr, status) \in Objects
           /\ Describes(status, sr) => Describes(status, WithStatus(sr, status))
BY SMTT(30) DEF WithStatus, Objects, Describes

(* Nothing is there at first. *)
LEMMA InitSourceInv == Init => SourceInv
<1> SUFFICES ASSUME Init PROVE SourceInv
    OBVIOUS
<1>1. 0 \in 0..MaxEdits /\ 0 \in 0..MaxErrors /\ 0 \in 0..MaxRestarts
    BY SMTT(30)
<1>2. TypeOK
    BY <1>1 DEF Init, TypeOK
<1> QED
    BY <1>2 DEF Init, SourceInv, Current, CopyOf, ConditionsAreEarned

(* The types alone. *)
Typed ==
    /\ api \in Objects \cup {None} /\ cache \in Objects \cup {None}
    /\ work \in Objects \cup {None} /\ queued \in BOOLEAN
    /\ edits \in 0..MaxEdits /\ errors \in 0..MaxErrors /\ restarts \in 0..MaxRestarts

Copies == CopyOf(cache, api, edits) /\ CopyOf(work, api, edits)

(* Every step keeps the invariant. *)
LEMMA NextSourceInv == SourceInv /\ [Next]_vars => SourceInv'
<1> SUFFICES ASSUME SourceInv, [Next]_vars PROVE SourceInv'
    OBVIOUS
<1>1. Typed /\ Current(api, edits) /\ Copies /\ ConditionsAreEarned
    BY DEF SourceInv, TypeOK, Typed, Copies
<1>2. SUFFICES /\ Typed' /\ Current(api', edits') /\ Copies' /\ ConditionsAreEarned'
    BY DEF SourceInv, TypeOK, Typed, Copies, CopyOf
<1>3. ASSUME NEW t \in Texts, Create(t)
      PROVE  Typed' /\ Current(api', edits') /\ Copies' /\ ConditionsAreEarned'
    <2>1. /\ edits + 1 \in 1..MaxEdits /\ edits' = edits + 1 /\ NoStatus \in Statuses
          /\ api' = [uid |-> edits + 1, generation |-> 1, version |-> 1, rules |-> t, status |-> NoStatus]
          /\ UNCHANGED <<cache, queued, work, errors, restarts>>
        BY <1>1, <1>3, SMTT(30) DEF Create, Typed, NoStatus, Statuses
    <2>2. Typed'
        <3>1. api' \in Objects
            BY <1>1, <2>1, SMTT(30) DEF Typed, Objects
        <3> QED
            BY <1>1, <2>1, <3>1, SMTT(30) DEF Typed
    <2>3. Current(api', edits')
        BY <1>1, <2>1, SMTT(30) DEF Current, Typed, NoStatus
    <2>4. Copies'
        <3>1. ASSUME NEW o \in Objects \cup {None}, CopyOf(o, api, edits) PROVE CopyOf(o, api', edits')
            BY <1>1, <2>1, <3>1, SMTT(30) DEF CopyOf, Typed, Objects
        <3> QED
            BY <1>1, <2>1, <3>1 DEF Copies, Typed
    <2>5. ConditionsAreEarned'
        BY <2>1, SMTT(30) DEF ConditionsAreEarned, NoStatus
    <2> QED
        BY <2>2, <2>3, <2>4, <2>5
<1>4. ASSUME NEW t \in Texts, Edit(t)
      PROVE  Typed' /\ Current(api', edits') /\ Copies' /\ ConditionsAreEarned'
    <2>1. /\ edits + 1 \in 1..MaxEdits /\ edits' = edits + 1 /\ api \in Objects
          /\ api' = [uid |-> api.uid, generation |-> api.generation + 1, version |-> api.version + 1,
                     rules |-> t, status |-> api.status]
          /\ UNCHANGED <<cache, queued, work, errors, restarts>>
        BY <1>1, <1>4, SMTT(30) DEF Edit, Typed
    <2>2. /\ api.uid \in 1..edits /\ api.generation \in 1..edits /\ api.version \in Nat
          /\ api.status \in Statuses /\ api.status.conditionGeneration \in 0..api.generation
        <3>1. /\ api.uid \in 1..MaxEdits /\ api.generation \in 1..MaxEdits /\ api.version \in Nat
              /\ api.status \in Statuses
            BY <2>1 DEF Objects
        <3>2. api.status.conditionGeneration \in 0..MaxEdits
            BY <3>1 DEF Statuses
        <3>3. /\ api.uid <= edits /\ api.generation <= edits
              /\ api.status.conditionGeneration <= api.generation
            BY <1>1, <2>1 DEF Current
        <3> QED
            BY <1>1, <3>1, <3>2, <3>3, SMTT(30) DEF Typed
    <2>3. Typed'
        <3>1. /\ api.uid \in 1..MaxEdits /\ api.generation + 1 \in 1..MaxEdits
              /\ api.version + 1 \in Nat
            <4>1. edits \in Nat /\ MaxEdits \in Nat /\ edits + 1 <= MaxEdits
                BY <1>1, <2>1, SMTT(30) DEF Typed
            <4> HIDE SecRulesAssumption
            <4> QED
                BY <2>2, <4>1, SMTT(30)
        <3>2. api' \in Objects
            BY <2>1, <2>2, <3>1 DEF Objects
        <3> QED
            BY <1>1, <2>1, <3>2, SMTT(30) DEF Typed
    <2>4. Current(api', edits')
        <3>1. /\ edits' = edits + 1 /\ edits \in Nat /\ api'.uid = api.uid
              /\ api'.generation = api.generation + 1 /\ api'.status = api.status
            BY <1>1, <2>1, SMTT(30) DEF Typed
        <3>2. /\ api'.uid <= edits' /\ api'.generation <= edits'
              /\ api.status.conditionGeneration <= api'.generation
            BY <2>2, <3>1, SMTT(30)
        <3> QED
            BY <3>1, <3>2 DEF Current
    <2>5. Copies'
        <3>1. ASSUME NEW o \in Objects \cup {None}, CopyOf(o, api, edits) PROVE CopyOf(o, api', edits')
            <4> SUFFICES ASSUME o # None PROVE CopyOf(o, api', edits')
                BY DEF CopyOf
            <4>1. /\ api'.uid = api.uid /\ api'.version = api.version + 1 /\ api # None
                  /\ o.uid \in Nat /\ o.version \in Nat /\ edits \in Nat
                <5>1. o.uid \in Nat /\ o.version \in Nat
                    BY <3>1, SMTT(30) DEF Objects
                <5>2. api # None /\ edits \in Nat
                    BY <1>1, <2>1, SMTT(30) DEF Typed
                <5> QED
                    BY <2>1, <5>1, <5>2
            <4> QED
                BY <2>1, <2>2, <3>1, <4>1, SMTT(30) DEF CopyOf
        <3> QED
            BY <1>1, <2>1, <3>1 DEF Copies, Typed
    <2>6. ConditionsAreEarned'
        BY <2>1, <2>2, SMTT(30) DEF ConditionsAreEarned
    <2> QED
        BY <2>3, <2>4, <2>5, <2>6
<1>5. CASE Delete
    BY <1>1, <1>5 DEF Delete, Typed, Current, Copies, CopyOf, ConditionsAreEarned
<1>6. CASE Watch
    <2>1. Typed' /\ Current(api', edits') /\ ConditionsAreEarned'
        BY <1>1, <1>6 DEF Watch, Typed, Current, ConditionsAreEarned, Describes, Passes
    <2> QED
        BY <1>1, <1>6, <2>1, SMTT(30) DEF Watch, Typed, Current, Copies, CopyOf, Objects
<1>7. CASE Get
    BY <1>1, <1>7 DEF Get, Typed, Current, Copies, CopyOf, ConditionsAreEarned, Describes
<1>8. CASE Update
    <2>1. /\ work # None /\ api # None /\ api.uid = work.uid /\ api.version = work.version
          /\ api' = WithStatus(api, Status(work)) /\ work' = None
          /\ UNCHANGED <<cache, queued, edits, errors, restarts>>
        BY <1>8 DEF Update, Accepts
    <2>2. work = api /\ api \in Objects /\ api.version \in Nat
        BY <1>1, <2>1 DEF Copies, CopyOf, Typed, Objects
    <2>3. Status(api) \in Statuses /\ Describes(Status(api), api)
        BY <2>2, StatusDescribes
    <2>4. api' \in Objects /\ Describes(Status(api), api')
        BY <2>1, <2>2, <2>3, WithStatusIs
    <2>5. Typed'
        BY <1>1, <2>1, <2>4 DEF Typed
    <2>6. /\ api'.uid = api.uid /\ api'.generation = api.generation /\ api'.version = api.version + 1
          /\ api'.status = Status(api) /\ Status(api).conditionGeneration = api.generation
        BY <2>1, <2>2, <2>3 DEF WithStatus, Describes
    <2>7. Current(api', edits')
        BY <1>1, <2>1, <2>2, <2>6, SMTT(30) DEF Current, Objects
    <2>8. Copies'
        BY <1>1, <2>1, <2>2, <2>6, SMTT(30) DEF Copies, CopyOf, Typed, Objects
    <2>9. ConditionsAreEarned'
        BY <2>4, <2>6 DEF ConditionsAreEarned
    <2> QED
        BY <2>5, <2>7, <2>8, <2>9
<1>9. CASE Unchanged \/ Refused \/ Fail
    <2>1. /\ UNCHANGED <<api, cache, edits, restarts>> /\ work' = None /\ queued' \in BOOLEAN
          /\ errors' \in 0..MaxErrors
        <3>1. CASE Unchanged
            BY <1>1, <3>1 DEF Unchanged, Typed
        <3>2. CASE Refused
            BY <1>1, <3>2 DEF Refused, Typed
        <3>3. CASE Fail
            BY <1>1, <3>3, SMTT(30) DEF Fail, Typed
        <3> QED
            BY <1>9, <3>1, <3>2, <3>3
    <2> QED
        BY <1>1, <2>1 DEF Typed, Current, Copies, CopyOf, ConditionsAreEarned, Describes
<1>10. CASE Restart
    <2>1. /\ UNCHANGED <<api, edits, errors>> /\ cache' = api /\ work' = None /\ queued' \in BOOLEAN
          /\ restarts' \in 0..MaxRestarts
        BY <1>1, <1>10, SMTT(30) DEF Restart, Typed
    <2>2. Typed'
        BY <1>1, <2>1 DEF Typed
    <2>3. Current(api', edits') /\ ConditionsAreEarned'
        BY <1>1, <2>1 DEF Current, ConditionsAreEarned, Describes
    <2>4. Copies'
        <3>1. CopyOf(api, api, edits)
            BY <1>1, SMTT(30) DEF CopyOf, Current, Typed, Objects
        <3>2. CopyOf(None, api, edits)
            BY DEF CopyOf
        <3> QED
            BY <2>1, <3>1, <3>2 DEF Copies
    <2> QED
        BY <2>2, <2>3, <2>4
<1>11. CASE UNCHANGED vars
    BY <1>1, <1>11 DEF vars, Typed, Current, Copies, CopyOf, ConditionsAreEarned, Describes
<1> QED
    BY <1>3, <1>4, <1>5, <1>6, <1>7, <1>8, <1>9, <1>10, <1>11 DEF Next, Worker

-----------------------------------------------------------------------------
(* The invariant holds of every behaviour. *)
THEOREM SourceInvariant == Spec => []SourceInv
BY InitSourceInv, NextSourceInv, PTL DEF Spec

(* Every variable keeps its type, and no copy is ahead of the API server.       *)
THEOREM SourceTypeOK == Spec => []TypeOK
<1>1. SourceInv => TypeOK
    BY DEF SourceInv
<1> QED
    BY <1>1, SourceInvariant, PTL

(* Conditions for the present generation are true of the present body: a status *)
(* computed from an old copy never lands on a newer object or a namesake        *)
(* (secrules_controller.go patchStatusIfChanged).                               *)
THEOREM SourceConditions == Spec => []ConditionsAreEarned
<1>1. SourceInv => ConditionsAreEarned
    BY DEF SourceInv
<1> QED
    BY <1>1, SourceInvariant, PTL

(* The two sources of a pair are sources. *)
LEMMA PairIs ==
    ASSUME NEW t \in Texts, NEW sr \in Objects
    PROVE  /\ [name |-> Other, body |-> t] \in Sources
           /\ [name |-> Label, body |-> sr.rules] \in Sources
           /\ Pair(t, sr) \in Seq(Sources)
<1>1. /\ [name |-> Other, body |-> t] \in Sources
      /\ [name |-> Label, body |-> sr.rules] \in Sources
    <2>1. t \in Seq(Lines) /\ sr.rules \in Seq(Lines)
        BY DEF Objects
    <2> QED
        BY <2>1 DEF Sources
<1> QED
    BY <1>1, SMTT(30) DEF Pair

(* In every RuleSet of two sources the first line that repeats an id is         *)
(* reported, and without one the text is complete (compiler.go Compile).        *)
THEOREM SourceFindsFirst == Spec => []FindsFirstConflict
<1>1. SourceInv => FindsFirstConflict
    BY PairIs, CompileIsRight DEF SourceInv, TypeOK, FindsFirstConflict
<1> QED
    BY <1>1, SourceInvariant, PTL

(* Operator and engine count alike, and a bundle counts the sum of what its     *)
(* sources report (compiler.go Compile, CountRules).                            *)
THEOREM SourceCountsAgree == Spec => []CountsAgree
<1>1. SourceInv => CountsAgree
    <2> SUFFICES ASSUME SourceInv, api # None, NEW t \in Texts
                 PROVE  /\ CountsRight(Pair(t, api))
                        /\ Compile(Pair(t, api)).err = NoID =>
                              Compile(Pair(t, api)).ruleCount = CountRules(t) + CountRules(api.rules)
        BY DEF CountsAgree
    <2>1. api \in Objects
        BY DEF SourceInv, TypeOK
    <2>2. CountsRight(Pair(t, api))
        BY <2>1, PairIs, CompileCounts
    <2> DEFINE a == [name |-> Other, body |-> t]
               b == [name |-> Label, body |-> api.rules]
    <2>3. a \in Sources /\ b \in Sources /\ a.body = t /\ b.body = api.rules /\ Pair(t, api) = <<a, b>>
        BY <2>1, PairIs DEF Pair
    <2> HIDE DEF a, b
    <2> QED
        BY <2>2, <2>3, TwoSources
<1> QED
    BY <1>1, SourceInvariant, PTL
=============================================================================
