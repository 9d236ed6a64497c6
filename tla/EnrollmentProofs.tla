-------------------------- MODULE EnrollmentProofs --------------------------
(***************************************************************************)
(* Proofs about Enrollment for any number of replicas, containers, CAs,    *)
(* key pairs and faults: EnrollmentInv is inductive, so enrollment is all  *)
(* or nothing (PairMatches), all agree on one CA (OneCA), streams go only  *)
(* to the engine's own containers, and any replica accepts what another    *)
(* has signed. One lemma per conjunct, in it one step per action.          *)
(***************************************************************************)
EXTENDS Enrollment, TLAPS

(* Most steps are first-order and left to Zenon; those that need arithmetic,    *)
(* records or sequences say so.                                                 *)
USE ZenonT(30)

USE EnrollmentAssumption DEF Files, Content

(* WriteOrder names the three files. *)
LEMMA WriteOrderFiles ==
    /\ WriteOrder[1] = "cert" /\ WriteOrder[2] = "key" /\ WriteOrder[3] = "ca"
    /\ \A i \in 1..3 : WriteOrder[i] \in Files
BY SMTT(30) DEF WriteOrder

(* A certificate that expires keeps everything but its validity. *)
LEMMA ExpiredCert ==
    ASSUME NEW c \in Cert
    PROVE  /\ Expired(c) \in Cert
           /\ Expired(c).cn = c.cn /\ Expired(c).issuer = c.issuer /\ Expired(c).key = c.key
BY DEF Expired, Cert

(* Every step keeps every variable in its type. *)
LEMMA NextTypeOK ==
    EnrollmentInv /\ [Next]_vars => TypeOK'
<1> SUFFICES ASSUME EnrollmentInv, [Next]_vars PROVE TypeOK'
    OBVIOUS
<1> USE DEF EnrollmentInv, TypeOK, operatorVars, podVars, Goto, Missing
<1>1. ASSUME NEW o \in Operators, LoadCA(o)
      PROVE  TypeOK'
    BY <1>1 DEF LoadCA
<1>2. ASSUME NEW o \in Operators, GenerateCA(o)
      PROVE  TypeOK'
    BY <1>2, SMTT(30) DEF GenerateCA
<1>3. ASSUME NEW o \in Operators, CreateSecret(o)
      PROVE  TypeOK'
    BY <1>3 DEF CreateSecret
<1>4. ASSUME NEW o \in Operators, SecretExists(o)
      PROVE  TypeOK'
    BY <1>4 DEF SecretExists
<1>5. ASSUME NEW o \in Operators, OperatorCrash(o)
      PROVE  TypeOK'
    BY <1>5, SMTT(30) DEF OperatorCrash, Fault
<1>6. ASSUME NEW e \in Engines, (CreateEngine(e) \/ DeleteEngine(e))
      PROVE  TypeOK'
    BY <1>6 DEF CreateEngine, DeleteEngine
<1>7. ASSUME NEW p \in Pods, SkipEnrollment(p)
      PROVE  TypeOK'
    BY <1>7 DEF SkipEnrollment
<1>8. ASSUME NEW p \in Pods, StartEnrollment(p)
      PROVE  TypeOK'
    BY <1>8, SMTT(30) DEF StartEnrollment
<1>9. ASSUME NEW p \in Pods, NEW o \in Operators, Enroll(p, o)
      PROVE  TypeOK'
    <2>1. ca[o] = secret /\ secret \in CAs
        BY <1>9 DEF Enroll, Admits, OperatorInv
    <2>2. mem[p]["key"] \in KeyPairs
        BY <1>9 DEF Enroll, EnrollingInv, Enrolling
    <2> DEFINE c == [cn |-> Config[p], issuer |-> ca[o], key |-> mem[p]["key"], expired |-> FALSE]
    <2>3. c \in Cert
        BY <2>1, <2>2 DEF Cert
    <2>4. mem' = [mem EXCEPT ![p] = [[mem[p] EXCEPT !["cert"] = c] EXCEPT !["ca"] = ca[o]]]
        BY <1>9 DEF Enroll
    <2> HIDE DEF c
    <2>5. mem' \in [Pods -> [Files -> Content \cup {Absent}]]
        BY <2>1, <2>3, <2>4
    <2>6. /\ file' = [file EXCEPT ![p] = 1] /\ pc' = [pc EXCEPT ![p] = "open"]
          /\ UNCHANGED <<secret, serving, ca, crs, disk, server, faults>>
        BY <1>9 DEF Enroll
    <2> QED
        BY <2>5, <2>6, SMTT(30)
<1>10. ASSUME NEW p \in Pods, EnrollFails(p)
      PROVE  TypeOK'
    BY <1>10, SMTT(30) DEF EnrollFails, Fault, NoFault
<1>11. ASSUME NEW p \in Pods, OpenFile(p)
      PROVE  TypeOK'
    BY <1>11 DEF OpenFile, WriteOrder
<1>12. ASSUME NEW p \in Pods, WriteFile(p)
      PROVE  TypeOK'
    <2> DEFINE f == WriteOrder[file[p]]
    <2>1. f \in Files
        BY WriteOrderFiles
    <2>2. disk' = [disk EXCEPT ![p][f] = mem[p][f]]
        BY <1>12 DEF WriteFile
    <2>3. /\ pc' \in [Pods -> {"check", "enroll", "open", "write", "load", "dial",
                               "stream", "backoff"}]
          /\ file' \in [Pods -> 1..3]
          /\ mem' \in [Pods -> [Files -> Content \cup {Absent}]]
          /\ UNCHANGED <<secret, serving, ca, crs, server, faults>>
        <3>1. UNCHANGED <<secret, serving, ca, crs, server, faults>>
            BY <1>12 DEF WriteFile
        <3>2. \/ /\ file[p] < 3 /\ file' = [file EXCEPT ![p] = file[p] + 1]
                 /\ pc' = [pc EXCEPT ![p] = "open"] /\ mem' = mem
              \/ /\ file' = [file EXCEPT ![p] = 1]
                 /\ pc' = [pc EXCEPT ![p] = "load"] /\ mem' = [mem EXCEPT ![p] = Missing]
            BY <1>12 DEF WriteFile
        <3>3. file' \in [Pods -> 1..3]
            BY <3>2, SMTT(30)
        <3>4. mem' \in [Pods -> [Files -> Content \cup {Absent}]]
            <4>1. Missing \in [Files -> Content \cup {Absent}]
                OBVIOUS
            <4>2. mem \in [Pods -> [Files -> Content \cup {Absent}]]
                OBVIOUS
            <4> HIDE DEF Missing, Content, TypeOK, EnrollmentInv, Files
            <4>3. CASE mem' = mem
                BY <4>2, <4>3
            <4>4. CASE mem' = [mem EXCEPT ![p] = Missing]
                BY <4>1, <4>2, <4>4
            <4> QED
                BY <3>2, <4>3, <4>4
        <3> QED
            BY <3>1, <3>2, <3>3, <3>4
    <2> HIDE DEF f
    <2>4. disk' \in [Pods -> [Files -> Content \cup {Absent, Torn}]]
        BY <2>1, <2>2, SMTT(30)
    <2> QED
        BY <2>3, <2>4
<1>13. ASSUME NEW p \in Pods, FileFails(p)
      PROVE  TypeOK'
    BY <1>13, SMTT(30) DEF FileFails, Fault
<1>14. ASSUME NEW p \in Pods, LoadFiles(p)
      PROVE  TypeOK'
    BY <1>14 DEF LoadFiles
<1>15. ASSUME NEW p \in Pods, NEW o \in Operators, OpenStream(p, o)
      PROVE  TypeOK'
    BY <1>15 DEF OpenStream
<1>16. ASSUME NEW p \in Pods, DialFails(p)
      PROVE  TypeOK'
    BY <1>16, SMTT(30) DEF DialFails, Fault, NoFault
<1>17. ASSUME NEW p \in Pods, StreamBreaks(p)
      PROVE  TypeOK'
    BY <1>17, SMTT(30) DEF StreamBreaks, Fault, NoFault
<1>18. ASSUME NEW p \in Pods, Retry(p)
      PROVE  TypeOK'
    BY <1>18 DEF Retry
<1>19. ASSUME NEW p \in Pods, ContainerRestart(p)
      PROVE  TypeOK'
    BY <1>19, SMTT(30) DEF ContainerRestart, Restarted, Fault
<1>20. ASSUME NEW p \in Pods, PodReplaced(p)
      PROVE  TypeOK'
    BY <1>20, SMTT(30) DEF PodReplaced, Restarted, Fault
<1>21. ASSUME NEW p \in Pods, CertExpires(p)
      PROVE  TypeOK'
    <2>1. Expired(disk[p]["cert"]) \in Content
        BY <1>21, ExpiredCert DEF CertExpires
    <2> QED
        BY <1>21, <2>1 DEF CertExpires
<1>22. CASE UNCHANGED vars
    BY <1>22 DEF vars
<1> QED
    BY <1>1, <1>2, <1>3, <1>4, <1>5, <1>6, <1>7, <1>8, <1>9, <1>10, <1>11,
       <1>12, <1>13, <1>14, <1>15, <1>16, <1>17, <1>18, <1>19, <1>20, <1>21, <1>22
       DEF Next, OperatorStep, PodStep

(* Every step keeps what replicas hold in memory. *)
LEMMA NextOperatorInv ==
    TypeOK /\ OperatorInv /\ [Next]_vars => OperatorInv'
<1> SUFFICES ASSUME TypeOK, OperatorInv, [Next]_vars PROVE OperatorInv'
    OBVIOUS
<1> USE DEF TypeOK, OperatorInv, operatorVars, podVars
<1>1. ASSUME NEW o \in Operators, LoadCA(o)
      PROVE  OperatorInv'
    BY <1>1 DEF LoadCA
<1>2. ASSUME NEW o \in Operators, GenerateCA(o)
      PROVE  OperatorInv'
    BY <1>2 DEF GenerateCA
<1>3. ASSUME NEW o \in Operators, CreateSecret(o)
      PROVE  OperatorInv'
    BY <1>3 DEF CreateSecret
<1>4. ASSUME NEW o \in Operators, SecretExists(o)
      PROVE  OperatorInv'
    BY <1>4 DEF SecretExists
<1>5. ASSUME NEW o \in Operators, OperatorCrash(o)
      PROVE  OperatorInv'
    BY <1>5 DEF OperatorCrash, Fault
<1>6. ASSUME NEW e \in Engines, (CreateEngine(e) \/ DeleteEngine(e))
      PROVE  OperatorInv'
    BY <1>6 DEF CreateEngine, DeleteEngine
<1>7. ASSUME NEW p \in Pods, SkipEnrollment(p)
      PROVE  OperatorInv'
    BY <1>7 DEF SkipEnrollment
<1>8. ASSUME NEW p \in Pods, StartEnrollment(p)
      PROVE  OperatorInv'
    BY <1>8 DEF StartEnrollment
<1>9. ASSUME NEW p \in Pods, NEW o \in Operators, Enroll(p, o)
      PROVE  OperatorInv'
    BY <1>9 DEF Enroll, Admits
<1>10. ASSUME NEW p \in Pods, EnrollFails(p)
      PROVE  OperatorInv'
    BY <1>10 DEF EnrollFails, Fault, NoFault
<1>11. ASSUME NEW p \in Pods, OpenFile(p)
      PROVE  OperatorInv'
    BY <1>11 DEF OpenFile
<1>12. ASSUME NEW p \in Pods, WriteFile(p)
      PROVE  OperatorInv'
    BY <1>12 DEF WriteFile
<1>13. ASSUME NEW p \in Pods, FileFails(p)
      PROVE  OperatorInv'
    BY <1>13 DEF FileFails, Fault
<1>14. ASSUME NEW p \in Pods, LoadFiles(p)
      PROVE  OperatorInv'
    BY <1>14 DEF LoadFiles
<1>15. ASSUME NEW p \in Pods, NEW o \in Operators, OpenStream(p, o)
      PROVE  OperatorInv'
    BY <1>15 DEF OpenStream
<1>16. ASSUME NEW p \in Pods, DialFails(p)
      PROVE  OperatorInv'
    BY <1>16 DEF DialFails, Fault, NoFault
<1>17. ASSUME NEW p \in Pods, StreamBreaks(p)
      PROVE  OperatorInv'
    BY <1>17 DEF StreamBreaks, Fault, NoFault
<1>18. ASSUME NEW p \in Pods, Retry(p)
      PROVE  OperatorInv'
    BY <1>18 DEF Retry
<1>19. ASSUME NEW p \in Pods, ContainerRestart(p)
      PROVE  OperatorInv'
    BY <1>19 DEF ContainerRestart, Restarted, Fault
<1>20. ASSUME NEW p \in Pods, PodReplaced(p)
      PROVE  OperatorInv'
    BY <1>20 DEF PodReplaced, Restarted, Fault
<1>21. ASSUME NEW p \in Pods, CertExpires(p)
      PROVE  OperatorInv'
    BY <1>21 DEF CertExpires
<1>22. CASE UNCHANGED vars
    BY <1>22 DEF vars
<1> QED
    BY <1>1, <1>2, <1>3, <1>4, <1>5, <1>6, <1>7, <1>8, <1>9, <1>10, <1>11,
       <1>12, <1>13, <1>14, <1>15, <1>16, <1>17, <1>18, <1>19, <1>20, <1>21, <1>22
       DEF Next, OperatorStep, PodStep

(* Every step keeps the files of every container in order. *)
LEMMA NextFilesInv ==
    EnrollmentInv /\ [Next]_vars => FilesInv'
<1> SUFFICES ASSUME EnrollmentInv, [Next]_vars PROVE FilesInv'
    OBVIOUS
<1> USE DEF EnrollmentInv, TypeOK, FilesInv, FilesFit, operatorVars, podVars, Missing
<1>1. ASSUME NEW o \in Operators, LoadCA(o)
      PROVE  FilesInv'
    BY <1>1 DEF LoadCA
<1>2. ASSUME NEW o \in Operators, GenerateCA(o)
      PROVE  FilesInv'
    BY <1>2 DEF GenerateCA
<1>3. ASSUME NEW o \in Operators, CreateSecret(o)
      PROVE  FilesInv'
    <2> SUFFICES ASSUME NEW q \in Pods PROVE FilesFit(q)'
        BY DEF FilesInv
    <2>1. secret = Absent /\ secret' = ca[o] /\ UNCHANGED disk
        BY <1>3 DEF CreateSecret
    <2>2. FilesFit(q)
        BY DEF FilesInv
    <2>3. disk[q]["cert"] \notin Cert
        BY <2>1, <2>2 DEF Cert
    <2> QED
        BY <2>1, <2>2, <2>3
<1>4. ASSUME NEW o \in Operators, SecretExists(o)
      PROVE  FilesInv'
    BY <1>4 DEF SecretExists
<1>5. ASSUME NEW o \in Operators, OperatorCrash(o)
      PROVE  FilesInv'
    BY <1>5 DEF OperatorCrash, Fault
<1>6. ASSUME NEW e \in Engines, (CreateEngine(e) \/ DeleteEngine(e))
      PROVE  FilesInv'
    <2>1. CASE CreateEngine(e)
        BY <2>1, SMTT(30) DEF CreateEngine
    <2>2. CASE DeleteEngine(e)
        BY <2>2, SMTT(30) DEF DeleteEngine
    <2> QED
        BY <1>6, <2>1, <2>2
<1>7. ASSUME NEW p \in Pods, SkipEnrollment(p)
      PROVE  FilesInv'
    BY <1>7 DEF SkipEnrollment
<1>8. ASSUME NEW p \in Pods, StartEnrollment(p)
      PROVE  FilesInv'
    BY <1>8 DEF StartEnrollment
<1>9. ASSUME NEW p \in Pods, NEW o \in Operators, Enroll(p, o)
      PROVE  FilesInv'
    BY <1>9 DEF Enroll, Admits
<1>10. ASSUME NEW p \in Pods, EnrollFails(p)
      PROVE  FilesInv'
    BY <1>10 DEF EnrollFails, Fault, NoFault
<1>11. ASSUME NEW p \in Pods, OpenFile(p)
      PROVE  FilesInv'
    <2> SUFFICES ASSUME NEW q \in Pods PROVE FilesFit(q)'
        BY DEF FilesInv
    <2> DEFINE f == WriteOrder[file[p]]
    <2>1. disk' = [disk EXCEPT ![p][f] = Torn] /\ UNCHANGED secret /\ pc[p] = "open"
        BY <1>11 DEF OpenFile
    <2>2. FilesFit(q) /\ Enrolling(p)
        BY DEF FilesInv, EnrollingInv
    <2>3. CASE q # p
        BY <2>1, <2>2, <2>3
    <2>4. CASE q = p
        <3>1. disk[p]["ca"] = Absent
            BY <2>1, <2>2 DEF Enrolling
        <3>2. file[p] \in {1, 2} => f \in {"cert", "key"}
            BY WriteOrderFiles
        <3>3. file[p] = 3 =>
                 f = "ca" /\ disk[p]["cert"] \in Cert /\ disk[p]["key"] = disk[p]["cert"].key
            BY <2>1, <2>2, WriteOrderFiles, SMTT(30) DEF Enrolling, Writing
        <3>4. file[p] \in {1, 2, 3}
            BY SMTT(30)
        <3>5. disk'[p] = [disk[p] EXCEPT ![f] = Torn] /\ disk[p] \in [Files -> Content \cup {Absent, Torn}]
            BY <2>1
        <3> HIDE DEF f
        <3> QED
            BY <2>1, <2>2, <2>4, <3>1, <3>2, <3>3, <3>4, <3>5
    <2> QED
        BY <2>3, <2>4
<1>12. ASSUME NEW p \in Pods, WriteFile(p)
      PROVE  FilesInv'
    <2> SUFFICES ASSUME NEW q \in Pods PROVE FilesFit(q)'
        BY DEF FilesInv
    <2> DEFINE f == WriteOrder[file[p]]
    <2>1. disk' = [disk EXCEPT ![p][f] = mem[p][f]] /\ UNCHANGED secret /\ pc[p] = "write"
        BY <1>12 DEF WriteFile
    <2>2. FilesFit(q) /\ Enrolling(p)
        BY DEF FilesInv, EnrollingInv
    <2>3. CASE q # p
        BY <2>1, <2>2, <2>3
    <2>4. CASE q = p
        <3>1. Response(p) /\ mem[p]["key"] \in KeyPairs
            BY <2>1, <2>2 DEF Enrolling, Writing
        <3>2. /\ mem[p]["cert"] \in Cert /\ mem[p]["ca"] = secret
              /\ mem[p]["cert"].issuer = secret /\ mem[p]["cert"].cn = Config[p]
              /\ Account[p] = Config[p]
            BY <3>1, SMTT(30) DEF Response, Cert
        <3>3. file[p] < 3 => disk[p]["ca"] = Absent
            BY <2>1, <2>2 DEF Enrolling
        <3>4. file[p] = 3 =>
                 f = "ca" /\ disk[p]["cert"] \in Cert /\ disk[p]["key"] = disk[p]["cert"].key
            BY <2>1, <2>2, WriteOrderFiles, SMTT(30) DEF Enrolling, Writing
        <3>5. file[p] = 1 => f = "cert"
            BY WriteOrderFiles
        <3>6. file[p] = 2 => f = "key"
            BY WriteOrderFiles
        <3>7. /\ disk'[p] = [disk[p] EXCEPT ![f] = mem[p][f]]
              /\ disk[p] \in [Files -> Content \cup {Absent, Torn}]
              /\ file[p] \in 1..3
            BY <2>1
        <3> HIDE DEF f
        <3> QED
            BY <2>1, <2>2, <2>4, <3>1, <3>2, <3>3, <3>4, <3>5, <3>6, <3>7, SMTT(30)
    <2> QED
        BY <2>3, <2>4
<1>13. ASSUME NEW p \in Pods, FileFails(p)
      PROVE  FilesInv'
    BY <1>13 DEF FileFails, Fault
<1>14. ASSUME NEW p \in Pods, LoadFiles(p)
      PROVE  FilesInv'
    BY <1>14 DEF LoadFiles
<1>15. ASSUME NEW p \in Pods, NEW o \in Operators, OpenStream(p, o)
      PROVE  FilesInv'
    BY <1>15 DEF OpenStream
<1>16. ASSUME NEW p \in Pods, DialFails(p)
      PROVE  FilesInv'
    BY <1>16 DEF DialFails, Fault, NoFault
<1>17. ASSUME NEW p \in Pods, StreamBreaks(p)
      PROVE  FilesInv'
    BY <1>17 DEF StreamBreaks, Fault, NoFault
<1>18. ASSUME NEW p \in Pods, Retry(p)
      PROVE  FilesInv'
    BY <1>18 DEF Retry
<1>19. ASSUME NEW p \in Pods, ContainerRestart(p)
      PROVE  FilesInv'
    BY <1>19 DEF ContainerRestart, Restarted, Fault
<1>20. ASSUME NEW p \in Pods, PodReplaced(p)
      PROVE  FilesInv'
    BY <1>20 DEF PodReplaced, Restarted, Fault
<1>21. ASSUME NEW p \in Pods, CertExpires(p)
      PROVE  FilesInv'
    <2> SUFFICES ASSUME NEW q \in Pods PROVE FilesFit(q)'
        BY DEF FilesInv
    <2>1. /\ disk[p]["cert"] \in Cert
          /\ disk' = [disk EXCEPT ![p]["cert"] = Expired(disk[p]["cert"])]
          /\ UNCHANGED secret
        BY <1>21 DEF CertExpires
    <2> QED
        BY <2>1, ExpiredCert, SMTT(30)
<1>22. CASE UNCHANGED vars
    BY <1>22 DEF vars
<1> QED
    BY <1>1, <1>2, <1>3, <1>4, <1>5, <1>6, <1>7, <1>8, <1>9, <1>10, <1>11,
       <1>12, <1>13, <1>14, <1>15, <1>16, <1>17, <1>18, <1>19, <1>20, <1>21, <1>22
       DEF Next, OperatorStep, PodStep

(* Every step keeps what ensureEnrolled has in work, and the certificate of a *)
(* container that is past it. *)
LEMMA NextEnrollingInv ==
    EnrollmentInv /\ [Next]_vars => EnrollingInv'
<1> SUFFICES ASSUME EnrollmentInv, [Next]_vars PROVE EnrollingInv'
    OBVIOUS
<1> USE DEF EnrollmentInv, TypeOK, EnrollingInv, Enrolling, Response, operatorVars, podVars, Writing, Missing, Goto
<1>1. ASSUME NEW o \in Operators, LoadCA(o)
      PROVE  EnrollingInv'
    BY <1>1 DEF LoadCA
<1>2. ASSUME NEW o \in Operators, GenerateCA(o)
      PROVE  EnrollingInv'
    BY <1>2 DEF GenerateCA
<1>3. ASSUME NEW o \in Operators, CreateSecret(o)
      PROVE  EnrollingInv'
    BY <1>3 DEF CreateSecret
<1>4. ASSUME NEW o \in Operators, SecretExists(o)
      PROVE  EnrollingInv'
    BY <1>4 DEF SecretExists
<1>5. ASSUME NEW o \in Operators, OperatorCrash(o)
      PROVE  EnrollingInv'
    BY <1>5 DEF OperatorCrash, Fault
<1>6. ASSUME NEW e \in Engines, (CreateEngine(e) \/ DeleteEngine(e))
      PROVE  EnrollingInv'
    <2>1. CASE CreateEngine(e)
        BY <2>1, SMTT(30) DEF CreateEngine
    <2>2. CASE DeleteEngine(e)
        BY <2>2, SMTT(30) DEF DeleteEngine
    <2> QED
        BY <1>6, <2>1, <2>2
<1>7. ASSUME NEW p \in Pods, SkipEnrollment(p)
      PROVE  EnrollingInv'
    BY <1>7 DEF SkipEnrollment
<1>8. ASSUME NEW p \in Pods, StartEnrollment(p)
      PROVE  EnrollingInv'
    <2> SUFFICES ASSUME NEW q \in Pods PROVE Enrolling(q)'
        BY DEF EnrollingInv
    <2>1. disk[p]["ca"] = Absent
        <3>1. FilesFit(p) /\ ~AllExist(p)
            BY <1>8 DEF StartEnrollment, FilesInv
        <3>2. disk[p]["ca"] # Absent => disk[p]["cert"] \in Cert /\ disk[p]["key"] \in KeyPairs
            BY <3>1 DEF FilesFit, Cert
        <3> QED
            BY <3>1, <3>2 DEF AllExist, FileExists
    <2>2. PICK k \in KeyPairs : mem' = [mem EXCEPT ![p] = [Missing EXCEPT !["key"] = k]]
        BY <1>8 DEF StartEnrollment
    <2>3. mem'[p]["key"] = k
        BY <2>2
    <2>4. pc' = [pc EXCEPT ![p] = "enroll"] /\ UNCHANGED <<secret, disk, file>>
        BY <1>8 DEF StartEnrollment
    <2>5. CASE q = p
        BY <2>1, <2>3, <2>4, <2>5
    <2>6. CASE q # p
        BY <2>2, <2>4, <2>6
    <2> QED
        BY <2>5, <2>6
<1>9. ASSUME NEW p \in Pods, NEW o \in Operators, Enroll(p, o)
      PROVE  EnrollingInv'
    <2> SUFFICES ASSUME NEW q \in Pods PROVE Enrolling(q)'
        BY DEF EnrollingInv
    <2>1. ca[o] = secret /\ secret \in CAs
        BY <1>9 DEF Enroll, Admits, OperatorInv
    <2>2. mem[p]["key"] \in KeyPairs
        BY <1>9 DEF Enroll, EnrollingInv, Enrolling
    <2> DEFINE c == [cn |-> Config[p], issuer |-> ca[o], key |-> mem[p]["key"], expired |-> FALSE]
    <2>3. mem' = [mem EXCEPT ![p] = [[mem[p] EXCEPT !["cert"] = c] EXCEPT !["ca"] = ca[o]]]
        BY <1>9 DEF Enroll
    <2>4. /\ pc[p] = "enroll" /\ pc' = [pc EXCEPT ![p] = "open"]
          /\ file' = [file EXCEPT ![p] = 1] /\ UNCHANGED <<secret, disk>>
          /\ Account[p] = Config[p]
        BY <1>9 DEF Enroll, Admits
    <2>5. CASE q # p
        <3> HIDE DEF c
        <3> QED
            BY <2>3, <2>4, <2>5
    <2>6. CASE q = p
        <3>1. mem'[p]["cert"] = c /\ mem'[p]["key"] = mem[p]["key"] /\ mem'[p]["ca"] = ca[o]
            <4> HIDE DEF c
            <4> QED
                BY <2>3, SMTT(30)
        <3> QED
            BY <2>1, <2>2, <2>4, <2>6, <3>1, SMTT(30)
    <2> QED
        BY <2>5, <2>6
<1>10. ASSUME NEW p \in Pods, EnrollFails(p)
      PROVE  EnrollingInv'
    BY <1>10 DEF EnrollFails, Fault, NoFault
<1>11. ASSUME NEW p \in Pods, OpenFile(p)
      PROVE  EnrollingInv'
    <2> SUFFICES ASSUME NEW q \in Pods PROVE Enrolling(q)'
        BY DEF EnrollingInv
    <2> DEFINE f == WriteOrder[file[p]]
    <2>1. /\ disk' = [disk EXCEPT ![p][f] = Torn] /\ UNCHANGED <<secret, mem, file>>
          /\ pc[p] = "open" /\ pc' = [pc EXCEPT ![p] = "write"]
        BY <1>11 DEF OpenFile
    <2>2. /\ file[p] = 1 => f = "cert"
          /\ file[p] = 2 => f = "key"
          /\ file[p] = 3 => f = "ca"
          /\ file[p] \in {1, 2, 3}
        BY WriteOrderFiles, SMTT(30)
    <2> HIDE DEF f
    <2> QED
        BY <2>1, <2>2, SMTT(30)
<1>12. ASSUME NEW p \in Pods, WriteFile(p)
      PROVE  EnrollingInv'
    <2> SUFFICES ASSUME NEW q \in Pods PROVE Enrolling(q)'
        BY DEF EnrollingInv
    <2> DEFINE f == WriteOrder[file[p]]
    <2>1. disk' = [disk EXCEPT ![p][f] = mem[p][f]] /\ UNCHANGED secret /\ pc[p] = "write"
        BY <1>12 DEF WriteFile
    <2>2. /\ file[p] = 1 => f = "cert"
          /\ file[p] = 2 => f = "key"
          /\ file[p] \in {1, 2, 3}
        BY WriteOrderFiles, SMTT(30)
    <2>3. Writing(p) /\ Enrolling(p) /\ mem[p]["cert"] \in Cert
        <3>1. Writing(p) /\ Enrolling(p)
            BY <2>1
        <3>2. Response(p) /\ mem[p]["key"] \in KeyPairs
            BY <3>1
        <3> QED
            BY <3>1, <3>2, SMTT(30) DEF Cert
    <2>4. CASE q # p
        BY <1>12, <2>4, SMTT(30) DEF WriteFile
    <2>5. CASE q = p /\ file[p] = 3
        BY <1>12, <2>5, SMTT(30) DEF WriteFile
    <2>6. CASE q = p /\ file[p] # 3
        <3>1. /\ file' = [file EXCEPT ![p] = file[p] + 1]
              /\ pc' = [pc EXCEPT ![p] = "open"]
              /\ UNCHANGED mem
            BY <1>12, <2>6, SMTT(30) DEF WriteFile
        <3>2. f \in {"cert", "key"} /\ disk'[p]["ca"] = Absent
            BY <2>1, <2>2, <2>3, <2>6, SMTT(30)
        <3>3. file[p] = 1 => disk'[p]["cert"] = mem[p]["cert"]
            BY <2>1, <2>2, SMTT(30)
        <3>4. file[p] = 2 => disk'[p]["cert"] = disk[p]["cert"] /\ disk'[p]["key"] = mem[p]["key"]
            BY <2>1, <2>2, SMTT(30)
        <3>5. mem[p]["cert"].key = mem[p]["key"]
            BY <2>3, SMTT(30)
        <3>6. Response(p)' /\ mem'[p]["key"] \in KeyPairs /\ Writing(p)' /\ pc'[p] = "open"
            BY <2>1, <2>3, <3>1
        <3>7. file'[p] = file[p] + 1 /\ file[p] \in {1, 2}
            BY <2>2, <2>6, <3>1
        <3> HIDE DEF Response, Writing, f
        <3> QED
            BY <2>3, <2>6, <3>1, <3>2, <3>3, <3>4, <3>5, <3>6, <3>7, SMTT(30)
    <2> QED
        BY <2>4, <2>5, <2>6
<1>13. ASSUME NEW p \in Pods, FileFails(p)
      PROVE  EnrollingInv'
    BY <1>13 DEF FileFails, Fault
<1>14. ASSUME NEW p \in Pods, LoadFiles(p)
      PROVE  EnrollingInv'
    <2> SUFFICES ASSUME NEW q \in Pods PROVE Enrolling(q)'
        BY DEF EnrollingInv
    <2>1. /\ pc[p] = "load" /\ UNCHANGED <<secret, disk, mem, file>>
          /\ pc' = [pc EXCEPT ![p] = IF Loadable(p) THEN "dial" ELSE "backoff"]
        BY <1>14 DEF LoadFiles
    <2>2. Loadable(p) => disk[p]["cert"] \in Cert
        BY DEF Loadable
    <2> HIDE DEF Loadable
    <2> QED
        BY <2>1, <2>2
<1>15. ASSUME NEW p \in Pods, NEW o \in Operators, OpenStream(p, o)
      PROVE  EnrollingInv'
    BY <1>15 DEF OpenStream
<1>16. ASSUME NEW p \in Pods, DialFails(p)
      PROVE  EnrollingInv'
    BY <1>16 DEF DialFails, Fault, NoFault
<1>17. ASSUME NEW p \in Pods, StreamBreaks(p)
      PROVE  EnrollingInv'
    BY <1>17 DEF StreamBreaks, Fault, NoFault
<1>18. ASSUME NEW p \in Pods, Retry(p)
      PROVE  EnrollingInv'
    BY <1>18 DEF Retry
<1>19. ASSUME NEW p \in Pods, ContainerRestart(p)
      PROVE  EnrollingInv'
    BY <1>19 DEF ContainerRestart, Restarted, Fault
<1>20. ASSUME NEW p \in Pods, PodReplaced(p)
      PROVE  EnrollingInv'
    BY <1>20 DEF PodReplaced, Restarted, Fault
<1>21. ASSUME NEW p \in Pods, CertExpires(p)
      PROVE  EnrollingInv'
    <2> SUFFICES ASSUME NEW q \in Pods PROVE Enrolling(q)'
        BY DEF EnrollingInv
    <2>1. /\ disk[p]["cert"] \in Cert
          /\ disk' = [disk EXCEPT ![p]["cert"] = Expired(disk[p]["cert"])]
          /\ UNCHANGED <<secret, pc, mem, file>>
        BY <1>21 DEF CertExpires
    <2> QED
        BY <2>1, ExpiredCert, SMTT(30)
<1>22. CASE UNCHANGED vars
    BY <1>22 DEF vars
<1> QED
    BY <1>1, <1>2, <1>3, <1>4, <1>5, <1>6, <1>7, <1>8, <1>9, <1>10, <1>11,
       <1>12, <1>13, <1>14, <1>15, <1>16, <1>17, <1>18, <1>19, <1>20, <1>21, <1>22
       DEF Next, OperatorStep, PodStep

(* The start satisfies the invariant. *)
LEMMA InitEnrollmentInv == Init => EnrollmentInv
<1> SUFFICES ASSUME Init PROVE EnrollmentInv
    OBVIOUS
<1> USE DEF Init, Missing
<1>1. TypeOK
    BY SMTT(30) DEF TypeOK
<1>2. OperatorInv
    BY DEF OperatorInv
<1>3. FilesInv
    BY DEF FilesInv, FilesFit
<1>4. EnrollingInv
    BY DEF EnrollingInv, Enrolling, Writing
<1> QED
    BY <1>1, <1>2, <1>3, <1>4 DEF EnrollmentInv

(* The inductive invariant always holds. *)
THEOREM EnrollmentInvariant == Spec => []EnrollmentInv
<1>1. EnrollmentInv /\ [Next]_vars => EnrollmentInv'
    BY NextTypeOK, NextOperatorInv, NextFilesInv, NextEnrollingInv DEF EnrollmentInv
<1> QED
    BY InitEnrollmentInv, <1>1, PTL DEF Spec

(* Every variable keeps its type; no response in memory is torn (grpcclient.go *)
(* ensureEnrolled, ca.go LoadOrCreate). *)
THEOREM EnrollmentTypeOK == Spec => []TypeOK
<1>1. EnrollmentInv => TypeOK
    BY DEF EnrollmentInv
<1> QED
    BY <1>1, EnrollmentInvariant, PTL

(* Enrollment is all or nothing: files that make ensureEnrolled skip enrollment *)
(* hold a complete certificate and its key, after any crashes and failed writes. *)
THEOREM EnrollmentPairMatches == Spec => []PairMatches
<1>1. EnrollmentInv => PairMatches
    BY DEF EnrollmentInv, FilesInv, FilesFit, PairMatches, AllExist, FileExists
<1> QED
    BY <1>1, EnrollmentInvariant, PTL

(* Replicas, Secret and files agree on one CA, for any number of replicas that *)
(* race in LoadOrCreate. *)
THEOREM EnrollmentOneCA == Spec => []OneCA
<1>1. EnrollmentInv => OneCA
    BY DEF EnrollmentInv, OperatorInv, FilesInv, FilesFit, OneCA
<1> QED
    BY <1>1, EnrollmentInvariant, PTL

(* A stream is only ever open to a container under the engine's own service *)
(* account (Server.Enroll, verifyCertMatchesEngine). *)
THEOREM EnrollmentStreams == Spec => []StreamsToItsOwnEngine
<1>1. EnrollmentInv => StreamsToItsOwnEngine
    BY DEF EnrollmentInv, FilesInv, FilesFit, EnrollingInv, Enrolling, StreamsToItsOwnEngine
<1> QED
    BY <1>1, EnrollmentInvariant, PTL

(* Any serving replica accepts files that load and have not expired, whichever *)
(* replica signed them: a reconnect through the Service never depends on which *)
(* replica answers. *)
THEOREM EnrollmentAnyReplica == Spec => []AnyReplicaAccepts
<1>1. EnrollmentInv => AnyReplicaAccepts
    BY SMTT(30) DEF EnrollmentInv, OperatorInv, FilesInv, FilesFit, AnyReplicaAccepts, Loadable,
           Accepts, Handshake
<1> QED
    BY <1>1, EnrollmentInvariant, PTL
=============================================================================
