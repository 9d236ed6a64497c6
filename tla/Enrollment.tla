----------------------------- MODULE Enrollment -----------------------------
(***************************************************************************)
(* How an engine pod gets, keeps and uses its client certificate.          *)
(*                                                                         *)
(*  - the operator replicas bring up their CA from one Secret              *)
(*    (internal/pki/ca.go LoadOrCreate, cmd/main.go setupPKI) and serve    *)
(*    Enroll and Subscribe (internal/grpcserver);                          *)
(*  - the engine container checks its certificate files, enrolls, writes   *)
(*    them one by one, loads them, and subscribes                          *)
(*    (internal/enginepkg/grpcclient.go).                                  *)
(*                                                                         *)
(* A container may die between any two steps; its files survive, because   *)
(* they are on the pod's emptyDir. writeFile creates or truncates a file   *)
(* and then writes it, which are two steps.                                *)
(***************************************************************************)
EXTENDS Naturals

CONSTANTS
    Operators,   \* operator replicas
    Pods,        \* engine containers
    Engines,     \* engine identities, namespace/name
    Config,      \* Config[p]: the identity in the environment of p
    Account,     \* Account[p]: the engine whose service account p runs under
    CAs,         \* certificate authorities that can be generated
    KeyPairs,    \* key pairs a container can generate
    Absent,      \* a file that does not exist, a Secret not created, no server
    Torn,        \* a file that exists and whose content was not written
    MaxFaults    \* bound: crashes, failed writes and transport errors

Files == {"cert", "key", "ca"}
Cert == [cn : Engines, issuer : CAs, key : KeyPairs, expired : BOOLEAN]
Content == Cert \cup KeyPairs \cup CAs

ASSUME EnrollmentAssumption ==
    /\ Config \in [Pods -> Engines]
    /\ Account \in [Pods -> Engines]
    /\ MaxFaults \in Nat
    /\ Absent # Torn
    /\ {Absent, Torn} \cap (Content \cup Operators) = {}

VARIABLES
    secret,   \* the CA in the Secret coraza-operator-ca
    serving,  \* serving[o]: where the start of replica o is
    ca,       \* ca[o]: the CA replica o holds in memory
    crs,      \* the Engine resources that exist
    pc,       \* pc[p]: where SubscribeConfig of container p is
    disk,     \* disk[p]: the files client.crt, client.key and ca.crt
    mem,      \* mem[p]: the key pair and the Enroll response in memory
    file,     \* file[p]: index in WriteOrder of the file being written
    server,   \* server[p]: the replica the stream of p is open to
    faults    \* faults that have happened

operatorVars == <<secret, serving, ca>>
podVars == <<pc, disk, mem, file, server>>
vars == <<secret, serving, ca, crs, pc, disk, mem, file, server, faults>>

Missing == [f \in Files |-> Absent]

WriteCaFirst == <<"ca", "cert", "key">>
(* ensureEnrolled writes the certificate, then the key, and the CA last. *)
WriteOrder == <<"cert", "key", "ca">>

Goto(p, l) == pc' = [pc EXCEPT ![p] = l]
Fault == faults < MaxFaults /\ faults' = faults + 1
NoFault == UNCHANGED faults

Init ==
    /\ secret = Absent
    /\ serving = [o \in Operators |-> "down"]
    /\ ca = [o \in Operators |-> Absent]
    /\ crs = {}
    /\ pc = [p \in Pods |-> "check"]
    /\ disk = [p \in Pods |-> Missing]
    /\ mem = [p \in Pods |-> Missing]
    /\ file = [p \in Pods |-> 1]
    /\ server = [p \in Pods |-> Absent]
    /\ faults = 0

-----------------------------------------------------------------------------
(* Operator: LoadOrCreate, and the server that starts after it *)

(* The Secret exists: its CA is loaded and the gRPC server started with it. *)
LoadCA(o) ==
    /\ serving[o] = "down"
    /\ secret # Absent
    /\ ca' = [ca EXCEPT ![o] = secret]
    /\ serving' = [serving EXCEPT ![o] = "up"]
    /\ UNCHANGED <<secret, crs, podVars, faults>>

(* The Secret is not found: a CA is generated, and not yet stored. *)
GenerateCA(o) ==
    /\ serving[o] = "down"
    /\ secret = Absent
    /\ \E new \in CAs \ {ca[r] : r \in Operators} :
          ca' = [ca EXCEPT ![o] = new]
    /\ serving' = [serving EXCEPT ![o] = "creating"]
    /\ UNCHANGED <<secret, crs, podVars, faults>>

(* Create of the Secret succeeds. *)
CreateSecret(o) ==
    /\ serving[o] = "creating"
    /\ secret = Absent
    /\ secret' = ca[o]
    /\ serving' = [serving EXCEPT ![o] = "up"]
    /\ UNCHANGED <<ca, crs, podVars, faults>>

SecretExistsIgnored(o) ==
    /\ serving[o] = "creating"
    /\ secret # Absent
    /\ serving' = [serving EXCEPT ![o] = "up"]
    /\ UNCHANGED <<secret, ca, crs, podVars, faults>>

(* Another replica was faster: Create fails and the process exits. *)
SecretExists(o) ==
    /\ serving[o] = "creating"
    /\ secret # Absent
    /\ serving' = [serving EXCEPT ![o] = "down"]
    /\ ca' = [ca EXCEPT ![o] = Absent]
    /\ UNCHANGED <<secret, crs, podVars, faults>>

(* A replica dies. Its memory and its streams are gone, the Secret stays. *)
OperatorCrash(o) ==
    /\ serving[o] # "down"
    /\ Fault
    /\ serving' = [serving EXCEPT ![o] = "down"]
    /\ ca' = [ca EXCEPT ![o] = Absent]
    /\ server' = [p \in Pods |-> IF server[p] = o THEN Absent ELSE server[p]]
    /\ UNCHANGED <<secret, crs, pc, disk, mem, file>>

(* An Engine resource is created or deleted by a user. *)
CreateEngine(e) ==
    /\ e \notin crs
    /\ crs' = crs \cup {e}
    /\ UNCHANGED <<operatorVars, podVars, faults>>

DeleteEngine(e) ==
    /\ e \in crs
    /\ crs' = crs \ {e}
    /\ UNCHANGED <<operatorVars, podVars, faults>>

-----------------------------------------------------------------------------
(* Engine container: ensureEnrolled *)

FileExists(p, f) == disk[p][f] # Absent
AllExist(p) == \A f \in Files : FileExists(p, f)

(* All three files exist: enrollment is skipped, whatever is in them. *)
SkipEnrollment(p) ==
    /\ pc[p] = "check"
    /\ AllExist(p)
    /\ Goto(p, "load")
    /\ UNCHANGED <<operatorVars, crs, disk, mem, file, server, faults>>

(* A file is missing: a fresh key pair is generated for the CSR. *)
StartEnrollment(p) ==
    /\ pc[p] = "check"
    /\ ~AllExist(p)
    /\ \E k \in KeyPairs :
          /\ k # disk[p]["key"]
          /\ disk[p]["cert"] \in Cert => k # disk[p]["cert"].key
          /\ mem' = [mem EXCEPT ![p] = [Missing EXCEPT !["key"] = k]]
    /\ Goto(p, "enroll")
    /\ UNCHANGED <<operatorVars, crs, disk, file, server, faults>>

AdmitsAnyAccount(p, o) ==
    /\ serving[o] = "up"
    /\ Config[p] \in crs

(* The checks of Server.Enroll: the token's service account belongs to the *)
(* claimed engine, and the Engine resource exists.                         *)
Admits(p, o) ==
    /\ serving[o] = "up"
    /\ Account[p] = Config[p]
    /\ Config[p] \in crs

(* Server.Enroll signs the CSR's key under the claimed engine's name. *)
Enroll(p, o) ==
    /\ pc[p] = "enroll"
    /\ Admits(p, o)
    /\ mem' = [mem EXCEPT
          ![p]["cert"] = [cn |-> Config[p], issuer |-> ca[o],
                          key |-> mem[p]["key"], expired |-> FALSE],
          ![p]["ca"] = ca[o]]
    /\ file' = [file EXCEPT ![p] = 1]
    /\ Goto(p, "open")
    /\ UNCHANGED <<operatorVars, crs, disk, server, faults>>

(* Some replica refuses, no replica is up, or the RPC fails. *)
EnrollFails(p) ==
    /\ pc[p] = "enroll"
    /\ \/ \E o \in Operators : serving[o] = "up" /\ ~Admits(p, o) /\ NoFault
       \/ (\A o \in Operators : serving[o] # "up") /\ NoFault
       \/ Fault
    /\ mem' = [mem EXCEPT ![p] = Missing]
    /\ Goto(p, "backoff")
    /\ UNCHANGED <<operatorVars, crs, disk, file, server>>

(* writeFile, os.OpenFile: the file exists and is empty. *)
OpenFile(p) ==
    /\ pc[p] = "open"
    /\ disk' = [disk EXCEPT ![p][WriteOrder[file[p]]] = Torn]
    /\ Goto(p, "write")
    /\ UNCHANGED <<operatorVars, crs, mem, file, server, faults>>

WriteFileOffByOne(p) ==
    LET f == WriteOrder[file[p]] IN
    /\ pc[p] = "write"
    /\ disk' = [disk EXCEPT ![p][f] = mem[p][f]]
    /\ file' = [file EXCEPT ![p] = @ + 1]
    /\ Goto(p, IF file[p] <= 3 THEN "open" ELSE "load")
    /\ UNCHANGED <<operatorVars, crs, mem, server, faults>>

(* writeFile, f.Write and f.Close: the file has its content. *)
WriteFile(p) ==
    LET f == WriteOrder[file[p]] IN
    /\ pc[p] = "write"
    /\ disk' = [disk EXCEPT ![p][f] = mem[p][f]]
    /\ IF file[p] < 3
         THEN /\ file' = [file EXCEPT ![p] = @ + 1]
              /\ Goto(p, "open")
              /\ UNCHANGED mem
         ELSE /\ file' = [file EXCEPT ![p] = 1]
              /\ Goto(p, "load")
              /\ mem' = [mem EXCEPT ![p] = Missing]
    /\ UNCHANGED <<operatorVars, crs, server, faults>>

(* Opening or writing fails; what was opened stays as it is. *)
FileFails(p) ==
    /\ pc[p] \in {"open", "write"}
    /\ Fault
    /\ mem' = [mem EXCEPT ![p] = Missing]
    /\ file' = [file EXCEPT ![p] = 1]
    /\ Goto(p, "backoff")
    /\ UNCHANGED <<operatorVars, crs, disk, server>>

-----------------------------------------------------------------------------
(* Engine container: buildClientTLS and runStream *)

(* tls.LoadX509KeyPair and AppendCertsFromPEM succeed. *)
Loadable(p) ==
    /\ disk[p]["cert"] \in Cert
    /\ disk[p]["key"] = disk[p]["cert"].key
    /\ disk[p]["ca"] \in CAs

LoadFiles(p) ==
    /\ pc[p] = "load"
    /\ Goto(p, IF Loadable(p) THEN "dial" ELSE "backoff")
    /\ UNCHANGED <<operatorVars, crs, disk, mem, file, server, faults>>

(* Each side's certificate verifies against the CA the other side trusts. *)
Handshake(p, o) ==
    /\ serving[o] = "up"
    /\ disk[p]["ca"] = ca[o]
    /\ disk[p]["cert"].issuer = ca[o]
    /\ ~disk[p]["cert"].expired

(* verifyCertMatchesEngine finds the requested engine in the certificate. *)
Accepts(p, o) ==
    /\ Handshake(p, o)
    /\ disk[p]["cert"].cn = Config[p]

(* The stream is open: SubscribeConfig receives until it breaks. *)
OpenStream(p, o) ==
    /\ pc[p] = "dial"
    /\ Accepts(p, o)
    /\ server' = [server EXCEPT ![p] = o]
    /\ Goto(p, "stream")
    /\ UNCHANGED <<operatorVars, crs, disk, mem, file, faults>>

DialFails(p) ==
    /\ pc[p] = "dial"
    /\ \/ \E o \in Operators : serving[o] = "up" /\ ~Accepts(p, o) /\ NoFault
       \/ (\A o \in Operators : serving[o] # "up") /\ NoFault
       \/ Fault
    /\ Goto(p, "backoff")
    /\ UNCHANGED <<operatorVars, crs, disk, mem, file, server>>

(* stream.Recv returns an error: the replica died, or the transport did. *)
StreamBreaks(p) ==
    /\ pc[p] = "stream"
    /\ IF server[p] = Absent THEN NoFault ELSE Fault
    /\ server' = [server EXCEPT ![p] = Absent]
    /\ Goto(p, "backoff")
    /\ UNCHANGED <<operatorVars, crs, disk, mem, file>>

RetryWithoutCheck(p) ==
    /\ pc[p] = "backoff"
    /\ Goto(p, "load")
    /\ UNCHANGED <<operatorVars, crs, disk, mem, file, server, faults>>

(* time.After(backoff): the loop starts again. *)
Retry(p) ==
    /\ pc[p] = "backoff"
    /\ Goto(p, "check")
    /\ UNCHANGED <<operatorVars, crs, disk, mem, file, server, faults>>

-----------------------------------------------------------------------------
(* Environment of the container *)

Restarted(p) ==
    /\ Fault
    /\ mem' = [mem EXCEPT ![p] = Missing]
    /\ file' = [file EXCEPT ![p] = 1]
    /\ server' = [server EXCEPT ![p] = Absent]
    /\ Goto(p, "check")
    /\ UNCHANGED <<operatorVars, crs>>

(* The container dies and is started again on the same emptyDir. *)
ContainerRestart(p) == Restarted(p) /\ UNCHANGED disk

(* The pod is replaced: its emptyDir is gone with it. *)
PodReplaced(p) == Restarted(p) /\ disk' = [disk EXCEPT ![p] = Missing]

(* 90 days pass: the certificate is past its NotAfter. *)
Expired(c) == [cn |-> c.cn, issuer |-> c.issuer, key |-> c.key, expired |-> TRUE]

CertExpires(p) ==
    /\ disk[p]["cert"] \in Cert
    /\ ~disk[p]["cert"].expired
    /\ disk' = [disk EXCEPT ![p]["cert"] = Expired(@)]
    /\ UNCHANGED <<operatorVars, crs, pc, mem, file, server, faults>>

-----------------------------------------------------------------------------
OperatorStep(o) == LoadCA(o) \/ GenerateCA(o) \/ CreateSecret(o) \/ SecretExists(o)

PodStep(p) ==
    \/ SkipEnrollment(p) \/ StartEnrollment(p)
    \/ \E o \in Operators : Enroll(p, o)
    \/ EnrollFails(p)
    \/ OpenFile(p) \/ WriteFile(p)
    \/ LoadFiles(p)
    \/ \E o \in Operators : OpenStream(p, o)
    \/ DialFails(p)
    \/ Retry(p)

Next ==
    \/ \E o \in Operators : OperatorStep(o) \/ OperatorCrash(o)
    \/ \E e \in Engines : CreateEngine(e) \/ DeleteEngine(e)
    \/ \E p \in Pods : PodStep(p)
    \/ \E p \in Pods : FileFails(p) \/ StreamBreaks(p) \/ ContainerRestart(p)
                          \/ PodReplaced(p) \/ CertExpires(p)

(* Processes run: replicas start, the subscriber loop goes on, and a broken *)
(* stream is noticed. Users, faults and the calendar owe nothing.           *)
Fairness ==
    /\ \A o \in Operators : WF_vars(OperatorStep(o))
    /\ \A p \in Pods : WF_vars(PodStep(p))
    /\ \A p \in Pods : WF_vars(server[p] = Absent /\ StreamBreaks(p))

Spec == Init /\ [][Next]_vars
FairSpec == Spec /\ Fairness

-----------------------------------------------------------------------------
(* Every variable keeps its type: in particular the file being written is one   *)
(* of the three of ensureEnrolled, and no file in memory is a torn one.         *)
TypeOK ==
    /\ secret \in CAs \cup {Absent}
    /\ serving \in [Operators -> {"down", "creating", "up"}]
    /\ ca \in [Operators -> CAs \cup {Absent}]
    /\ crs \subseteq Engines
    /\ pc \in [Pods -> {"check", "enroll", "open", "write", "load", "dial",
                        "stream", "backoff"}]
    /\ disk \in [Pods -> [Files -> Content \cup {Absent, Torn}]]
    /\ mem \in [Pods -> [Files -> Content \cup {Absent}]]
    /\ file \in [Pods -> 1..3]
    /\ server \in [Pods -> Operators \cup {Absent}]
    /\ faults \in 0..MaxFaults

(* Enrollment is all or nothing: when the files that make ensureEnrolled skip   *)
(* enrollment are there, the certificate and the key in them are complete and   *)
(* belong together, wherever the container died or a write failed before.       *)
PairMatches ==
    \A p \in Pods : AllExist(p) =>
        disk[p]["cert"] \in Cert /\ disk[p]["key"] = disk[p]["cert"].key

(* All replicas that serve, the Secret, and every complete file a container     *)
(* holds agree on one CA, although the replicas race to create it and any of    *)
(* them may answer Enroll or Subscribe.                                         *)
OneCA ==
    /\ \A o \in Operators : serving[o] = "up" => ca[o] = secret
    /\ \A p \in Pods :
          /\ disk[p]["ca"] \in CAs => disk[p]["ca"] = secret
          /\ disk[p]["cert"] \in Cert => disk[p]["cert"].issuer = secret

(* A stream of bundles for an engine is only ever open to a container that      *)
(* runs under that engine's service account (Server.Enroll, step 2, and         *)
(* verifyCertMatchesEngine).                                                    *)
StreamsToItsOwnEngine ==
    \A p \in Pods : pc[p] = "stream" => Account[p] = Config[p]

(* A replica that creates the CA has generated one, and one that serves holds   *)
(* the CA of the Secret (LoadOrCreate).                                         *)
OperatorInv ==
    \A o \in Operators :
        /\ serving[o] = "creating" => ca[o] \in CAs
        /\ serving[o] = "up" => ca[o] = secret /\ secret \in CAs

(* A certificate on disk is the container's own; the CA file, which is written  *)
(* last, is there only beside a certificate and its key.                        *)
FilesFit(p) ==
    LET cert == disk[p]["cert"] IN
    /\ cert \in Cert \cup {Absent, Torn}
    /\ disk[p]["key"] \in KeyPairs \cup {Absent, Torn}
    /\ disk[p]["ca"] \in {secret, Absent, Torn}
    /\ cert \in Cert => cert.issuer = secret /\ cert.cn = Config[p] /\ Account[p] = Config[p]
    /\ disk[p]["ca"] # Absent => cert \in Cert /\ disk[p]["key"] = cert.key

FilesInv == \A p \in Pods : FilesFit(p)

(* While ensureEnrolled runs, the response in memory is for the key pair in     *)
(* memory, the files before the one in work have it already, and there is no CA *)
(* file before its turn. Afterwards the certificate is there.                   *)
Writing(p) == pc[p] \in {"open", "write"}

Response(p) ==
    /\ mem[p]["cert"] = [cn |-> Config[p], issuer |-> secret,
                         key |-> mem[p]["key"], expired |-> FALSE]
    /\ mem[p]["ca"] = secret /\ secret \in CAs
    /\ Account[p] = Config[p]

Enrolling(p) ==
    /\ pc[p] = "enroll" \/ Writing(p) => mem[p]["key"] \in KeyPairs
    /\ pc[p] \in {"enroll", "open"} \/ (pc[p] = "write" /\ file[p] < 3) =>
          disk[p]["ca"] = Absent
    /\ Writing(p) => Response(p)
    /\ Writing(p) /\ file[p] > 1 =>
          disk[p]["cert"] \in Cert /\ disk[p]["cert"].key = mem[p]["key"]
    /\ Writing(p) /\ file[p] > 2 => disk[p]["key"] = mem[p]["key"]
    /\ pc[p] \in {"dial", "stream"} => disk[p]["cert"] \in Cert

EnrollingInv == \A p \in Pods : Enrolling(p)

(* The inductive invariant of the proofs. *)
EnrollmentInv == TypeOK /\ OperatorInv /\ FilesInv /\ EnrollingInv

(* Any replica that serves accepts a container whose files load and have not    *)
(* expired, whichever replica signed them (Server.Enroll, the handshake and     *)
(* verifyCertMatchesEngine).                                                    *)
AnyReplicaAccepts ==
    \A p \in Pods, o \in Operators :
        serving[o] = "up" /\ Loadable(p) /\ ~disk[p]["cert"].expired => Accepts(p, o)

(* Once faults have stopped and its Engine stays, a container whose files are   *)
(* neither torn at the CA nor expired gets a stream and keeps it.               *)
Recovers ==
    \A p \in Pods :
        /\ Account[p] = Config[p]
        /\ <>[](Config[p] \in crs)
        /\ [](disk[p]["ca"] # Torn \/ pc[p] = "write")
        /\ [](disk[p]["cert"] \in Cert => ~disk[p]["cert"].expired)
        => <>[](pc[p] = "stream")

(* grpcclient.go, ensureEnrolled: it "checks whether a valid client cert        *)
(* already exists on disk. If not, it performs the Enroll RPC".                 *)
InvalidCertReenrolls ==
    \A p \in Pods :
        pc[p] = "check" /\ ~(Loadable(p) /\ ~disk[p]["cert"].expired)
            ~> pc[p] = "enroll"
=============================================================================
