---------------------------- MODULE EngineReload ----------------------------
(***************************************************************************)
(* The rules inside one engine process, over its restarts.                 *)
(*                                                                         *)
(* Run (internal/enginepkg/server.go) builds the first WAF from the rule   *)
(* file, a ConfigMap mount the kubelet keeps up to date. The subscriber    *)
(* goroutine calls the bundle handler for every bundle received: Swap      *)
(* (provider.go) parses it and replaces first the WAF and then the state,  *)
(* and the handler then moves the metrics and rewrites the bundle cache.   *)
(* Requests and /-/status are served by other goroutines meanwhile, and    *)
(* the container may be killed at any step. The cache is on an emptyDir    *)
(* and survives a restart of the container.                                *)
(***************************************************************************)
EXTENDS Naturals

CONSTANTS
    Bundles,      \* SecLang texts
    Bad,          \* the texts coraza.NewWAF does not parse
    Rules,        \* Rules[b]: the directives CountRules finds in text b
    Clients,      \* clients that read /-/status and then send requests
    CachePath,    \* BundleCachePath is not empty
    Absent,       \* a file that does not exist
    Torn,         \* a file created and not completely written
    MaxReceived   \* bound: bundles received by one process

ASSUME ReloadAssumption ==
    /\ Bad \subseteq Bundles
    /\ Rules \in [Bundles -> Nat]
    /\ CachePath \in BOOLEAN
    /\ MaxReceived \in Nat
    /\ Absent # Torn
    /\ {Absent, Torn} \cap Bundles = {}

VARIABLES
    ruleFile,   \* the mounted rules.conf
    cache,      \* the bundle cache file
    tmp,        \* its temporary file
    pc,         \* where the process is
    got,        \* the bundle the handler works on, or the last one it handled
    waf,        \* AtomicProvider.waf
    state,      \* AtomicProvider.state
    gauge,      \* the metric wafCurrentRules
    newest,     \* history: what should be active once got has been handled
    known       \* known[c]: the version client c read from /-/status

files == <<ruleFile, cache, tmp>>
memory == <<got, waf, state, gauge, newest>>
vars == <<files, pc, memory, known>>

(* A version is a text and its place in the order received; 0 is the boot. *)
Version == [n : 0..MaxReceived, text : Bundles]
Good == Bundles \ Bad

NewState(v, count, failed) ==
    [version |-> v, ruleCount |-> count, lastError |-> failed]

Init ==
    /\ ruleFile \in Bundles
    /\ cache = Absent
    /\ tmp = Absent
    /\ pc = "down"
    /\ got = [n |-> 0, text |-> ruleFile]
    /\ waf = got
    /\ state = NewState(got, 0, FALSE)
    /\ gauge = 0
    /\ newest = got
    /\ known = [c \in Clients |-> 0]

-----------------------------------------------------------------------------
(* Run: loadInitialWAF and the start of the servers. A rule file that does *)
(* not parse ends the process, which is then as down as before.            *)
Start ==
    LET boot == [n |-> 0, text |-> ruleFile] IN
    /\ pc = "down"
    /\ ruleFile \in Good
    /\ got' = boot
    /\ waf' = boot
    /\ state' = NewState(boot, 0, FALSE)
    /\ gauge' = Rules[ruleFile]
    /\ newest' = boot
    /\ pc' = "recv"
    /\ UNCHANGED <<files, known>>

(* The container is killed: what clients were told is void. *)
Kill ==
    /\ pc # "down"
    /\ pc' = "down"
    /\ known' = [c \in Clients |-> 0]
    /\ UNCHANGED <<files, memory>>

(* The kubelet updates the mounted ConfigMap. *)
Remount(text) ==
    /\ ruleFile' = text
    /\ UNCHANGED <<cache, tmp, pc, memory, known>>

(* runStream hands a bundle to the handler. *)
Receive(text) ==
    LET v == [n |-> got.n + 1, text |-> text] IN
    /\ pc = "recv"
    /\ got.n < MaxReceived
    /\ got' = v
    /\ newest' = IF text \in Good THEN v ELSE newest
    /\ pc' = "swap"
    /\ UNCHANGED <<files, waf, state, gauge, known>>

SwapFailsForgets ==
    /\ pc = "swap"
    /\ got.text \in Bad
    /\ state' = NewState(Absent, 0, TRUE)
    /\ pc' = "recv"
    /\ UNCHANGED <<files, got, waf, gauge, newest, known>>

SwapFailsToBoot ==
    /\ pc = "swap"
    /\ got.text \in Bad
    /\ waf' = [n |-> 0, text |-> ruleFile]
    /\ state' = NewState(state.version, state.ruleCount, TRUE)
    /\ pc' = "recv"
    /\ UNCHANGED <<files, got, gauge, newest, known>>

(* Swap: the bundle does not parse. The WAF stays, the error is recorded. *)
SwapFails ==
    /\ pc = "swap"
    /\ got.text \in Bad
    /\ state' = NewState(state.version, state.ruleCount, TRUE)
    /\ pc' = "recv"
    /\ UNCHANGED <<files, got, waf, gauge, newest, known>>

StoreStateFirst ==
    /\ pc = "swap"
    /\ got.text \in Good
    /\ state' = NewState(got, Rules[got.text], FALSE)
    /\ pc' = "state"
    /\ UNCHANGED <<files, got, waf, gauge, newest, known>>

(* Swap: p.waf.Store *)
StoreWAF ==
    /\ pc = "swap"
    /\ got.text \in Good
    /\ waf' = got
    /\ pc' = "state"
    /\ UNCHANGED <<files, got, state, gauge, newest, known>>

(* Swap: p.state.Store *)
StoreState ==
    /\ pc = "state"
    /\ state' = NewState(got, Rules[got.text], FALSE)
    /\ pc' = "gauge"
    /\ UNCHANGED <<files, got, waf, gauge, newest, known>>

(* The handler reads State() again for the metric. *)
SetGauge ==
    /\ pc = "gauge"
    /\ gauge' = state.ruleCount
    /\ pc' = IF CachePath THEN "create" ELSE "recv"
    /\ UNCHANGED <<files, got, waf, state, newest, known>>

-----------------------------------------------------------------------------
(* atomicWriteFile *)

CreateInPlace ==
    /\ pc = "create"
    /\ tmp' = Torn
    /\ cache' = Torn
    /\ pc' = "write"
    /\ UNCHANGED <<ruleFile, memory, known>>

CreateTempExclusive ==
    /\ pc = "create"
    /\ tmp = Absent
    /\ tmp' = Torn
    /\ pc' = "write"
    /\ UNCHANGED <<ruleFile, cache, memory, known>>

(* os.Create truncates what an earlier attempt has left. *)
CreateTemp ==
    /\ pc = "create"
    /\ tmp' = Torn
    /\ pc' = "write"
    /\ UNCHANGED <<ruleFile, cache, memory, known>>

(* f.Write, f.Sync and f.Close *)
WriteTemp ==
    /\ pc = "write"
    /\ tmp' = got.text
    /\ pc' = "rename"
    /\ UNCHANGED <<ruleFile, cache, memory, known>>

Rename ==
    /\ pc = "rename"
    /\ cache' = tmp
    /\ tmp' = Absent
    /\ pc' = "recv"
    /\ UNCHANGED <<ruleFile, memory, known>>

(* Any of the three fails: the error is logged, the temporary file stays. *)
CacheFails ==
    /\ pc \in {"create", "write", "rename"}
    /\ pc' = "recv"
    /\ UNCHANGED <<files, memory, known>>

-----------------------------------------------------------------------------
(* newStatusHandler: client c learns which bundle is reported as active. *)
ReadStatus(c) ==
    /\ pc # "down"
    /\ known' = [known EXCEPT ![c] = state.version.n]
    /\ UNCHANGED <<files, pc, memory>>

Handler ==
    \/ SwapFails \/ StoreWAF \/ StoreState \/ SetGauge
    \/ CreateTemp \/ WriteTemp \/ Rename

Next ==
    \/ Start \/ Kill
    \/ \E b \in Bundles : Remount(b) \/ Receive(b)
    \/ Handler \/ CacheFails
    \/ \E c \in Clients : ReadStatus(c)

(* The handler's goroutine runs, and the kubelet restarts the container. *)
Fairness == WF_vars(Handler) /\ WF_vars(Start)

Spec == Init /\ [][Next]_vars /\ Fairness

-----------------------------------------------------------------------------
(* Every variable keeps its type: in particular the process always has a WAF    *)
(* and a state whose version is a text it really received or booted with.       *)
TypeOK ==
    /\ ruleFile \in Bundles
    /\ cache \in Bundles \cup {Absent, Torn}
    /\ tmp \in Bundles \cup {Absent, Torn}
    /\ pc \in {"down", "recv", "swap", "state", "gauge", "create", "write", "rename"}
    /\ {got, waf, newest} \subseteq Version
    /\ state \in [version : Version, ruleCount : Nat, lastError : BOOLEAN]
    /\ gauge \in Nat
    /\ known \in [Clients -> 0..MaxReceived]

(* Between two bundles the process is settled: the WAF in force is the last     *)
(* bundle that parsed, or the rule file when none did; the reported version,    *)
(* the error flag and the metric describe that WAF and the last bundle          *)
(* (Swap and newBundleHandler, on every path).                                  *)
Settled ==
    pc = "recv" =>
        /\ waf = newest
        /\ state.version = waf
        /\ state.lastError <=> got.text \in Bad
        /\ gauge = Rules[waf.text]

(* A client that has read a version from /-/status is inspected by a WAF at     *)
(* least that new ("never the reverse", Swap), whatever the subscriber is       *)
(* doing in between.                                                            *)
StatusNeverAhead ==
    \A c \in Clients : pc # "down" => known[c] <= waf.n

(* The cache file is complete and parses, wherever the container was killed     *)
(* or a write failed (atomicWriteFile after a successful Swap only).            *)
CacheUsable == cache \in Good \cup {Absent}

(* Where the handler stands decides what WAF, state and gauge are: a bundle has  *)
(* either not been applied, or to the WAF, the state and the gauge in this order *)
(* (Swap, newBundleHandler, atomicWriteFile).                                    *)
Applied == waf = got /\ newest = got /\ got.text \in Good
HandlerInv ==
    /\ Settled
    /\ pc = "swap" => /\ state.version = waf
                      /\ gauge = Rules[waf.text]
                      /\ newest = IF got.text \in Good THEN got ELSE waf
    /\ pc \in {"state", "gauge", "create", "write", "rename"} => Applied
    /\ pc \in {"gauge", "create", "write", "rename"} =>
          state = NewState(got, Rules[got.text], FALSE)
    /\ pc \in {"create", "write", "rename"} => gauge = Rules[got.text]
    /\ pc = "rename" => tmp = got.text

(* What a client knows, the state, the WAF and the bundle in work are in the     *)
(* order in which Swap moves them.                                               *)
VersionInv ==
    \A c \in Clients :
        IF pc = "down" THEN known[c] = 0
        ELSE known[c] <= state.version.n /\ state.version.n <= waf.n /\ waf.n <= got.n

(* The inductive invariant of the proofs. *)
ReloadInv == TypeOK /\ HandlerInv /\ VersionInv /\ CacheUsable

(* A bundle that parses is in force from some point on, until a newer one       *)
(* arrives or the process is killed; the handler never stops on the way.        *)
GoodBundleTakesEffect ==
    \A n \in 1..MaxReceived :
        (pc = "swap" /\ got.n = n /\ got.text \in Good)
            ~> (pc = "down" \/ (pc = "recv" /\ waf.n = n))

(* newBundleHandler: the cache is written "so on container restart the engine   *)
(* can rebuild from disk while waiting for the first gRPC bundle".              *)
RestartUsesCache ==
    pc = "recv" /\ got.n = 0 /\ cache # Absent => waf.text = cache

(* ProviderState: "RuleCount is the number of SecRule/SecAction directives in   *)
(* the active bundle."                                                          *)
RuleCountOfActive == pc = "recv" => state.ruleCount = Rules[waf.text]
=============================================================================
