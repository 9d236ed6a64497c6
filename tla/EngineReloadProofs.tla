------------------------- MODULE EngineReloadProofs -------------------------
(***************************************************************************)
(* Proofs about EngineReload for any bundles, clients and number of        *)
(* bundles received: ReloadInv is inductive, so a process between bundles  *)
(* is settled, /-/status never runs ahead of the WAF, and the cache file   *)
(* is always usable. One step per action, one below it per conjunct.       *)
(***************************************************************************)
EXTENDS EngineReload, TLAPS

(* Most steps are first-order and left to Zenon; those that need arithmetic,    *)
(* records or sequences say so.                                                 *)
USE ZenonT(30)

USE ReloadAssumption DEF Good, Version

(* What a process starts from satisfies the invariant. *)
LEMMA InitReloadInv == Init => ReloadInv
BY SMTT(30) DEF Init, ReloadInv, TypeOK, HandlerInv, VersionInv, CacheUsable, Settled, Applied,
       NewState

(* Every step of the engine keeps every variable in its type. *)
LEMMA NextTypeOK == TypeOK /\ [Next]_vars => TypeOK'
<1> SUFFICES ASSUME TypeOK, [Next]_vars PROVE TypeOK'
    OBVIOUS
<1> USE DEF TypeOK, files, memory
<1>1. CASE Start
    BY <1>1, SMTT(30) DEF Start, NewState
<1>2. CASE Kill
    BY <1>2, SMTT(30) DEF Kill
<1>3. ASSUME NEW b \in Bundles, Remount(b) PROVE TypeOK'
    BY <1>3 DEF Remount
<1>4. ASSUME NEW b \in Bundles, Receive(b) PROVE TypeOK'
    BY <1>4, SMTT(30) DEF Receive
<1>5. CASE SwapFails
    BY <1>5 DEF SwapFails, NewState
<1>6. CASE StoreWAF
    BY <1>6 DEF StoreWAF
<1>7. CASE StoreState
    BY <1>7 DEF StoreState, NewState
<1>8. CASE SetGauge
    BY <1>8 DEF SetGauge
<1>9. CASE CreateTemp \/ WriteTemp \/ Rename \/ CacheFails
    BY <1>9 DEF CreateTemp, WriteTemp, Rename, CacheFails
<1>10. ASSUME NEW c \in Clients, ReadStatus(c) PROVE TypeOK'
    BY <1>10 DEF ReadStatus
<1>11. CASE UNCHANGED vars
    BY <1>11 DEF vars
<1> QED
    BY <1>1, <1>2, <1>3, <1>4, <1>5, <1>6, <1>7, <1>8, <1>9, <1>10, <1>11
       DEF Next, Handler

(* Every step keeps WAF, state and gauge as the handler's position says, and *)
(* the cache usable. *)
LEMMA NextHandlerInv ==
    TypeOK /\ HandlerInv /\ CacheUsable /\ [Next]_vars => HandlerInv' /\ CacheUsable'
<1> SUFFICES ASSUME TypeOK, HandlerInv, CacheUsable, [Next]_vars
             PROVE  HandlerInv' /\ CacheUsable'
    OBVIOUS
<1> USE DEF TypeOK, HandlerInv, CacheUsable, Settled, Applied, files, memory, NewState
<1>1. CASE Start
    BY <1>1 DEF Start
<1>2. CASE Kill
    BY <1>2 DEF Kill
<1>3. ASSUME NEW b \in Bundles, Remount(b) PROVE HandlerInv' /\ CacheUsable'
    BY <1>3 DEF Remount
<1>4. ASSUME NEW b \in Bundles, Receive(b) PROVE HandlerInv' /\ CacheUsable'
    BY <1>4 DEF Receive
<1>5. CASE SwapFails
    BY <1>5 DEF SwapFails
<1>6. CASE StoreWAF
    BY <1>6 DEF StoreWAF
<1>7. CASE StoreState
    BY <1>7 DEF StoreState
<1>8. CASE SetGauge
    BY <1>8, SMTT(30) DEF SetGauge
<1>9. CASE CreateTemp \/ WriteTemp \/ Rename \/ CacheFails
    BY <1>9, SMTT(30) DEF CreateTemp, WriteTemp, Rename, CacheFails
<1>10. ASSUME NEW c \in Clients, ReadStatus(c) PROVE HandlerInv' /\ CacheUsable'
    BY <1>10 DEF ReadStatus
<1>11. CASE UNCHANGED vars
    BY <1>11 DEF vars
<1> QED
    BY <1>1, <1>2, <1>3, <1>4, <1>5, <1>6, <1>7, <1>8, <1>9, <1>10, <1>11
       DEF Next, Handler

(* Every step keeps the order of what clients know, state, WAF and bundle. *)
LEMMA NextVersionInv ==
    TypeOK /\ HandlerInv /\ VersionInv /\ [Next]_vars => VersionInv'
<1> SUFFICES ASSUME TypeOK, HandlerInv, VersionInv, [Next]_vars
             PROVE  VersionInv'
    OBVIOUS
<1> USE DEF TypeOK, VersionInv, files, memory, NewState
<1>1. CASE Start
    BY <1>1, SMTT(30) DEF Start
<1>2. CASE Kill
    BY <1>2 DEF Kill
<1>3. ASSUME NEW b \in Bundles, Remount(b) PROVE VersionInv'
    BY <1>3 DEF Remount
<1>4. ASSUME NEW b \in Bundles, Receive(b) PROVE VersionInv'
    BY <1>4, SMTT(30) DEF Receive
<1>5. CASE SwapFails
    BY <1>5 DEF SwapFails
<1>6. CASE StoreWAF
    BY <1>6, SMTT(30) DEF StoreWAF
<1>7. CASE StoreState
    BY <1>7, SMTT(30) DEF StoreState, HandlerInv, Applied
<1>8. CASE SetGauge
    BY <1>8 DEF SetGauge
<1>9. CASE CreateTemp \/ WriteTemp \/ Rename \/ CacheFails
    BY <1>9 DEF CreateTemp, WriteTemp, Rename, CacheFails
<1>10. ASSUME NEW c \in Clients, ReadStatus(c) PROVE VersionInv'
    BY <1>10, SMTT(30) DEF ReadStatus
<1>11. CASE UNCHANGED vars
    BY <1>11 DEF vars
<1> QED
    BY <1>1, <1>2, <1>3, <1>4, <1>5, <1>6, <1>7, <1>8, <1>9, <1>10, <1>11
       DEF Next, Handler

(* The engine always satisfies the inductive invariant. *)
THEOREM ReloadInvariant == Spec => []ReloadInv
<1>1. ReloadInv /\ [Next]_vars => ReloadInv'
    BY NextTypeOK, NextHandlerInv, NextVersionInv DEF ReloadInv
<1> QED
    BY InitReloadInv, <1>1, PTL DEF Spec

(* The engine keeps every variable in its type: it always has a WAF and a     *)
(* state of a version it received or booted with (server.go, provider.go).    *)
THEOREM ReloadTypeOK == Spec => []TypeOK
<1>1. ReloadInv => TypeOK
    BY DEF ReloadInv
<1> QED
    BY <1>1, ReloadInvariant, PTL

(* Between bundles WAF, reported version, error and gauge agree, on every     *)
(* path through Swap and newBundleHandler and after any number of bundles.    *)
THEOREM ReloadSettled == Spec => []Settled
<1>1. ReloadInv => Settled
    BY DEF ReloadInv, HandlerInv
<1> QED
    BY <1>1, ReloadInvariant, PTL

(* No client that read a version from /-/status is inspected by an older WAF, *)
(* for any number of clients (provider.go Swap: "never the reverse").         *)
THEOREM ReloadStatusNeverAhead == Spec => []StatusNeverAhead
<1>1. ReloadInv => StatusNeverAhead
    BY SMTT(30) DEF ReloadInv, TypeOK, VersionInv, StatusNeverAhead, Version
<1> QED
    BY <1>1, ReloadInvariant, PTL

(* The cache file is absent or a complete bundle that parses, wherever the    *)
(* container was killed or a call failed (server.go atomicWriteFile).         *)
THEOREM ReloadCacheUsable == Spec => []CacheUsable
<1>1. ReloadInv => CacheUsable
    BY DEF ReloadInv
<1> QED
    BY <1>1, ReloadInvariant, PTL
=============================================================================
