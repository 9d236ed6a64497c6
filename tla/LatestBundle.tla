---------------------------- MODULE LatestBundle ----------------------------
(***************************************************************************)
(* What the bundle store promises to the engines, without its lock, its    *)
(* channels and its goroutines: a current bundle per key, and streams that *)
(* are each sent newer and newer bundles of their key, never one that is   *)
(* not published, never past the current one, with gaps where a stream is  *)
(* slower than the publishers.                                             *)
(*                                                                         *)
(* RuleStore implements it; Delivery composes the operator's replicas and  *)
(* the engine pods out of it.                                              *)
(***************************************************************************)
EXTENDS Naturals

CONSTANTS
    Keys,     \* what a bundle is published for
    Streams,  \* the subscriptions, one engine each
    Contents, \* what a bundle may hold, None among it
    None      \* the content of no bundle

VARIABLES
    current,  \* the current bundle of each key
    open,     \* the streams that are open
    key,      \* the key an open stream is for
    last      \* the last bundle a stream was sent

latestVars == <<current, open, key, last>>

NoBundle == [sha |-> None, seq |-> 0]

Init ==
    /\ current = [k \in Keys |-> NoBundle]
    /\ open = {}
    /\ key \in [Streams -> Keys]
    /\ last = [s \in Streams |-> NoBundle]

(* A new bundle becomes the current one of its key. *)
Publish(k, sha) ==
    /\ current' = [current EXCEPT ![k] = [sha |-> sha, seq |-> @.seq + 1]]
    /\ UNCHANGED <<open, key, last>>

(* A stream for key k is opened; it has not been sent anything. *)
Open(s, k) ==
    /\ s \notin open
    /\ open' = open \cup {s}
    /\ key' = [key EXCEPT ![s] = k]
    /\ UNCHANGED <<current, last>>

(* What may be sent next: newer than the last, and not past the current one. *)
MaySend(s, b) ==
    LET top == current[key[s]] IN
    /\ last[s].seq < b.seq
    /\ b.seq <= top.seq
    /\ b.seq = top.seq => b = top

Deliver(s, b) ==
    /\ s \in open
    /\ MaySend(s, b)
    /\ last' = [last EXCEPT ![s] = b]
    /\ UNCHANGED <<current, open, key>>

DeliverCurrent(s) == Deliver(s, current[key[s]])

(* The stream ends; whose it was is forgotten. *)
Close(s) ==
    /\ s \in open
    /\ open' = open \ {s}
    /\ \E k \in Keys : key' = [key EXCEPT ![s] = k]
    /\ last' = [last EXCEPT ![s] = NoBundle]
    /\ UNCHANGED current

Next ==
    \/ \E k \in Keys, sha \in Contents : Publish(k, sha)
    \/ \E s \in Streams, k \in Keys : Open(s, k)
    \/ \E s \in Streams, sha \in Contents : \E n \in 1..current[key[s]].seq :
            Deliver(s, [sha |-> sha, seq |-> n])
    \/ \E s \in Streams : Close(s)

Spec == Init /\ [][Next]_latestVars
=============================================================================
