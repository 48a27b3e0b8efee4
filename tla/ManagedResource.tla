-------------------------- MODULE ManagedResource --------------------------
(***************************************************************************)
(* What the provider promises about a Kubernetes object that stands for    *)
(* something it buys at Waldur (a WaldurMachine and its VM, a datacenter   *)
(* of a WaldurCluster and its tenant): one resource is bought for it, at   *)
(* most once and only while the object exists; it is given up only after   *)
(* somebody asked for the object's deletion; and the object stays until    *)
(* its resource is gone.  How orders, status patches and caches bring that *)
(* about is left to the specifications that implement this one.            *)
(***************************************************************************)
CONSTANTS Keys,   \* what a resource may be bought for
          Ids     \* the resources

VARIABLES
    present,   \* the keys whose object exists
    doomed,    \* the keys whose object somebody asked to delete
    bought,    \* key -> the resources ever bought for it
    gone       \* the resources that were given up

vars == <<present, doomed, bought, gone>>

Init == /\ present = Keys
        /\ doomed = {}
        /\ bought = [k \in Keys |-> {}]
        /\ gone = {}

Buy(k) == /\ k \in present
          /\ bought[k] = {}
          /\ \E r \in Ids : /\ \A j \in Keys : r \notin bought[j]
                            /\ bought' = [bought EXCEPT ![k] = {r}]
          /\ UNCHANGED <<present, doomed, gone>>

GiveUp(k) == /\ k \in doomed
             /\ \E r \in bought[k] \ gone : gone' = gone \cup {r}
             /\ UNCHANGED <<present, doomed, bought>>

\* The objects of several keys may be one.
Doom(K) == /\ K \subseteq present
           /\ doomed' = doomed \cup K
           /\ UNCHANGED <<present, bought, gone>>

Drop(K) == /\ K \subseteq present
           /\ \A k \in K : bought[k] \subseteq gone
           /\ present' = present \ K
           /\ UNCHANGED <<doomed, bought, gone>>

Next == \/ \E k \in Keys : Buy(k) \/ GiveUp(k)
        \/ \E K \in SUBSET Keys : Doom(K) \/ Drop(K)

Spec == Init /\ [][Next]_vars
============================================================================
