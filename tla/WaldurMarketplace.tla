------------------------- MODULE WaldurMarketplace -------------------------
(***************************************************************************)
(* The Waldur marketplace as the machine controller sees it: orders, the   *)
(* marketplace resource each creation order makes, and the OpenStack       *)
(* instance behind a resource.  Waldur itself is not in this repository;   *)
(* everything here is modelled from the calls the controller makes         *)
(* (MarketplaceOrdersCreate, MarketplaceOrdersRetrieve,                    *)
(* MarketplaceResourcesRetrieve, MarketplaceResourcesTerminate,            *)
(* OpenstackInstancesRetrieve, OpenstackInstancesStop) and from the states *)
(* it distinguishes in their answers.                                      *)
(*                                                                         *)
(* A resource, and the instance behind it, carry the identifier of the     *)
(* order that created them.                                                *)
(***************************************************************************)

EXTENDS MachineTypes, Manager

VARIABLES
    orders,      \* order UUID -> its type, state and resource
    resources    \* resource UUID -> owner, resource state, instance, secret_id

waldur == <<orders, resources>>

OrderStates == {"PendingProvider", "Executing", "Done", "Erred", "Canceled"}

Order == [type : {"none", "Create", "Terminate"},
          state : OrderStates,
          res : OrderIds \cup {Nil}]

\* core is the instance's CoreStates value, "none" while the resource has no
\* scope; run is its RuntimeState once it is built.
Resource == [owner : Machines \cup {Nil},
             state : {"none", "Creating", "OK", "Erred", "Terminating", "Terminated"},
             core : {"none", "CREATING", "OK", "ERRED"},
             run : {"none", "ACTIVE", "STOPPING", "SHUTOFF", "ERROR"},
             sid : SecretIds \cup {Nil}]

WaldurTypeOK == /\ orders \in [OrderIds -> Order]
                /\ resources \in [OrderIds -> Resource]

WaldurInit ==
    /\ orders = [o \in OrderIds |->
                    [type |-> "none", state |-> "PendingProvider", res |-> Nil]]
    /\ resources = [o \in OrderIds |->
                    [owner |-> Nil, state |-> "none", core |-> "none",
                     run |-> "none", sid |-> Nil]]

isOrderTerminal(state) == state \in {"Done", "Erred", "Canceled"}

Live(r) == resources[r].state \notin {"none", "Terminated"}

(***************************************************************************)
(* What Waldur does when it accepts a call of the controller.              *)
(***************************************************************************)

\* Waldur hands out order UUIDs in order: any unused one would do.
FreshOrder(o) == /\ orders[o].type = "none"
                 /\ \A p \in OrderIds : p < o => orders[p].type # "none"

\* A new order and its resource, whose user_data embeds the secret_id s.  The
\* scope may exist at once; it has none if core is "none".
AcceptCreation(o, m, s, core) ==
    /\ FreshOrder(o)
    /\ orders' = [orders EXCEPT ![o] =
            [type |-> "Create", state |-> "PendingProvider", res |-> o]]
    /\ resources' = [resources EXCEPT ![o] =
            [owner |-> m, state |-> "Creating", core |-> core,
             run |-> "none", sid |-> s]]

\* Waldur takes one order per resource at a time, and a termination only of a
\* resource that is not terminated yet (unless ReTerminate).
CanTerminate(r) ==
    /\ Live(r) \/ ReTerminate
    /\ \A o \in OrderIds :
          orders[o].res = r => isOrderTerminal(orders[o].state)

AcceptTermination(o, r) ==
    /\ CanTerminate(r)
    /\ FreshOrder(o)
    /\ orders' = [orders EXCEPT ![o] =
            [type |-> "Terminate", state |-> "PendingProvider", res |-> r]]
    /\ resources' = IF Live(r)
                    THEN [resources EXCEPT ![r].state = "Terminating"]
                    ELSE resources

\* The RuntimeState that a read of the instance tells: none, or that it is still
\* being built, or run.
RuntimeState(r) == IF resources[r].core = "CREATING" THEN "BUILD" ELSE resources[r].run

\* The stop request: the instance goes down some time later.  While it is being
\* built Waldur refuses to stop it.
AcceptStop(r) == resources' = IF resources[r].core = "CREATING" THEN resources
                              ELSE [resources EXCEPT ![r].run = "STOPPING"]

(***************************************************************************)
(* Waldur's own progress, at its own pace.                                 *)
(***************************************************************************)

\* A creation order begins to execute: the instance exists from now on.
StartOrder(o) ==
    /\ orders[o].type # "none"
    /\ orders[o].state = "PendingProvider"
    /\ orders' = [orders EXCEPT ![o].state = "Executing"]
    /\ resources' = IF orders[o].type = "Create"
                    THEN [resources EXCEPT ![o].core = "CREATING"]
                    ELSE resources

\* The instance is up, before Waldur closes the order that made it.
InstanceUp(o) ==
    /\ orders[o].type = "Create"
    /\ orders[o].state = "Executing"
    /\ resources[o].core = "CREATING"
    /\ resources' = [resources EXCEPT ![o] = [@ EXCEPT !.core = "OK", !.run = "ACTIVE"]]
    /\ UNCHANGED orders

InstanceStopped(r) ==
    /\ resources[r].run = "STOPPING"
    /\ resources' = [resources EXCEPT ![r].run = "SHUTOFF"]
    /\ UNCHANGED orders

FinishCreation(o) ==
    /\ orders[o].type = "Create"
    /\ orders[o].state = "Executing"
    /\ resources[o].core = "OK"
    /\ orders' = [orders EXCEPT ![o].state = "Done"]
    /\ resources' = [resources EXCEPT ![o].state = "OK"]

\* The resource is gone, and with it its scope.
FinishTermination(o) ==
    /\ orders[o].type = "Terminate"
    /\ orders[o].state = "Executing"
    /\ orders' = [orders EXCEPT ![o].state = "Done"]
    /\ resources' = [resources EXCEPT ![orders[o].res] =
            [@ EXCEPT !.state = "Terminated", !.core = "none", !.run = "none"]]

\* A resource whose order failed, and the instance it was about to have.
Erred(x) == [x EXCEPT !.state = "Erred",
                      !.core = IF x.core = "CREATING" THEN "ERRED" ELSE x.core]

\* An order fails or is canceled; a live resource is left erred.
FailOrder(o) ==
    LET r == orders[o].res IN
    /\ orders[o].type # "none"
    /\ ~isOrderTerminal(orders[o].state)
    /\ orders[o].type = "Create" => resources[o].core # "OK"
    /\ \E s \in {"Erred", "Canceled"} :
          orders' = [orders EXCEPT ![o].state = s]
    /\ resources' =
          IF ~Live(r) THEN resources
          ELSE [resources EXCEPT ![r] = Erred(@)]

\* An instance whose orders are all closed breaks down, or recovers.
InstanceChange(r) ==
    /\ resources[r].state = "OK"
    /\ \/ /\ resources[r].core = "OK"
          /\ resources' = [resources EXCEPT ![r] = [@ EXCEPT !.core = "ERRED", !.run = "ERROR"]]
       \/ /\ resources[r].core = "ERRED"
          /\ resources' = [resources EXCEPT ![r] = [@ EXCEPT !.core = "OK", !.run = "ACTIVE"]]
    /\ UNCHANGED orders

\* What becomes of order o and its resource in the end.
OrderProgress(o) ==
    \/ StartOrder(o) \/ InstanceUp(o) \/ InstanceStopped(o)
    \/ FinishCreation(o) \/ FinishTermination(o)

WaldurProgress == \E o \in OrderIds : OrderProgress(o)

WaldurFairness == \A o \in OrderIds : WF_waldur(OrderProgress(o))
============================================================================
