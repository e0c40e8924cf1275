------------------------------ MODULE Delivery ------------------------------
(***************************************************************************)
(* The way of a profile switch from the reconcile loop to the Envoys: the  *)
(* loop (Reconciler) and the RTDS server with its connections (Rtds) in    *)
(* one process. They meet in PushLayer, which the reconcile worker calls   *)
(* and waits for, and in a restart, which takes both.                      *)
(***************************************************************************)
EXTENDS Reconciler

CONSTANTS
    Node,       \* the node ids of the Envoys
    MaxConns,   \* bound on connections
    MaxPushes   \* number of pushes the switches up to MaxGen can make

ASSUME DeliveryAssumption == MaxConns \in Nat /\ MaxPushes \in Nat

VARIABLES
    streams, latest, pushed, pushes, handler, wire, link, held, overlap,
                \* the variables of Rtds; latest is its current
    value       \* history: the values each push carries

rtds == <<streams, latest, pushed, pushes, handler, wire, link, held, overlap>>
allVars == <<vars, rtds, value>>

Server == INSTANCE Rtds WITH Layer <- Runtime, current <- latest

DeliveryInit ==
    /\ Init
    /\ Server!Init
    /\ value = [k \in 1..MaxPushes |-> Absent]

-----------------------------------------------------------------------------
(* Seeded fault: PushLayer returns before its sends have ended. *)
WorkerFreeWrongAsync == TRUE

(* PushLayer ends with wg.Wait: while a send is under way, the worker does *)
(* nothing else.                                                           *)
WorkerFree == pushes = {}

Reconciling ==
    /\ WorkerFree
    /\ pc # "push"
    /\ Step
    /\ UNCHANGED <<rtds, value>>

Pushing(l) ==
    /\ WorkerFree
    /\ PushLayer(l)
    /\ Server!Record(l)
    /\ value' = [value EXCEPT ![pushed + 1] = Content(pol)]

Failing ==
    /\ WorkerFree
    /\ CallFails
    /\ UNCHANGED <<rtds, value>>

Changing == World /\ UNCHANGED <<rtds, value>>

OperatorRestarts == Crash /\ Server!ServerRestarts /\ UNCHANGED value

Serving(c) == Server!Handle(c) /\ UNCHANGED <<vars, value>>

Sending(c) ==
    /\ \E p \in pushes : Server!PushSend(p, c)
    /\ UNCHANGED <<vars, value>>

KeepaliveExpires(c) == Server!KeepaliveExpires(c) /\ UNCHANGED <<vars, value>>

Networking(n) ==
    /\ \/ Server!Connect(n) \/ Server!EnvoyRestarts(n)
       \/ \E seen \in {"silent", "closed"} : Server!Break(n, seen)
    /\ UNCHANGED <<vars, value>>

-----------------------------------------------------------------------------
DeliveryNext ==
    \/ Reconciling \/ Failing \/ Changing \/ OperatorRestarts
    \/ \E l \in Runtime : Pushing(l)
    \/ \E c \in Server!Conn : Serving(c) \/ Sending(c) \/ KeepaliveExpires(c)
    \/ \E n \in Node : Networking(n)

DeliverySpec == DeliveryInit /\ [][DeliveryNext]_allVars

(* The worker runs when it is free, watch events arrive, handlers run,     *)
(* unanswered keepalives expire, and a send on a connection that is not    *)
(* silently broken returns.                                                *)
FairDelivery ==
    /\ DeliverySpec
    /\ WF_allVars(Reconciling \/ \E l \in Runtime : Pushing(l))
    /\ WF_allVars(Deliver /\ UNCHANGED <<rtds, value>>)
    /\ \A c \in Server!Conn :
          /\ WF_allVars(Serving(c))
          /\ WF_allVars(KeepaliveExpires(c))
          /\ WF_allVars(wire[c] # "silent" /\ Sending(c))
=============================================================================
