--------------------------- MODULE DeliveryProps ---------------------------
(***************************************************************************)
(* What the reconcile loop and the RTDS server promise together.           *)
(***************************************************************************)
EXTENDS Delivery

(* What an Envoy enforces: a runtime value overrides the mesh resource. *)
Enforced(n, l) == IF held[n][l] = 0 THEN applied[l] ELSE value[held[n][l]]

Served(n) ==
    \E c \in Server!Conn :
        /\ link[n] = c /\ streams[n] = c
        /\ handler[c].phase = "serve"
        /\ c \notin overlap

(* A switch reaches the Envoys: when the reconcile that switched is over,  *)
(* every Envoy with a registered, replayed stream enforces the profile     *)
(* that spec.activeProfile names, by runtime or by resource, whichever     *)
(* connections broke meanwhile (controller.go:224-274, client.go:202-300). *)
(* However far the cache lags, as long as all switches are the operator's  *)
(* own, it heard of each, the re-read after the latest one saw it (which   *)
(* it need not: SwitchReachesRuntime), and no restart of it left values    *)
(* with an Envoy that it no longer knows of.                               *)
EnvoysFollowProfile ==
    /\ ~switched /\ api.exists
    /\ edited \cap {"profile", "filters"} = {}
    /\ failed \cap {"response", "crash"} = {}
    /\ ~missed
    => \A n \in Node, l \in Runtime :
          Served(n) /\ Enforced(n, l).present => Enforced(n, l).profile = api.profile

(* The RTDS server inside the operator is the one of Rtds: the single      *)
(* worker that waits for each push is what keeps pushes from overlapping   *)
(* (client.go:289-300, controller.go:261-263).                             *)
ImplementsServer == Server!Spec

(* Envoys that hang, break or restart do not stop the reconciles of the    *)
(* policy for ever (client.go:149-152, 300).                               *)
ReconcilesGoOn == []<>(pc = "idle")
=============================================================================
