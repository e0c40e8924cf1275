------------------------------ MODULE RtdsProps ------------------------------
(***************************************************************************)
(* What the RTDS server promises the Envoys.                               *)
(***************************************************************************)
EXTENDS Rtds

TypeOK ==
    /\ streams \in [Node -> Conn \cup {None}]
    /\ current \in [Layer -> 0..MaxPushes]
    /\ pushed \in 0..MaxPushes
    /\ pushes \subseteq Push
    /\ handler \in [Conn -> Handler]
    /\ \A c \in Conn : \A l \in handler[c].todo : handler[c].snap[l] # 0
    /\ wire \in [Conn -> {"open", "silent", "closed"}]
    /\ link \in [Node -> Conn \cup {None}]
    /\ held \in [Node -> [Layer -> 0..MaxPushes]]
    /\ overlap \in SUBSET Conn

-----------------------------------------------------------------------------
Serving(n, c) == link[n] = c /\ c # None /\ handler[c].phase = "serve"

(* No window between a replay and the pushes: an Envoy whose registered    *)
(* stream has replayed holds the current value of every layer that is not  *)
(* just being pushed to it, whatever pushes, breaks and restarts came      *)
(* before (client.go:202-218, 261-269). The exception is a push that comes *)
(* to a stream whose replay is still going on.                             *)
HoldsCurrent ==
    \A n \in Node, c \in Conn :
        Serving(n, c) /\ streams[n] = c /\ c \notin overlap =>
            \A l \in Layer :
                \/ current[l] = 0 \/ held[n][l] = current[l]
                \/ \E p \in pushes : p.layer = l /\ c \in p.targets

(* No Envoy goes back to values it has left behind, except, again, by a    *)
(* replay that a push has overtaken (client.go:300, wg.Wait).              *)
NoRollback ==
    [][\A n \in Node, l \in Layer :
          held'[n][l] \in 1..(held[n][l] - 1) => link[n] \in overlap]_vars

(* A stream that is registered has a handler that will deregister it: no   *)
(* entry of a dead connection stays behind (client.go:220-237).            *)
DeadStreamsLeave ==
    \A n \in Node : streams[n] # None => handler[streams[n]].phase \in {"replay", "serve"}

(* A broken connection does not hold up the reconcile worker for ever      *)
(* (client.go:289-300, 149-152).                                           *)
PushReturns == []<>(pushes = {})

-----------------------------------------------------------------------------
(* client.go:258: "PushLayer pushes runtime values for a named layer to    *)
(* all connected Envoy instances." An Envoy that is being served is among  *)
(* the streams a push is sent to. But the handler of its former connection *)
(* drops the entry of the new one when it notices the break.               *)
ConnectedAreRegistered ==
    \A n \in Node, c \in Conn : Serving(n, c) => streams[n] = c
=============================================================================
