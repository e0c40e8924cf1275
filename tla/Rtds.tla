-------------------------------- MODULE Rtds --------------------------------
(***************************************************************************)
(* The RTDS server (internal/rtds/client.go) and the Envoys that connect   *)
(* to it: one handler goroutine per gRPC stream, the reconcile worker that *)
(* calls PushLayer, and connections that break, silently or not.           *)
(*                                                                         *)
(* The values of a layer are abstracted to the number of the push that     *)
(* brought them, 0 for none. An Envoy without a node id gets a unique one, *)
(* so it is a node that connects once.                                     *)
(***************************************************************************)
EXTENDS Integers, FiniteSets

CONSTANTS
    Node,       \* the node ids of the Envoys
    Layer,      \* the names of the runtime layers
    MaxConns,   \* bound on connections
    MaxPushes   \* bound on calls of PushLayer

Conn == 1..MaxConns

None == 0

ASSUME RtdsAssumption ==
    /\ MaxConns \in Nat /\ MaxPushes \in Nat

VARIABLES
    streams,  \* Server.streams: the connection registered for a node
    current,  \* Server.current
    pushed,   \* Server.version: the number of pushes so far
    pushes,   \* the running calls of PushLayer, with the streams left to send to
    handler,  \* the StreamRuntime goroutine of each connection
    wire,     \* each connection as the server's transport sees it
    link,     \* the connection an Envoy uses
    held,     \* the values an Envoy has
    overlap   \* history: the connections a push came to before their replay ended

server == <<streams, current, pushed, pushes>>
envoys == <<link, held>>
vars == <<streams, current, pushed, pushes, handler, wire, link, held, overlap>>

NoValues == [l \in Layer |-> 0]

Handler == [node: Node \cup {None}, snap: [Layer -> 0..MaxPushes], todo: SUBSET Layer,
            phase: {"unused", "connecting", "replay", "serve", "gone"}]

Unused == [node |-> None, snap |-> NoValues, todo |-> {}, phase |-> "unused"]

Push == [layer: Layer, value: 1..MaxPushes, targets: SUBSET Conn]

Init ==
    /\ streams = [n \in Node |-> None]
    /\ current = NoValues
    /\ pushed = 0
    /\ pushes = {}
    /\ handler = [c \in Conn |-> Unused]
    /\ wire = [c \in Conn |-> "closed"]
    /\ link = [n \in Node |-> None]
    /\ held = [n \in Node |-> NoValues]
    /\ overlap = {}

(* What is sent on a connection arrives if the Envoy still uses it. *)
Send(c, l, value) ==
    LET n == handler[c].node
    IN  held' = IF link[n] = c THEN [held EXCEPT ![n][l] = value] ELSE held

-----------------------------------------------------------------------------
(* StreamRuntime, for connection c. *)

(* The handler is in a phase that has no replay left to do. *)
Now(c, phase) == [handler EXCEPT ![c].snap = NoValues, ![c].todo = {}, ![c].phase = phase]

(* The first request: the stream is registered under its node id and the   *)
(* current layers are copied, under one lock.                              *)
Registered(c, layers) ==
    /\ handler[c].phase = "connecting"
    /\ wire[c] # "closed"
    /\ streams' = [streams EXCEPT ![handler[c].node] = c]
    /\ handler' = IF layers = {} THEN Now(c, "serve")
                  ELSE [handler EXCEPT ![c].snap = current, ![c].todo = layers,
                                       ![c].phase = "replay"]
    /\ UNCHANGED <<current, pushed, pushes, wire, envoys, overlap>>

(* Seeded faults: no replay; a replay of layers that have no values. *)
RegisterWrongNoReplay(c) == Registered(c, {})
RegisterWrongReplaysAll(c) == Registered(c, Layer)

Register(c) == Registered(c, {l \in Layer : current[l] # 0})

(* The first Recv fails: the handler returns before it registers. *)
RegisterFails(c) ==
    /\ handler[c].phase = "connecting"
    /\ wire[c] = "closed"
    /\ handler' = Now(c, "gone")
    /\ UNCHANGED <<server, wire, envoys, overlap>>

(* pushToStream: the layers of the copy, in any order. *)
Replay(c, l) ==
    /\ handler[c].phase = "replay"
    /\ wire[c] # "closed"
    /\ l \in handler[c].todo
    /\ Send(c, l, handler[c].snap[l])
    /\ LET left == handler[c].todo \ {l}
       IN  handler' = IF left = {} THEN Now(c, "serve")
                      ELSE [handler EXCEPT ![c].todo = left]
    /\ UNCHANGED <<server, wire, link, overlap>>

(* Seeded fault: the handler returns on a failed send. *)
ReplayFailsWrongReturns(c) ==
    /\ handler[c].phase = "replay"
    /\ wire[c] = "closed"
    /\ handler' = Now(c, "gone")
    /\ UNCHANGED <<server, wire, envoys, overlap>>

(* A failed send ends the replay, not the handler. *)
ReplayFails(c) ==
    /\ handler[c].phase = "replay"
    /\ wire[c] = "closed"
    /\ handler' = Now(c, "serve")
    /\ UNCHANGED <<server, wire, envoys, overlap>>

(* Recv fails: whatever stream is registered under the node id is dropped. *)
Deregister(c) ==
    /\ handler[c].phase = "serve"
    /\ wire[c] = "closed"
    /\ streams' = [streams EXCEPT ![handler[c].node] = None]
    /\ handler' = Now(c, "gone")
    /\ UNCHANGED <<current, pushed, pushes, wire, envoys, overlap>>

-----------------------------------------------------------------------------
(* PushLayer. *)

Targets == {streams[n] : n \in Node} \ {None}

Record(l) ==
    /\ pushed < MaxPushes
    /\ pushed' = pushed + 1
    /\ current' = [current EXCEPT ![l] = pushed + 1]
    /\ pushes' = IF Targets = {} THEN pushes
                 ELSE pushes \cup {[layer |-> l, value |-> pushed + 1, targets |-> Targets]}
    /\ overlap' = overlap \cup {c \in Targets : handler[c].phase = "replay"}
    /\ UNCHANGED <<streams, handler, wire, envoys>>

(* Seeded fault: the push does not wait for the one before. *)
PushLayerWrongAsync(l) == Record(l)

(* The value is recorded and the streams are listed under one lock. One    *)
(* worker reconciles, and it waits for every send: pushes do not overlap.  *)
PushLayer(l) == pushes = {} /\ Record(l)

Left(p, c) == IF p.targets = {c} THEN pushes \ {p}
              ELSE (pushes \ {p}) \cup {[p EXCEPT !.targets = @ \ {c}]}

(* Seeded fault: a send that failed is tried again. *)
PushSendWrongRetries(p, c) ==
    /\ p \in pushes /\ c \in p.targets
    /\ wire[c] # "closed"
    /\ Send(c, p.layer, p.value)
    /\ pushes' = Left(p, c)
    /\ UNCHANGED <<streams, current, pushed, handler, wire, link, overlap>>

(* One goroutine per stream; a closed stream is skipped or fails. *)
PushSend(p, c) ==
    /\ p \in pushes /\ c \in p.targets
    /\ Send(c, p.layer, p.value)
    /\ pushes' = Left(p, c)
    /\ UNCHANGED <<streams, current, pushed, handler, wire, link, overlap>>

-----------------------------------------------------------------------------
(* The Envoys and the network. *)

Connect(n) ==
    /\ link[n] = None
    /\ \E c \in Conn :
          /\ handler[c].phase = "unused"
          /\ \A b \in 1..(c - 1) : handler[b].phase # "unused"
          /\ handler' = [handler EXCEPT ![c].node = n, ![c].phase = "connecting"]
          /\ wire' = [wire EXCEPT ![c] = "open"]
          /\ link' = [link EXCEPT ![n] = c]
    /\ UNCHANGED <<server, held, overlap>>

(* A connection breaks; a silent break is not noticed by the server yet. *)
Break(n, seen) ==
    /\ link[n] # None
    /\ link' = [link EXCEPT ![n] = None]
    /\ wire' = [wire EXCEPT ![link[n]] = seen]
    /\ UNCHANGED <<server, handler, held, overlap>>

(* The keepalive pings go unanswered. *)
KeepaliveExpires(c) ==
    /\ wire[c] = "silent"
    /\ wire' = [wire EXCEPT ![c] = "closed"]
    /\ UNCHANGED <<server, handler, envoys, overlap>>

(* The Envoy container restarts under the same node id. *)
EnvoyRestarts(n) ==
    /\ link[n] # None
    /\ held' = [held EXCEPT ![n] = NoValues]
    /\ link' = [link EXCEPT ![n] = None]
    /\ wire' = [wire EXCEPT ![link[n]] = "closed"]
    /\ UNCHANGED <<server, handler, overlap>>

(* The operator restarts: all of its memory is lost, and every connection. *)
ServerRestarts ==
    /\ streams' = [n \in Node |-> None]
    /\ current' = NoValues
    /\ pushes' = {}
    /\ handler' = [c \in Conn |-> IF handler[c].phase = "unused" THEN Unused
                                  ELSE Now(c, "gone")[c]]
    /\ wire' = [c \in Conn |-> "closed"]
    /\ link' = [n \in Node |-> None]
    /\ UNCHANGED <<pushed, held, overlap>>

-----------------------------------------------------------------------------
Handle(c) ==
    \/ Register(c) \/ RegisterFails(c)
    \/ \E l \in Layer : Replay(c, l)
    \/ ReplayFails(c) \/ Deregister(c)

Next ==
    \/ \E c \in Conn : Handle(c) \/ KeepaliveExpires(c)
    \/ \E l \in Layer : PushLayer(l)
    \/ \E p \in pushes : \E c \in p.targets : PushSend(p, c)
    \/ \E n \in Node : Connect(n) \/ EnvoyRestarts(n)
    \/ \E n \in Node, seen \in {"silent", "closed"} : Break(n, seen)
    \/ ServerRestarts

Spec == Init /\ [][Next]_vars

(* Sends on a connection that is not silently broken return, unanswered    *)
(* keepalives expire and handlers run. Envoys need not connect and nobody  *)
(* need push.                                                              *)
FairSpec ==
    /\ Spec
    /\ \A c \in Conn :
          /\ WF_vars(Handle(c))
          /\ WF_vars(KeepaliveExpires(c))
          /\ WF_vars(\E p \in pushes : wire[c] # "silent" /\ PushSend(p, c))
=============================================================================
