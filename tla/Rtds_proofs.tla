----------------------------- MODULE Rtds_proofs -----------------------------
(***************************************************************************)
(* Theorems about the RTDS server, for any number of Envoys, layers,       *)
(* connections and pushes.                                                 *)
(***************************************************************************)
EXTENDS RtdsProps, TLAPS

-----------------------------------------------------------------------------
(* Type correctness. *)

(* The values of a layer that has had no push are values. *)
LEMMA NoValuesTyped == NoValues \in [Layer -> 0..MaxPushes]
BY RtdsAssumption DEF NoValues

(* Each connection has a handler, and its copy of the layers has values. *)
LEMMA HandlersTyped ==
    ASSUME TypeOK
    PROVE  /\ handler \in [Conn -> Handler]
           /\ current \in [Layer -> 0..MaxPushes]
           /\ \A c \in Conn : handler[c] \in Handler
BY DEF TypeOK

(* A handler that ends its replay or returns keeps its node id, and the    *)
(* other handlers are left alone.                                          *)
LEMMA NowTyped ==
    ASSUME TypeOK, NEW c \in Conn, NEW phase \in {"serve", "gone"}, handler' = Now(c, phase)
    PROVE  /\ handler' \in [Conn -> Handler]
           /\ handler'[c] = [node |-> handler[c].node, snap |-> NoValues,
                             todo |-> {}, phase |-> phase]
           /\ \A d \in Conn \ {c} : handler'[d] = handler[d]
           /\ \A d \in Conn : \A l \in handler'[d].todo : handler'[d].snap[l] # 0
<1>0. handler \in [Conn -> Handler] /\ handler[c] \in Handler
  BY HandlersTyped
<1>1. handler' \in [Conn -> Handler]
  BY <1>0, NoValuesTyped DEF Now, Handler
<1>2. handler'[c] = [node |-> handler[c].node, snap |-> NoValues,
                     todo |-> {}, phase |-> phase]
  BY <1>0 DEF Now, Handler
<1>3. \A d \in Conn \ {c} : handler'[d] = handler[d]
  BY HandlersTyped DEF Now
<1>4. \A d \in Conn \ {c} : \A l \in handler[d].todo : handler[d].snap[l] # 0
  BY DEF TypeOK
<1> QED BY <1>1, <1>2, <1>3, <1>4

(* After a restart of the operator the handlers of the former connections  *)
(* have returned.                                                          *)
LEMMA RestartedHandlers ==
    ASSUME TypeOK, ServerRestarts
    PROVE  /\ handler' \in [Conn -> Handler]
           /\ \A c \in Conn : handler'[c].todo = {} /\ handler'[c].phase \in {"unused", "gone"}
<1>1. ASSUME NEW c \in Conn, handler[c].phase = "unused"
      PROVE  handler'[c] = Unused
  BY <1>1 DEF ServerRestarts
<1>2. Unused \in Handler /\ Unused.todo = {} /\ Unused.phase = "unused"
  BY NoValuesTyped DEF Unused, Handler
<1>3. ASSUME NEW c \in Conn, handler[c].phase # "unused"
      PROVE  handler'[c] = [node |-> handler[c].node, snap |-> NoValues,
                            todo |-> {}, phase |-> "gone"]
  BY <1>3, HandlersTyped DEF ServerRestarts, Now, Handler
<1>4. \A c \in Conn : /\ handler'[c] \in Handler
                      /\ handler'[c].todo = {} /\ handler'[c].phase \in {"unused", "gone"}
  <2> TAKE c \in Conn
  <2>1. CASE handler[c].phase = "unused"
    BY <1>1, <1>2, <2>1
  <2>2. CASE handler[c].phase # "unused"
    <3>1. handler[c].node \in Node \cup {None}
      BY HandlersTyped DEF Handler
    <3>2. handler'[c] = [node |-> handler[c].node, snap |-> NoValues,
                         todo |-> {}, phase |-> "gone"]
      BY <1>3, <2>2
    <3> QED BY <3>1, <3>2, NoValuesTyped DEF Handler
  <2> QED BY <2>1, <2>2
<1>5. handler' \in [Conn -> Handler]
  BY <1>4 DEF ServerRestarts
<1> QED BY <1>4, <1>5

(* Sending leaves the values of an Envoy typed. *)
LEMMA SendTyped ==
    ASSUME TypeOK, NEW c \in Conn, NEW l \in Layer, NEW value \in 0..MaxPushes, Send(c, l, value)
    PROVE  held' \in [Node -> [Layer -> 0..MaxPushes]]
BY DEF TypeOK, Send

(* A registration keeps the types, and replays only layers that have values. *)
LEMMA RegisterTyped ==
    ASSUME TypeOK, NEW c \in Conn, Register(c)
    PROVE  TypeOK'
<1> DEFINE layers == {l \in Layer : current[l] # 0}
<1>1. streams' \in [Node -> Conn \cup {None}]
  BY DEF TypeOK, Register, Registered
<1>2. handler' \in [Conn -> Handler] /\ \A d \in Conn : \A l \in handler'[d].todo : handler'[d].snap[l] # 0
  <2>1. CASE layers = {}
    <3>1. handler' = Now(c, "serve")
      BY <2>1 DEF Register, Registered
    <3> QED BY <3>1, NowTyped
  <2>2. CASE layers # {}
    <3>1. handler' = [handler EXCEPT ![c].snap = current, ![c].todo = layers, ![c].phase = "replay"]
      BY <2>2 DEF Register, Registered
    <3>2. handler' \in [Conn -> Handler]
      BY <3>1, HandlersTyped DEF Handler
    <3>3. /\ handler'[c].snap = current /\ handler'[c].todo = layers
          /\ \A d \in Conn \ {c} : handler'[d] = handler[d]
      BY <3>1, HandlersTyped DEF Handler
    <3> QED BY <3>2, <3>3 DEF TypeOK
  <2> QED BY <2>1, <2>2
<1> QED BY <1>1, <1>2 DEF TypeOK, Register, Registered, envoys

(* A replayed layer keeps the types. *)
LEMMA ReplayTyped ==
    ASSUME TypeOK, NEW c \in Conn, NEW l \in Layer, Replay(c, l)
    PROVE  TypeOK'
<1> DEFINE left == handler[c].todo \ {l}
<1>1. held' \in [Node -> [Layer -> 0..MaxPushes]]
  <2>1. handler[c].snap[l] \in 0..MaxPushes
    BY DEF TypeOK, Handler
  <2> QED BY <2>1, SendTyped DEF Replay
<1>2. handler' \in [Conn -> Handler] /\ \A d \in Conn : \A k \in handler'[d].todo : handler'[d].snap[k] # 0
  <2>1. CASE left = {}
    <3>1. handler' = Now(c, "serve")
      BY <2>1 DEF Replay
    <3> QED BY <3>1, NowTyped
  <2>2. CASE left # {}
    <3>1. handler' = [handler EXCEPT ![c].todo = left]
      BY <2>2 DEF Replay
    <3>2. handler' \in [Conn -> Handler]
      BY <3>1, HandlersTyped DEF Handler
    <3>3. /\ handler'[c].snap = handler[c].snap /\ handler'[c].todo = left
          /\ \A d \in Conn \ {c} : handler'[d] = handler[d]
      BY <3>1, HandlersTyped DEF Handler
    <3> QED BY <3>2, <3>3 DEF TypeOK
  <2> QED BY <2>1, <2>2
<1> QED BY <1>1, <1>2 DEF TypeOK, Replay, server

(* The streams a push is sent to are connections. *)
LEMMA TargetsTyped ==
    ASSUME TypeOK
    PROVE  Targets \subseteq Conn
BY DEF TypeOK, Targets

(* A push keeps the types. *)
LEMMA PushLayerTyped ==
    ASSUME TypeOK, NEW l \in Layer, PushLayer(l)
    PROVE  TypeOK'
<1>1. pushed' \in 0..MaxPushes /\ pushed + 1 \in 1..MaxPushes
  BY RtdsAssumption DEF TypeOK, PushLayer, Record
<1>2. current' \in [Layer -> 0..MaxPushes]
  BY <1>1, RtdsAssumption DEF TypeOK, PushLayer, Record
<1>3. pushes' \subseteq Push
  BY <1>1, TargetsTyped DEF TypeOK, PushLayer, Record, Push
<1>4. overlap' \in SUBSET Conn
  BY TargetsTyped DEF TypeOK, PushLayer, Record
<1> QED BY <1>1, <1>2, <1>3, <1>4 DEF TypeOK, PushLayer, Record, envoys

(* A send of a push keeps the types. *)
LEMMA PushSendTyped ==
    ASSUME TypeOK, NEW p \in pushes, NEW c \in p.targets, PushSend(p, c)
    PROVE  TypeOK'
<1>1. p \in Push /\ c \in Conn /\ p.layer \in Layer /\ p.value \in 0..MaxPushes
  BY DEF TypeOK, Push
<1>2. held' \in [Node -> [Layer -> 0..MaxPushes]]
  BY <1>1, SendTyped DEF PushSend
<1>3. [p EXCEPT !.targets = @ \ {c}] \in Push
  BY <1>1 DEF Push
<1>4. pushes' \subseteq Push
  BY <1>3 DEF TypeOK, PushSend, Left
<1> QED BY <1>2, <1>4 DEF TypeOK, PushSend

(* A new connection keeps the types. *)
LEMMA ConnectTyped ==
    ASSUME TypeOK, NEW n \in Node, Connect(n)
    PROVE  TypeOK'
<1> PICK c \in Conn :
          /\ handler' = [handler EXCEPT ![c].node = n, ![c].phase = "connecting"]
          /\ wire' = [wire EXCEPT ![c] = "open"]
          /\ link' = [link EXCEPT ![n] = c]
  BY DEF Connect
<1>1. handler' \in [Conn -> Handler]
  BY HandlersTyped DEF Handler
<1>2. /\ handler'[c].snap = handler[c].snap /\ handler'[c].todo = handler[c].todo
      /\ \A d \in Conn \ {c} : handler'[d] = handler[d]
  BY HandlersTyped DEF Handler
<1> QED BY <1>1, <1>2 DEF TypeOK, Connect, server

(* A restart of the operator keeps the types. *)
LEMMA ServerRestartsTyped ==
    ASSUME TypeOK, ServerRestarts
    PROVE  TypeOK'
<1>1. current' \in [Layer -> 0..MaxPushes]
  BY NoValuesTyped DEF ServerRestarts
<1> QED BY <1>1, RestartedHandlers DEF TypeOK, ServerRestarts

(* Every step keeps the types. *)
LEMMA NextTyped == TypeOK /\ [Next]_vars => TypeOK'
<1> SUFFICES ASSUME TypeOK, [Next]_vars PROVE TypeOK'
  OBVIOUS
<1>1. ASSUME NEW c \in Conn, Handle(c) PROVE TypeOK'
  <2>1. CASE Register(c)
    BY <2>1, RegisterTyped
  <2>2. CASE RegisterFails(c) \/ ReplayFails(c)
    <3>1. handler' = Now(c, "serve") \/ handler' = Now(c, "gone")
      BY <2>2 DEF RegisterFails, ReplayFails
    <3>2. /\ handler' \in [Conn -> Handler]
          /\ \A d \in Conn : \A l \in handler'[d].todo : handler'[d].snap[l] # 0
      BY <3>1, NowTyped
    <3> QED BY <2>2, <3>2 DEF TypeOK, RegisterFails, ReplayFails, server, envoys
  <2>3. CASE \E l \in Layer : Replay(c, l)
    BY <2>3, ReplayTyped
  <2>4. CASE Deregister(c)
    BY <2>4, NowTyped DEF TypeOK, Deregister, envoys
  <2> QED BY <1>1, <2>1, <2>2, <2>3, <2>4 DEF Handle
<1>2. ASSUME NEW c \in Conn, KeepaliveExpires(c) PROVE TypeOK'
  BY <1>2 DEF TypeOK, KeepaliveExpires, server, envoys
<1>3. ASSUME NEW n \in Node, NEW seen \in {"silent", "closed"}, Break(n, seen) PROVE TypeOK'
  BY <1>3 DEF TypeOK, Break, server
<1>4. ASSUME NEW n \in Node, EnvoyRestarts(n) PROVE TypeOK'
  BY <1>4, NoValuesTyped DEF TypeOK, EnvoyRestarts, server
<1>5. CASE UNCHANGED vars
  BY <1>5 DEF TypeOK, vars
<1> QED
  BY <1>1, <1>2, <1>3, <1>4, <1>5, PushLayerTyped, PushSendTyped, ConnectTyped,
     ServerRestartsTyped DEF Next

(* The initial states are typed. *)
LEMMA InitTyped == Init => TypeOK
<1>1. Unused \in Handler /\ Unused.todo = {}
  BY NoValuesTyped DEF Unused, Handler
<1> QED BY <1>1, NoValuesTyped, RtdsAssumption DEF Init, TypeOK

(* The state of the server, of its handlers and of the Envoys is typed,    *)
(* and a replay is left with layers that have values only.                 *)
THEOREM TypeCorrect == Spec => []TypeOK
BY InitTyped, NextTyped, PTL DEF Spec

-----------------------------------------------------------------------------
(* What the steps of a handler do to it. *)

(* A handler that ends its replay or returns, field by field. *)
LEMMA NowEffect ==
    ASSUME TypeOK, NEW c \in Conn, NEW phase \in {"serve", "gone"}, handler' = Now(c, phase)
    PROVE  /\ handler'[c].node = handler[c].node
           /\ handler'[c].phase = phase
           /\ \A d \in Conn \ {c} : handler'[d] = handler[d]
<1>1. handler'[c] = [node |-> handler[c].node, snap |-> NoValues, todo |-> {}, phase |-> phase]
  BY NowTyped
<1>2. \A d \in Conn \ {c} : handler'[d] = handler[d]
  BY NowTyped
<1> QED BY <1>1, <1>2

(* A registered handler replays a copy of the layers that have values, or  *)
(* there is none.                                                          *)
LEMMA RegisterEffect ==
    ASSUME TypeOK, NEW c \in Conn, Register(c)
    PROVE  /\ handler'[c].node = handler[c].node
           /\ \A d \in Conn \ {c} : handler'[d] = handler[d]
           /\ \/ handler'[c].phase = "serve" /\ \A l \in Layer : current[l] = 0
              \/ /\ handler'[c].phase = "replay"
                 /\ handler'[c].snap = current
                 /\ handler'[c].todo = {l \in Layer : current[l] # 0}
<1> DEFINE layers == {l \in Layer : current[l] # 0}
<1>1. CASE layers = {}
  <2>1. handler' = Now(c, "serve")
    BY <1>1 DEF Register, Registered
  <2>2. \A l \in Layer : current[l] = 0
    BY <1>1
  <2>3. /\ handler'[c].node = handler[c].node /\ handler'[c].phase = "serve"
        /\ \A d \in Conn \ {c} : handler'[d] = handler[d]
    BY <2>1, NowEffect
  <2> QED BY <2>2, <2>3
<1>2. CASE layers # {}
  <2>1. handler' = [handler EXCEPT ![c].snap = current, ![c].todo = layers, ![c].phase = "replay"]
    BY <1>2 DEF Register, Registered
  <2> QED BY <2>1, HandlersTyped DEF Handler
<1> QED BY <1>1, <1>2

(* A replayed layer is left out of the replay, which ends with the last one. *)
LEMMA ReplayEffect ==
    ASSUME TypeOK, NEW c \in Conn, NEW l \in Layer, Replay(c, l)
    PROVE  /\ handler'[c].node = handler[c].node
           /\ \A d \in Conn \ {c} : handler'[d] = handler[d]
           /\ \/ handler'[c].phase = "serve" /\ handler[c].todo = {l}
              \/ /\ handler'[c].phase = "replay"
                 /\ handler'[c].snap = handler[c].snap
                 /\ handler'[c].todo = handler[c].todo \ {l}
<1> DEFINE left == handler[c].todo \ {l}
<1>1. CASE left = {}
  <2>1. handler' = Now(c, "serve")
    BY <1>1 DEF Replay
  <2>2. handler[c].todo = {l}
    BY <1>1 DEF Replay
  <2>3. /\ handler'[c].node = handler[c].node /\ handler'[c].phase = "serve"
        /\ \A d \in Conn \ {c} : handler'[d] = handler[d]
    BY <2>1, NowEffect
  <2> QED BY <2>2, <2>3
<1>2. CASE left # {}
  <2>1. handler' = [handler EXCEPT ![c].todo = left]
    BY <1>2 DEF Replay
  <2>2. handler[c].phase = "replay"
    BY DEF Replay
  <2> QED BY <2>1, <2>2, HandlersTyped DEF Handler
<1> QED BY <1>1, <1>2

(* A handler whose connection is closed serves or returns. *)
LEMMA ClosedEffect ==
    ASSUME TypeOK, NEW c \in Conn, RegisterFails(c) \/ ReplayFails(c) \/ Deregister(c)
    PROVE  /\ handler'[c].node = handler[c].node
           /\ \A d \in Conn \ {c} : handler'[d] = handler[d]
           /\ \/ handler'[c].phase = "serve" /\ ReplayFails(c)
              \/ handler'[c].phase = "gone" /\ RegisterFails(c)
              \/ handler'[c].phase = "gone" /\ Deregister(c)
<1>1. CASE ReplayFails(c)
  <2>1. handler' = Now(c, "serve")
    BY <1>1 DEF ReplayFails
  <2> QED BY <1>1, <2>1, NowEffect
<1>2. CASE RegisterFails(c)
  <2>1. handler' = Now(c, "gone")
    BY <1>2 DEF RegisterFails
  <2> QED BY <1>2, <2>1, NowEffect
<1>3. CASE Deregister(c)
  <2>1. handler' = Now(c, "gone")
    BY <1>3 DEF Deregister
  <2> QED BY <1>3, <2>1, NowEffect
<1> QED BY <1>1, <1>2, <1>3

(* A connection is taken by one Envoy, and its handler waits for the first *)
(* request.                                                                *)
LEMMA ConnectEffect ==
    ASSUME TypeOK, NEW n \in Node, Connect(n)
    PROVE  \E c \in Conn :
              /\ handler[c].phase = "unused"
              /\ handler'[c].node = n /\ handler'[c].phase = "connecting"
              /\ \A d \in Conn \ {c} : handler'[d] = handler[d]
              /\ wire' = [wire EXCEPT ![c] = "open"]
              /\ link' = [link EXCEPT ![n] = c]
<1> PICK c \in Conn :
          /\ handler[c].phase = "unused"
          /\ handler' = [handler EXCEPT ![c].node = n, ![c].phase = "connecting"]
          /\ wire' = [wire EXCEPT ![c] = "open"]
          /\ link' = [link EXCEPT ![n] = c]
  BY DEF Connect
<1>1. handler'[c].node = n /\ handler'[c].phase = "connecting"
  BY HandlersTyped DEF Handler
<1>2. \A d \in Conn \ {c} : handler'[d] = handler[d]
  BY HandlersTyped
<1> QED BY <1>1, <1>2

-----------------------------------------------------------------------------
(* The inductive invariant. *)

Live == {"replay", "serve"}

(* A stream is registered under the node id of its handler, which has not  *)
(* returned.                                                               *)
StreamsOwned ==
    \A n \in Node : streams[n] # None =>
        handler[streams[n]].node = n /\ handler[streams[n]].phase \in Live

(* The connection an Envoy uses is open, and its handler has that Envoy's  *)
(* node id.                                                                *)
LinksOpen ==
    \A n \in Node : link[n] # None =>
        /\ handler[link[n]].node = n
        /\ wire[link[n]] = "open"
        /\ handler[link[n]].phase # "unused"

(* One push runs at a time, with the current value of its layer, and it    *)
(* counts as coming before the replay of those of its streams that are     *)
(* still replaying.                                                        *)
PushesCurrent ==
    \A p \in pushes :
        /\ pushes = {p}
        /\ current[p.layer] = p.value
        /\ \A c \in p.targets :
              /\ handler[c].phase \notin {"unused", "connecting"}
              /\ handler[c].phase = "replay" => c \in overlap

(* Nobody has a value from the future: an Envoy and a replay are at most   *)
(* as new as the current value of a layer, unless a restart has lost it.   *)
NothingNewer ==
    \A l \in Layer :
        /\ current[l] <= pushed
        /\ \A n \in Node : held[n][l] <= pushed /\ (current[l] # 0 => held[n][l] <= current[l])
        /\ \A c \in Conn : handler[c].phase = "replay" => handler[c].snap[l] <= current[l]

(* A replay no push has overtaken brings nothing older than what the Envoy *)
(* holds; while its stream is registered, it brings the current values,    *)
(* and the Envoy holds those it has brought.                               *)
ReplayFresh ==
    \A n \in Node, c \in Conn :
        link[n] = c /\ handler[c].phase = "replay" /\ c \notin overlap =>
            /\ \A l \in handler[c].todo : held[n][l] <= handler[c].snap[l]
            /\ streams[n] = c => \A l \in Layer :
                  /\ handler[c].snap[l] = current[l]
                  /\ l \in handler[c].todo \/ current[l] = 0 \/ held[n][l] = current[l]

-----------------------------------------------------------------------------
(* A stream is registered by its own handler, and dropped when that one    *)
(* returns.                                                                *)
LEMMA NextStreamsOwned == TypeOK /\ StreamsOwned /\ [Next]_vars => StreamsOwned'
<1> SUFFICES ASSUME TypeOK, StreamsOwned, [Next]_vars PROVE StreamsOwned'
  OBVIOUS
<1>0. streams \in [Node -> Conn \cup {None}] /\ 0 \notin Conn
  BY DEF TypeOK, Conn
<1>1. ASSUME NEW c \in Conn, Register(c) PROVE StreamsOwned'
  <2>1. streams' = [streams EXCEPT ![handler[c].node] = c] /\ handler[c].phase = "connecting"
    BY <1>1 DEF Register, Registered
  <2>2. handler'[c].node = handler[c].node /\ handler'[c].phase \in Live
    BY <1>1, RegisterEffect DEF Live
  <2>3. \A d \in Conn \ {c} : handler'[d] = handler[d]
    BY <1>1, RegisterEffect
  <2> QED BY <1>0, <2>1, <2>2, <2>3 DEF StreamsOwned, Live, None
<1>2. ASSUME NEW c \in Conn, NEW l \in Layer, Replay(c, l) PROVE StreamsOwned'
  <2>1. streams' = streams
    BY <1>2 DEF Replay, server
  <2>2. handler'[c].node = handler[c].node /\ handler'[c].phase \in Live
    BY <1>2, ReplayEffect DEF Live
  <2>3. \A d \in Conn \ {c} : handler'[d] = handler[d]
    BY <1>2, ReplayEffect
  <2> QED BY <1>0, <2>1, <2>2, <2>3 DEF StreamsOwned
<1>3. ASSUME NEW c \in Conn, RegisterFails(c) PROVE StreamsOwned'
  <2>1. streams' = streams /\ handler[c].phase = "connecting"
    BY <1>3 DEF RegisterFails, server
  <2>2. \A d \in Conn \ {c} : handler'[d] = handler[d]
    BY <1>3, ClosedEffect
  <2> QED BY <1>0, <2>1, <2>2 DEF StreamsOwned, Live
<1>4. ASSUME NEW c \in Conn, ReplayFails(c) PROVE StreamsOwned'
  <2>1. streams' = streams /\ handler[c].phase = "replay"
    BY <1>4 DEF ReplayFails, server
  <2>2. handler'[c].node = handler[c].node /\ handler'[c].phase \in Live
    BY <1>4, <2>1, ClosedEffect DEF Live, RegisterFails, Deregister
  <2>3. \A d \in Conn \ {c} : handler'[d] = handler[d]
    BY <1>4, ClosedEffect
  <2> QED BY <1>0, <2>1, <2>2, <2>3 DEF StreamsOwned
<1>5. ASSUME NEW c \in Conn, Deregister(c) PROVE StreamsOwned'
  <2>1. streams' = [streams EXCEPT ![handler[c].node] = None]
    BY <1>5 DEF Deregister
  <2>2. \A d \in Conn \ {c} : handler'[d] = handler[d]
    BY <1>5, ClosedEffect
  <2> QED BY <1>0, <2>1, <2>2 DEF StreamsOwned
<1>6. ASSUME NEW n \in Node, Connect(n) PROVE StreamsOwned'
  <2>1. streams' = streams
    BY <1>6 DEF Connect, server
  <2>2. PICK c \in Conn : /\ handler[c].phase = "unused"
                          /\ \A d \in Conn \ {c} : handler'[d] = handler[d]
    BY <1>6, ConnectEffect
  <2> QED BY <1>0, <2>1, <2>2 DEF StreamsOwned, Live
<1>7. CASE ServerRestarts
  BY <1>7 DEF StreamsOwned, ServerRestarts
<1>8. CASE UNCHANGED <<streams, handler>>
  BY <1>8 DEF StreamsOwned
<1> QED
  BY <1>1, <1>2, <1>3, <1>4, <1>5, <1>6, <1>7, <1>8
  DEF Next, Handle, KeepaliveExpires, PushLayer, Record, PushSend, Break, EnvoyRestarts,
      server, vars

(* An Envoy leaves a connection when it breaks or the server restarts. *)
LEMMA NextLinksOpen == TypeOK /\ LinksOpen /\ [Next]_vars => LinksOpen'
<1> SUFFICES ASSUME TypeOK, LinksOpen, [Next]_vars PROVE LinksOpen'
  OBVIOUS
<1>0. /\ link \in [Node -> Conn \cup {None}] /\ 0 \notin Conn
      /\ wire \in [Conn -> {"open", "silent", "closed"}]
  BY DEF TypeOK, Conn
<1>1. ASSUME NEW c \in Conn, Handle(c) PROVE LinksOpen'
  <2>1. UNCHANGED <<link, wire>>
    BY <1>1 DEF Handle, Register, Registered, RegisterFails, Replay, ReplayFails, Deregister, envoys
  <2>2. /\ handler'[c].node = handler[c].node /\ handler'[c].phase # "unused"
        /\ \A d \in Conn \ {c} : handler'[d] = handler[d]
    <3>1. CASE Register(c)
      BY <3>1, RegisterEffect
    <3>2. CASE \E l \in Layer : Replay(c, l)
      BY <3>2, ReplayEffect
    <3>3. CASE RegisterFails(c) \/ ReplayFails(c) \/ Deregister(c)
      BY <3>3, ClosedEffect
    <3> QED BY <1>1, <3>1, <3>2, <3>3 DEF Handle
  <2> QED BY <1>0, <2>1, <2>2 DEF LinksOpen
<1>2. ASSUME NEW c \in Conn, KeepaliveExpires(c) PROVE LinksOpen'
  BY <1>0, <1>2 DEF LinksOpen, KeepaliveExpires, envoys
<1>3. ASSUME NEW n \in Node, Connect(n) PROVE LinksOpen'
  <2> PICK c \in Conn : /\ handler[c].phase = "unused"
                        /\ handler'[c].node = n /\ handler'[c].phase = "connecting"
                        /\ \A d \in Conn \ {c} : handler'[d] = handler[d]
                        /\ wire' = [wire EXCEPT ![c] = "open"]
                        /\ link' = [link EXCEPT ![n] = c]
    BY <1>3, ConnectEffect
  <2> QED BY <1>0 DEF LinksOpen
<1>4. ASSUME NEW n \in Node, NEW seen \in {"silent", "closed"}, Break(n, seen) PROVE LinksOpen'
  BY <1>0, <1>4 DEF LinksOpen, Break
<1>5. ASSUME NEW n \in Node, EnvoyRestarts(n) PROVE LinksOpen'
  BY <1>0, <1>5 DEF LinksOpen, EnvoyRestarts
<1>6. CASE ServerRestarts
  BY <1>6 DEF LinksOpen, ServerRestarts
<1>7. CASE UNCHANGED <<link, handler, wire>>
  BY <1>7 DEF LinksOpen
<1> QED
  BY <1>1, <1>2, <1>3, <1>4, <1>5, <1>6, <1>7
  DEF Next, PushLayer, Record, PushSend, envoys, vars

(* What is sent on a connection changes one layer of the Envoy that uses it. *)
LEMMA SendEffect ==
    ASSUME TypeOK, LinksOpen, NEW c \in Conn, NEW l \in Layer, NEW value, Send(c, l, value)
    PROVE  \A n \in Node, k \in Layer :
              held'[n][k] = IF link[n] = c /\ k = l THEN value ELSE held[n][k]
<1>1. held \in [Node -> [Layer -> 0..MaxPushes]] /\ 0 \notin Conn
  BY DEF TypeOK, Conn
<1>2. \A n \in Node : link[n] = c => handler[c].node = n
  BY <1>1 DEF LinksOpen, None
<1> QED BY <1>1, <1>2 DEF Send

(* What a handler does leaves the pushes and the overlaps alone, and does  *)
(* not go back to the start of a stream.                                   *)
LEMMA HandleEffect ==
    ASSUME TypeOK, NEW c \in Conn, Handle(c)
    PROVE  /\ UNCHANGED <<current, pushed, pushes, overlap, wire, link>>
           /\ \A d \in Conn \ {c} : handler'[d] = handler[d]
           /\ handler'[c].phase \in {"replay", "serve", "gone"}
           /\ handler'[c].phase = "replay" => handler[c].phase \in {"connecting", "replay"}
           /\ handler[c].phase \in {"connecting", "replay", "serve"}
<1>1. UNCHANGED <<current, pushed, pushes, overlap, wire, link>>
  BY DEF Handle, Register, Registered, RegisterFails, Replay, ReplayFails, Deregister, server, envoys
<1>2. handler[c].phase \in {"connecting", "replay", "serve"}
  BY DEF Handle, Register, Registered, RegisterFails, Replay, ReplayFails, Deregister
<1>3. CASE Register(c)
  <2>1. handler[c].phase = "connecting"
    BY <1>3 DEF Register, Registered
  <2> QED BY <1>1, <1>3, <2>1, RegisterEffect
<1>4. CASE \E l \in Layer : Replay(c, l)
  <2>1. handler[c].phase = "replay"
    BY <1>4 DEF Replay
  <2> QED BY <1>1, <1>4, <2>1, ReplayEffect
<1>5. CASE RegisterFails(c) \/ ReplayFails(c) \/ Deregister(c)
  BY <1>1, <1>2, <1>5, ClosedEffect
<1> QED BY <1>3, <1>4, <1>5 DEF Handle

(* A push lists the streams that are registered. *)
LEMMA NextPushesCurrent ==
    TypeOK /\ StreamsOwned /\ PushesCurrent /\ [Next]_vars => PushesCurrent'
<1> SUFFICES ASSUME TypeOK, StreamsOwned, PushesCurrent, [Next]_vars PROVE PushesCurrent'
  OBVIOUS
<1>0. pushes \subseteq Push /\ pushed \in Nat /\ current \in [Layer -> 0..MaxPushes]
  BY RtdsAssumption DEF TypeOK
<1>1. ASSUME NEW c \in Conn, Handle(c) PROVE PushesCurrent'
  <2>1. UNCHANGED <<current, pushes, overlap>> /\ \A d \in Conn \ {c} : handler'[d] = handler[d]
    BY <1>1, HandleEffect
  <2>2. handler'[c].phase \in {"replay", "serve", "gone"}
    BY <1>1, HandleEffect
  <2>3. handler'[c].phase = "replay" => handler[c].phase \in {"connecting", "replay"}
    BY <1>1, HandleEffect
  <2> QED BY <1>0, <2>1, <2>2, <2>3 DEF PushesCurrent, Push
<1>2. ASSUME NEW l \in Layer, PushLayer(l) PROVE PushesCurrent'
  <2>1. /\ pushes = {} /\ current'[l] = pushed + 1 /\ UNCHANGED handler
        /\ overlap' = overlap \cup {c \in Targets : handler[c].phase = "replay"}
        /\ pushes' = IF Targets = {} THEN pushes
                     ELSE pushes \cup {[layer |-> l, value |-> pushed + 1, targets |-> Targets]}
    BY <1>0, <1>2 DEF PushLayer, Record
  <2>2. \A c \in Targets : handler[c].phase \in Live
    BY DEF Targets, StreamsOwned
  <2>3. \A p \in pushes' : pushes' = {p} /\ p.layer = l /\ p.value = pushed + 1 /\ p.targets = Targets
    BY <2>1
  <2>4. \A c \in Targets :
            /\ handler'[c].phase \notin {"unused", "connecting"}
            /\ handler'[c].phase = "replay" => c \in overlap'
    BY <2>1, <2>2 DEF Live
  <2>5. \A p \in pushes' : current'[p.layer] = p.value
    BY <2>1, <2>3
  <2>6. \A p \in pushes' : pushes' = {p}
    BY <2>3
  <2>7. \A p \in pushes' : \A c \in p.targets :
            /\ handler'[c].phase \notin {"unused", "connecting"}
            /\ handler'[c].phase = "replay" => c \in overlap'
    BY <2>3, <2>4
  <2> QED BY <2>5, <2>6, <2>7 DEF PushesCurrent
<1>3. ASSUME NEW p \in pushes, NEW c \in p.targets, PushSend(p, c) PROVE PushesCurrent'
  <2>1. pushes = {p} /\ p \in Push
    BY <1>0 DEF PushesCurrent
  <2>2. UNCHANGED <<current, handler, overlap>> /\ pushes' = Left(p, c)
    BY <1>3 DEF PushSend
  <2>3. \A q \in pushes' : /\ pushes' = {q} /\ q.layer = p.layer /\ q.value = p.value
                           /\ q.targets \subseteq p.targets
    BY <2>1, <2>2 DEF Left, Push
  <2> QED BY <2>1, <2>2, <2>3 DEF PushesCurrent
<1>4. ASSUME NEW n \in Node, Connect(n) PROVE PushesCurrent'
  <2>1. UNCHANGED <<current, pushes, overlap>>
    BY <1>4 DEF Connect, server
  <2>2. PICK c \in Conn : /\ handler[c].phase = "unused"
                          /\ \A d \in Conn \ {c} : handler'[d] = handler[d]
    BY <1>4, ConnectEffect
  <2> QED BY <1>0, <2>1, <2>2 DEF PushesCurrent, Push
<1>5. CASE ServerRestarts
  BY <1>5 DEF PushesCurrent, ServerRestarts
<1>6. CASE UNCHANGED <<current, pushes, handler, overlap>>
  BY <1>6 DEF PushesCurrent
<1> QED
  BY <1>1, <1>2, <1>3, <1>4, <1>5, <1>6
  DEF Next, KeepaliveExpires, Break, EnvoyRestarts, server, vars

(* The values the handlers, the Envoys and the server have are numbers. *)
LEMMA ValuesTyped ==
    ASSUME TypeOK
    PROVE  /\ pushed \in Nat
           /\ \A l \in Layer : current[l] \in Nat
           /\ \A n \in Node, l \in Layer : held[n][l] \in Nat
           /\ \A c \in Conn, l \in Layer : handler[c].snap[l] \in Nat
BY RtdsAssumption DEF TypeOK, Handler

(* A replay and a push bring nothing newer than the current value. *)
LEMMA NextNothingNewer ==
    TypeOK /\ LinksOpen /\ PushesCurrent /\ NothingNewer /\ [Next]_vars => NothingNewer'
<1> SUFFICES ASSUME TypeOK, LinksOpen, PushesCurrent, NothingNewer, [Next]_vars
             PROVE  NothingNewer'
  OBVIOUS
<1>1. ASSUME NEW c \in Conn, Register(c) PROVE NothingNewer'
  <2>1. UNCHANGED <<current, pushed, held>>
    BY <1>1 DEF Register, Registered, envoys
  <2>2. \A d \in Conn \ {c} : handler'[d] = handler[d]
    BY <1>1, RegisterEffect
  <2>3. handler'[c].phase = "replay" => handler'[c].snap = current
    BY <1>1, RegisterEffect
  <2> QED BY <2>1, <2>2, <2>3, ValuesTyped DEF NothingNewer
<1>2. ASSUME NEW c \in Conn, NEW l \in Layer, Replay(c, l) PROVE NothingNewer'
  <2>1. UNCHANGED <<current, pushed>> /\ handler[c].phase = "replay"
    BY <1>2 DEF Replay, server
  <2>2. \A d \in Conn \ {c} : handler'[d] = handler[d]
    BY <1>2, ReplayEffect
  <2>3. handler'[c].phase = "replay" => handler'[c].snap = handler[c].snap
    BY <1>2, ReplayEffect
  <2>4. \A n \in Node, k \in Layer :
            held'[n][k] = IF link[n] = c /\ k = l THEN handler[c].snap[l] ELSE held[n][k]
    BY <1>2, SendEffect DEF Replay
  <2>5. handler[c].snap[l] <= current[l] /\ handler[c].snap[l] <= pushed
    BY <2>1, ValuesTyped DEF NothingNewer
  <2>6. \A n \in Node, k \in Layer :
            held'[n][k] <= pushed /\ (current[k] # 0 => held'[n][k] <= current[k])
    BY <2>4, <2>5 DEF NothingNewer
  <2>7. \A k \in Layer, d \in Conn : handler'[d].phase = "replay" => handler'[d].snap[k] <= current[k]
    BY <2>1, <2>2, <2>3 DEF NothingNewer
  <2> QED BY <2>1, <2>6, <2>7 DEF NothingNewer
<1>3. ASSUME NEW c \in Conn, RegisterFails(c) \/ ReplayFails(c) \/ Deregister(c) PROVE NothingNewer'
  <2>1. UNCHANGED <<current, pushed, held>>
    BY <1>3 DEF RegisterFails, ReplayFails, Deregister, server, envoys
  <2>2. handler'[c].phase # "replay" /\ \A d \in Conn \ {c} : handler'[d] = handler[d]
    BY <1>3, ClosedEffect
  <2> QED BY <2>1, <2>2 DEF NothingNewer
<1>4. ASSUME NEW l \in Layer, PushLayer(l) PROVE NothingNewer'
  <2>1. /\ UNCHANGED <<handler, held>> /\ pushed' = pushed + 1
        /\ \A k \in Layer : current'[k] = IF k = l THEN pushed + 1 ELSE current[k]
    BY <1>4 DEF PushLayer, Record, envoys, TypeOK
  <2> QED BY <2>1, ValuesTyped DEF NothingNewer
<1>5. ASSUME NEW p \in pushes, NEW c \in p.targets, PushSend(p, c) PROVE NothingNewer'
  <2>1. UNCHANGED <<current, pushed, handler>>
    BY <1>5 DEF PushSend
  <2>2. p.layer \in Layer /\ c \in Conn /\ p.value = current[p.layer]
    BY DEF TypeOK, Push, PushesCurrent
  <2>3. \A n \in Node, k \in Layer :
            held'[n][k] = IF link[n] = c /\ k = p.layer THEN current[k] ELSE held[n][k]
    BY <1>5, <2>2, SendEffect DEF PushSend
  <2> QED BY <2>1, <2>3, ValuesTyped DEF NothingNewer
<1>6. ASSUME NEW n \in Node, Connect(n) PROVE NothingNewer'
  <2>1. UNCHANGED <<current, pushed, held>>
    BY <1>6 DEF Connect, server
  <2>2. PICK c \in Conn : /\ handler'[c].phase = "connecting"
                          /\ \A d \in Conn \ {c} : handler'[d] = handler[d]
    BY <1>6, ConnectEffect
  <2> QED BY <2>1, <2>2 DEF NothingNewer
<1>7. ASSUME NEW n \in Node, EnvoyRestarts(n) PROVE NothingNewer'
  <2>1. UNCHANGED <<current, pushed, handler>>
    BY <1>7 DEF EnvoyRestarts, server
  <2>2. \A m \in Node, l \in Layer : held'[m][l] = held[m][l] \/ held'[m][l] = 0
    BY <1>7 DEF EnvoyRestarts, NoValues, TypeOK
  <2> QED BY <2>1, <2>2, ValuesTyped DEF NothingNewer
<1>8. CASE ServerRestarts
  <2>1. UNCHANGED <<pushed, held>> /\ \A l \in Layer : current'[l] = 0
    BY <1>8 DEF ServerRestarts, NoValues
  <2>2. \A c \in Conn : handler'[c].phase # "replay"
    BY <1>8, RestartedHandlers
  <2> QED BY <2>1, <2>2, ValuesTyped DEF NothingNewer
<1>9. CASE UNCHANGED <<current, pushed, held, handler>>
  BY <1>9 DEF NothingNewer
<1> QED
  BY <1>1, <1>2, <1>3, <1>4, <1>5, <1>6, <1>7, <1>8, <1>9
  DEF Next, Handle, KeepaliveExpires, Break, server, envoys, vars

(* A replay starts with the current values, and a push to its stream       *)
(* overtakes it.                                                           *)
LEMMA NextReplayFresh ==
    /\ TypeOK /\ LinksOpen /\ PushesCurrent /\ NothingNewer /\ ReplayFresh
    /\ [Next]_vars
    => ReplayFresh'
<1> SUFFICES ASSUME TypeOK, LinksOpen, PushesCurrent, NothingNewer, ReplayFresh, [Next]_vars
             PROVE  ReplayFresh'
  OBVIOUS
<1>0. /\ streams \in [Node -> Conn \cup {None}] /\ 0 \notin Conn
      /\ link \in [Node -> Conn \cup {None}]
      /\ \A c \in Conn : handler[c].todo \subseteq Layer
  <2>1. \A c \in Conn : handler[c].todo \subseteq Layer
    BY HandlersTyped DEF Handler
  <2> QED BY <2>1 DEF TypeOK, Conn
<1>owner. \A n \in Node, c \in Conn : link[n] = c => handler[c].node = n /\ wire[c] = "open"
  BY <1>0 DEF LinksOpen, None
<1>1. ASSUME NEW c \in Conn, Register(c) PROVE ReplayFresh'
  <2>1. /\ UNCHANGED <<current, link, held, overlap>>
        /\ streams' = [streams EXCEPT ![handler[c].node] = c]
    BY <1>1 DEF Register, Registered, envoys
  <2>2. \A d \in Conn \ {c} : handler'[d] = handler[d]
    BY <1>1, RegisterEffect
  <2>3. handler'[c].phase = "replay" =>
            handler'[c].snap = current /\ handler'[c].todo = {l \in Layer : current[l] # 0}
    BY <1>1, RegisterEffect
  <2>4. \A n \in Node, d \in Conn \ {c} : link[n] = d /\ streams'[n] = d => streams[n] = d
    BY <1>0, <2>1
  <2>5. \A n \in Node, l \in Layer : current[l] # 0 => held[n][l] <= current[l]
    BY DEF NothingNewer
  <2> QED BY <2>1, <2>2, <2>3, <2>4, <2>5 DEF ReplayFresh
<1>2. ASSUME NEW c \in Conn, NEW l \in Layer, Replay(c, l) PROVE ReplayFresh'
  <2>1. UNCHANGED <<streams, current, link, overlap>> /\ handler[c].phase = "replay"
    BY <1>2 DEF Replay, server
  <2>2. \A d \in Conn \ {c} : handler'[d] = handler[d]
    BY <1>2, ReplayEffect
  <2>3. handler'[c].phase = "replay" =>
            handler'[c].snap = handler[c].snap /\ handler'[c].todo = handler[c].todo \ {l}
    BY <1>2, ReplayEffect
  <2>4. \A n \in Node, k \in Layer :
            held'[n][k] = IF link[n] = c /\ k = l THEN handler[c].snap[l] ELSE held[n][k]
    BY <1>2, SendEffect DEF Replay
  <2> QED BY <1>0, <2>1, <2>2, <2>3, <2>4 DEF ReplayFresh
<1>3. ASSUME NEW c \in Conn, RegisterFails(c) \/ ReplayFails(c) \/ Deregister(c) PROVE ReplayFresh'
  <2>1. UNCHANGED <<current, link, held, overlap>>
    BY <1>3 DEF RegisterFails, ReplayFails, Deregister, server, envoys
  <2>2. \A n \in Node, d \in Conn : streams'[n] = d => streams[n] = d
    BY <1>0, <1>3 DEF RegisterFails, ReplayFails, Deregister, server, None
  <2>3. handler'[c].phase # "replay" /\ \A d \in Conn \ {c} : handler'[d] = handler[d]
    BY <1>3, ClosedEffect
  <2> QED BY <2>1, <2>2, <2>3 DEF ReplayFresh
<1>4. ASSUME NEW l \in Layer, PushLayer(l) PROVE ReplayFresh'
  <2>1. /\ UNCHANGED <<streams, handler, link, held>>
        /\ overlap' = overlap \cup {c \in Targets : handler[c].phase = "replay"}
    BY <1>4 DEF PushLayer, Record, envoys
  <2>2. \A n \in Node, c \in Conn : streams[n] = c => c \in Targets
    BY <1>0 DEF Targets, None
  <2> QED BY <2>1, <2>2 DEF ReplayFresh
<1>5. ASSUME NEW p \in pushes, NEW c \in p.targets, PushSend(p, c) PROVE ReplayFresh'
  <2>1. UNCHANGED <<streams, current, handler, link, overlap>>
    BY <1>5 DEF PushSend
  <2>2. p.layer \in Layer /\ c \in Conn
    BY DEF TypeOK, Push
  <2>3. handler[c].phase = "replay" => c \in overlap
    BY DEF PushesCurrent
  <2>4. \A n \in Node, k \in Layer : link[n] # c => held'[n][k] = held[n][k]
    BY <1>5, <2>2, SendEffect DEF PushSend
  <2> QED BY <1>0, <2>1, <2>3, <2>4 DEF ReplayFresh
<1>6. ASSUME NEW n \in Node, Connect(n) PROVE ReplayFresh'
  <2>1. UNCHANGED <<streams, current, held, overlap>>
    BY <1>6 DEF Connect, server
  <2>2. PICK c \in Conn : /\ handler'[c].phase = "connecting"
                          /\ \A d \in Conn \ {c} : handler'[d] = handler[d]
                          /\ link' = [link EXCEPT ![n] = c]
    BY <1>6, ConnectEffect
  <2> QED BY <1>0, <2>1, <2>2 DEF ReplayFresh
<1>7. ASSUME NEW n \in Node,
             EnvoyRestarts(n) \/ \E seen \in {"silent", "closed"} : Break(n, seen)
      PROVE  ReplayFresh'
  <2>1. UNCHANGED <<streams, current, handler, overlap>> /\ link' = [link EXCEPT ![n] = None]
    BY <1>7 DEF EnvoyRestarts, Break, server
  <2>2. \A m \in Node \ {n} : held'[m] = held[m]
    BY <1>7 DEF EnvoyRestarts, Break, TypeOK
  <2> QED BY <1>0, <2>1, <2>2 DEF ReplayFresh, None
<1>8. CASE ServerRestarts
  BY <1>8, RestartedHandlers DEF ReplayFresh
<1>9. CASE UNCHANGED <<streams, current, handler, link, held, overlap>>
  BY <1>9 DEF ReplayFresh
<1> QED
  BY <1>1, <1>2, <1>3, <1>4, <1>5, <1>6, <1>7, <1>8, <1>9
  DEF Next, Handle, KeepaliveExpires, server, envoys, vars

(* The last layer of a replay, a push and the send of a push leave no      *)
(* window.                                                                 *)
LEMMA NextHoldsCurrent ==
    /\ TypeOK /\ LinksOpen /\ PushesCurrent /\ ReplayFresh /\ HoldsCurrent
    /\ [Next]_vars
    => HoldsCurrent'
<1> SUFFICES ASSUME TypeOK, LinksOpen, PushesCurrent, ReplayFresh, HoldsCurrent, [Next]_vars
             PROVE  HoldsCurrent'
  OBVIOUS
<1>0. /\ streams \in [Node -> Conn \cup {None}] /\ 0 \notin Conn
      /\ link \in [Node -> Conn \cup {None}]
  BY DEF TypeOK, Conn
<1>owner. \A n \in Node, c \in Conn : link[n] = c => handler[c].node = n /\ wire[c] = "open"
  BY <1>0 DEF LinksOpen, None
<1>1. ASSUME NEW c \in Conn, Register(c) PROVE HoldsCurrent'
  <2>1. /\ UNCHANGED <<current, pushes, link, held, overlap>>
        /\ streams' = [streams EXCEPT ![handler[c].node] = c]
    BY <1>1 DEF Register, Registered, envoys
  <2>2. \A d \in Conn \ {c} : handler'[d] = handler[d]
    BY <1>1, RegisterEffect
  <2>3. handler'[c].phase = "serve" => \A l \in Layer : current[l] = 0
    BY <1>1, RegisterEffect
  <2>4. \A n \in Node, d \in Conn \ {c} : link[n] = d /\ streams'[n] = d => streams[n] = d
    BY <1>0, <2>1
  <2> QED BY <2>1, <2>2, <2>3, <2>4 DEF HoldsCurrent, Serving
<1>2. ASSUME NEW c \in Conn, NEW l \in Layer, Replay(c, l) PROVE HoldsCurrent'
  <2>1. UNCHANGED <<streams, current, pushes, link, overlap>> /\ handler[c].phase = "replay"
    BY <1>2 DEF Replay, server
  <2>2. \A d \in Conn \ {c} : handler'[d] = handler[d]
    BY <1>2, ReplayEffect
  <2>3. handler'[c].phase = "serve" => handler[c].todo = {l}
    BY <1>2, ReplayEffect
  <2>4. \A n \in Node, k \in Layer :
            held'[n][k] = IF link[n] = c /\ k = l THEN handler[c].snap[l] ELSE held[n][k]
    BY <1>2, SendEffect DEF Replay
  <2>5. ASSUME NEW n \in Node, link[n] = c, streams[n] = c, c \notin overlap,
               handler'[c].phase = "serve", NEW k \in Layer
        PROVE  current[k] = 0 \/ held'[n][k] = current[k]
    BY <2>1, <2>3, <2>4, <2>5 DEF ReplayFresh
  <2> QED BY <1>0, <2>1, <2>2, <2>4, <2>5 DEF HoldsCurrent, Serving
<1>3. ASSUME NEW c \in Conn, RegisterFails(c) \/ ReplayFails(c) \/ Deregister(c) PROVE HoldsCurrent'
  <2>1. UNCHANGED <<current, pushes, link, held, overlap>> /\ wire[c] = "closed"
    BY <1>3 DEF RegisterFails, ReplayFails, Deregister, server, envoys
  <2>2. \A n \in Node, d \in Conn : streams'[n] = d => streams[n] = d
    BY <1>0, <1>3 DEF RegisterFails, ReplayFails, Deregister, server, None
  <2>3. \A d \in Conn \ {c} : handler'[d] = handler[d]
    BY <1>3, ClosedEffect
  <2> QED BY <1>owner, <2>1, <2>2, <2>3 DEF HoldsCurrent, Serving
<1>4. ASSUME NEW l \in Layer, PushLayer(l) PROVE HoldsCurrent'
  <2>1. /\ UNCHANGED <<streams, handler, link, held>> /\ overlap \subseteq overlap'
        /\ \A k \in Layer \ {l} : current'[k] = current[k]
        /\ pushes = {}
        /\ pushes' = IF Targets = {} THEN pushes
                     ELSE pushes \cup {[layer |-> l, value |-> pushed + 1, targets |-> Targets]}
    BY <1>4 DEF PushLayer, Record, envoys, TypeOK
  <2>2. \A n \in Node, c \in Conn : streams[n] = c => c \in Targets
    BY <1>0 DEF Targets, None
  <2>3. \A c \in Targets : \E p \in pushes' : p.layer = l /\ c \in p.targets
    <3> DEFINE p == [layer |-> l, value |-> pushed + 1, targets |-> Targets]
    <3>1. Targets # {} => p \in pushes'
      BY <2>1
    <3>2. p.layer = l /\ p.targets = Targets
      OBVIOUS
    <3> QED BY <3>1, <3>2
  <2>4. \A n \in Node, c \in Conn :
            Serving(n, c) /\ streams[n] = c /\ c \notin overlap =>
                \A k \in Layer : current[k] = 0 \/ held[n][k] = current[k]
    BY <2>1 DEF HoldsCurrent
  <2> QED BY <2>1, <2>2, <2>3, <2>4 DEF HoldsCurrent, Serving
<1>5. ASSUME NEW p \in pushes, NEW c \in p.targets, PushSend(p, c) PROVE HoldsCurrent'
  <2>1. UNCHANGED <<streams, current, handler, link, overlap>> /\ pushes' = Left(p, c)
    BY <1>5 DEF PushSend
  <2>2. p \in Push /\ p.layer \in Layer /\ c \in Conn /\ p.value = current[p.layer] /\ pushes = {p}
    BY DEF TypeOK, Push, PushesCurrent
  <2>3. \A n \in Node, k \in Layer :
            held'[n][k] = IF link[n] = c /\ k = p.layer THEN current[k] ELSE held[n][k]
    BY <1>5, <2>2, SendEffect DEF PushSend
  <2>4. \A d \in p.targets \ {c} : \E q \in pushes' : q.layer = p.layer /\ d \in q.targets
    <3> DEFINE rest == [p EXCEPT !.targets = @ \ {c}]
    <3>1. p.targets # {c} => rest \in pushes'
      BY <2>1 DEF Left
    <3>2. rest.layer = p.layer /\ rest.targets = p.targets \ {c}
      BY <2>2 DEF Push
    <3> HIDE DEF rest
    <3> QED BY <3>1, <3>2
  <2>5. ASSUME NEW n \in Node, NEW d \in Conn, Serving(n, d), streams[n] = d, d \notin overlap,
               NEW k \in Layer
        PROVE  \/ current[k] = 0 \/ held'[n][k] = current[k]
               \/ \E q \in pushes' : q.layer = k /\ d \in q.targets
    <3>1. \/ current[k] = 0 \/ held[n][k] = current[k]
          \/ p.layer = k /\ d \in p.targets
      BY <2>2, <2>5 DEF HoldsCurrent
    <3> QED BY <2>3, <2>4, <2>5, <3>1 DEF Serving
  <2> QED BY <2>1, <2>5 DEF HoldsCurrent, Serving
<1>6. ASSUME NEW n \in Node, Connect(n) PROVE HoldsCurrent'
  <2>1. UNCHANGED <<streams, current, pushes, held, overlap>>
    BY <1>6 DEF Connect, server
  <2>2. PICK c \in Conn : /\ handler'[c].phase = "connecting"
                          /\ \A d \in Conn \ {c} : handler'[d] = handler[d]
                          /\ link' = [link EXCEPT ![n] = c]
    BY <1>6, ConnectEffect
  <2> QED BY <1>0, <2>1, <2>2 DEF HoldsCurrent, Serving
<1>7. ASSUME NEW n \in Node,
             EnvoyRestarts(n) \/ \E seen \in {"silent", "closed"} : Break(n, seen)
      PROVE  HoldsCurrent'
  <2>1. /\ UNCHANGED <<streams, current, pushes, handler, overlap>>
        /\ link' = [link EXCEPT ![n] = None]
    BY <1>7 DEF EnvoyRestarts, Break, server
  <2>2. \A m \in Node \ {n} : held'[m] = held[m]
    BY <1>7 DEF EnvoyRestarts, Break, TypeOK
  <2> QED BY <1>0, <2>1, <2>2 DEF HoldsCurrent, Serving, None
<1>8. CASE ServerRestarts
  BY <1>0, <1>8 DEF HoldsCurrent, ServerRestarts, Serving
<1>9. CASE UNCHANGED <<streams, current, pushes, handler, link, held, overlap>>
  BY <1>9 DEF HoldsCurrent, Serving
<1> QED
  BY <1>1, <1>2, <1>3, <1>4, <1>5, <1>6, <1>7, <1>8, <1>9
  DEF Next, Handle, KeepaliveExpires, server, envoys, vars

-----------------------------------------------------------------------------
RtdsInv ==
    /\ TypeOK
    /\ StreamsOwned
    /\ LinksOpen
    /\ PushesCurrent
    /\ NothingNewer
    /\ ReplayFresh
    /\ HoldsCurrent

(* The server starts without streams, values and pushes. *)
LEMMA InitRtdsInv == Init => RtdsInv
<1> SUFFICES ASSUME Init PROVE RtdsInv
  OBVIOUS
<1>1. TypeOK
  BY InitTyped
<1>2. StreamsOwned /\ LinksOpen /\ PushesCurrent
  BY DEF Init, StreamsOwned, LinksOpen, PushesCurrent
<1>3. \A c \in Conn : handler[c].phase = "unused"
  BY DEF Init, Unused
<1>4. pushed = 0 /\ \A l \in Layer : current[l] = 0 /\ \A n \in Node : held[n][l] = 0
  BY DEF Init, NoValues
<1>5. NothingNewer
  BY <1>3, <1>4 DEF NothingNewer
<1>6. ReplayFresh
  BY <1>3 DEF ReplayFresh
<1>7. HoldsCurrent
  BY <1>4 DEF HoldsCurrent
<1> QED BY <1>1, <1>2, <1>5, <1>6, <1>7 DEF RtdsInv

(* The invariant is inductive. *)
LEMMA NextRtdsInv == RtdsInv /\ [Next]_vars => RtdsInv'
BY NextTyped, NextStreamsOwned, NextLinksOpen, NextPushesCurrent, NextNothingNewer,
   NextReplayFresh, NextHoldsCurrent DEF RtdsInv

(* The invariant holds in every state. *)
LEMMA RtdsInvHolds == Spec => []RtdsInv
BY InitRtdsInv, NextRtdsInv, PTL DEF Spec

(* Every entry of Server.streams has a handler that has not returned, so   *)
(* no entry of a dead connection stays behind, although a handler that     *)
(* ends drops the entry of its node id without a look at whose it is.      *)
THEOREM NoDeadStreams == Spec => []DeadStreamsLeave
<1>1. RtdsInv => DeadStreamsLeave
  BY DEF RtdsInv, StreamsOwned, DeadStreamsLeave, Live
<1> QED BY <1>1, RtdsInvHolds, PTL

(* An Envoy that is served by its registered stream holds the current      *)
(* values, or the push that brings them is on its way, unless a push has   *)
(* overtaken its replay: registering and copying under one lock leaves no  *)
(* window between a replay and the pushes.                                 *)
THEOREM EnvoysHoldCurrent == Spec => []HoldsCurrent
<1>1. RtdsInv => HoldsCurrent
  BY DEF RtdsInv
<1> QED BY <1>1, RtdsInvHolds, PTL

(* A step makes an Envoy go back to an earlier push only through a replay  *)
(* a push has overtaken.                                                   *)
LEMMA StepNoRollback ==
    ASSUME RtdsInv, [Next]_vars, NEW n \in Node, NEW l \in Layer,
           held'[n][l] \in 1..(held[n][l] - 1)
    PROVE  link[n] \in overlap
<1>0. TypeOK /\ LinksOpen /\ PushesCurrent /\ NothingNewer /\ ReplayFresh
  BY DEF RtdsInv
<1>1. held[n][l] \in Nat /\ held'[n][l] \in Nat /\ 0 < held'[n][l] /\ held'[n][l] < held[n][l]
  BY <1>0, ValuesTyped
<1>2. ASSUME NEW c \in Conn, NEW k \in Layer, Replay(c, k) PROVE link[n] \in overlap
  <2>1. handler[c].phase = "replay" /\ k \in handler[c].todo
    BY <1>2 DEF Replay
  <2>2. held'[n][l] = IF link[n] = c /\ l = k THEN handler[c].snap[k] ELSE held[n][l]
    BY <1>0, <1>2, SendEffect DEF Replay
  <2>3. link[n] = c /\ l = k /\ held'[n][l] = handler[c].snap[l]
    BY <1>1, <2>2
  <2>4. handler[c].snap[l] \in Nat
    BY <1>0, ValuesTyped
  <2>5. c \notin overlap => held[n][l] <= handler[c].snap[l]
    BY <1>0, <2>1, <2>3 DEF ReplayFresh
  <2> QED BY <1>1, <2>3, <2>4, <2>5
<1>3. ASSUME NEW p \in pushes, NEW c \in p.targets, PushSend(p, c) PROVE FALSE
  <2>1. p.layer \in Layer /\ c \in Conn /\ p.value = current[p.layer]
    BY <1>0 DEF TypeOK, Push, PushesCurrent
  <2>2. held'[n][l] = IF link[n] = c /\ l = p.layer THEN p.value ELSE held[n][l]
    BY <1>0, <1>3, <2>1, SendEffect DEF PushSend
  <2>3. held'[n][l] = current[l]
    BY <1>1, <2>1, <2>2
  <2>4. current[l] \in Nat /\ (current[l] # 0 => held[n][l] <= current[l])
    BY <1>0, ValuesTyped DEF NothingNewer
  <2> QED BY <1>1, <2>3, <2>4
<1>4. ASSUME NEW m \in Node, EnvoyRestarts(m) PROVE FALSE
  <2>1. held'[n][l] = held[n][l] \/ held'[n][l] = 0
    BY <1>0, <1>4 DEF EnvoyRestarts, NoValues, TypeOK
  <2> QED BY <1>1, <2>1
<1>5. CASE UNCHANGED held
  BY <1>1, <1>5
<1> QED
  BY <1>2, <1>3, <1>4, <1>5
  DEF Next, Handle, Register, Registered, RegisterFails, ReplayFails, Deregister, KeepaliveExpires,
      PushLayer, Record, Connect, Break, ServerRestarts, envoys, vars

(* No Envoy goes back to values it has left behind, in any order of        *)
(* replays, pushes, breaks and restarts, unless a push has overtaken its   *)
(* replay: PushLayer waits for its sends, so pushes do not cross.          *)
THEOREM EnvoysDoNotRollBack == Spec => NoRollback
<1> DEFINE Step == \A n \in Node, l \in Layer :
                      held'[n][l] \in 1..(held[n][l] - 1) => link[n] \in overlap
<1>1. RtdsInv /\ [Next]_vars => [Step]_vars
  BY StepNoRollback
<1> QED BY <1>1, RtdsInvHolds, PTL DEF Spec, NoRollback
=============================================================================
