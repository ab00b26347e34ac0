-------------------------------- MODULE Gateway --------------------------------
(***************************************************************************)
(* Live telemetry from the harness to an operator's console: display_loop  *)
(* of spatial_hardware_harness.py puts frames into a bounded queue, the    *)
(* gateway (dashboard_api.py) drains it and broadcasts the freshest frame  *)
(* to the clients of telemetry_dispatcher.py, one handler and one send     *)
(* loop serve each WebSocket, and LiveTelemetryClient (src/frontend/app.py)*)
(* keeps the last frame it has received and reconnects when it must.       *)
(*                                                                         *)
(* The gateway's coroutines share one thread: a step runs from one await   *)
(* to the next.  A frame is named by the verdict it carries, and verdicts  *)
(* are numbered in the order the harness reached them; /stream frames have *)
(* no threat_state, so to the client queues all of them are routine.       *)
(* Connections are numbered; an identifier (host and port of the peer) may *)
(* come back on the next connection.                                       *)
(***************************************************************************)
EXTENDS ClientQueue

CONSTANTS
  PipeCapacity,  \* maxsize of telemetry_queue
  WireCapacity,  \* bound: frames sent and not yet received
  LastVerdict,   \* bound: how often the verdict changes
  MaxConns,      \* bound: how often the console connects
  MaxLosses,     \* bound: how often the network drops a connection
  MaxReuses      \* bound: how often an identifier comes back

ASSUME PipeCapacityAssumption == PipeCapacity \in Nat \ {0}
ASSUME WireCapacityAssumption == WireCapacity \in Nat \ {0}
ASSUME BoundsAssumption ==
  /\ LastVerdict \in Nat
  /\ MaxConns \in Nat
  /\ MaxLosses \in Nat
  /\ MaxReuses \in Nat

VARIABLES
  verdict,   \* last_verdict of the harness
  pipe,      \* telemetry_queue
  pending,   \* payload of broadcast_telemetry_loop, or none
  registry,  \* dispatcher.clients: identifier to the connection it was made for, or 0
  box,       \* each connection's PriorityClientQueue
  handler,   \* where telemetry_stream is for each connection, and its client_id
  sender,    \* where its send_loop is, the queue it has taken and its payload
  alive,     \* whether the connection works
  wire,      \* the frames on their way to the console
  client,    \* LiveTelemetryClient
  losses     \* how often the network has dropped a connection

server == <<registry, box, handler, sender>>
vars == <<verdict, pipe, pending, registry, box, handler, sender, alive, wire, client, losses>>

Conns == 1 .. MaxConns
None == -1
Frames == [critical : {FALSE}, verdict : 0 .. LastVerdict]
FrameOf(v) == [critical |-> FALSE, verdict |-> v]

Init ==
  /\ verdict = 0
  /\ pipe = <<>>
  /\ pending = None
  /\ registry = [i \in Conns |-> 0]
  /\ box = [c \in Conns |-> EmptyBox]
  /\ handler = [c \in Conns |-> [at |-> "none", id |-> c]]
  /\ sender = [c \in Conns |-> [at |-> "none", box |-> 0, payload |-> None]]
  /\ alive = [c \in Conns |-> FALSE]
  /\ wire = [c \in Conns |-> <<>>]
  /\ client = [at |-> "away", conn |-> 0, latest |-> None, fresh |-> FALSE,
               connected |-> FALSE, ever |-> FALSE]
  /\ losses = 0

-----------------------------------------------------------------------------
(***************************************************************************)
(* The harness and the broadcaster.                                        *)
(***************************************************************************)
Decide ==
  /\ verdict < LastVerdict
  /\ verdict' = verdict + 1
  /\ UNCHANGED <<pipe, pending, server, alive, wire, client, losses>>

\* A slip: a full queue is not relieved of its oldest frame.
PublishAnyway ==
  /\ pipe' = Append(pipe, verdict)
  /\ UNCHANGED <<verdict, pending, server, alive, wire, client, losses>>

\* One turn of display_loop: the oldest frame makes room for the new one.
Publish ==
  /\ pipe' = Append(IF Len(pipe) = PipeCapacity THEN Tail(pipe) ELSE pipe, verdict)
  /\ UNCHANGED <<verdict, pending, server, alive, wire, client, losses>>

\* The queue is emptied and its last frame kept.
Drain ==
  /\ pending = None
  /\ pipe # <<>>
  /\ pending' = Last(pipe)
  /\ pipe' = <<>>
  /\ UNCHANGED <<verdict, server, alive, wire, client, losses>>

Broadcast ==
  /\ pending # None
  /\ box' = [c \in Conns |->
               IF c \in Range(registry)
                 THEN [Push(box[c], FrameOf(pending)) EXCEPT !.drops = 0, !.criticalDrops = 0]
                 ELSE box[c]]
  /\ pending' = None
  /\ UNCHANGED <<verdict, pipe, registry, handler, sender, alive, wire, client, losses>>

-----------------------------------------------------------------------------
(***************************************************************************)
(* telemetry_stream.                                                       *)
(***************************************************************************)
HandlerGoes(c, from, to) ==
  /\ handler[c].at = from
  /\ handler' = [handler EXCEPT ![c].at = to]
  /\ UNCHANGED <<verdict, pipe, pending, alive, wire, client, losses>>

\* register_client, and the task of the send loop.
Register(c) ==
  /\ HandlerGoes(c, "accepted", "open")
  /\ registry' = [registry EXCEPT ![handler[c].id] = c]
  /\ box' = [box EXCEPT ![c] = EmptyBox]
  /\ sender' = [sender EXCEPT ![c].at = "start"]

\* A slip: the handler of a connection whose send loop has ended just returns.
DisconnectWithout(c) ==
  /\ ~alive[c]
  /\ HandlerGoes(c, "open", IF sender[c].at = "ended" THEN "gone" ELSE "closing")
  /\ sender' = [sender EXCEPT ![c].at = "ended"]
  /\ UNCHANGED <<registry, box>>

\* receive_text raises, and the send loop is cancelled.
Disconnect(c) ==
  /\ ~alive[c]
  /\ HandlerGoes(c, "open", "closing")
  /\ sender' = [sender EXCEPT ![c].at = "ended"]
  /\ UNCHANGED <<registry, box>>

\* unregister_client goes by the identifier, whoever holds it by now.
Unregister(c) ==
  /\ HandlerGoes(c, "closing", "gone")
  /\ registry' = [registry EXCEPT ![handler[c].id] = 0]
  /\ UNCHANGED <<box, sender>>

SenderGoes(c, from) ==
  /\ sender[c].at = from
  /\ UNCHANGED <<verdict, pipe, pending, registry, handler, alive, client, losses>>

\* The loop looks its queue up by the identifier, and returns when there is none.
StartSending(c) ==
  /\ SenderGoes(c, "start")
  /\ LET q == registry[handler[c].id] IN
       sender' = [sender EXCEPT ![c].at = IF q = 0 THEN "ended" ELSE "poll", ![c].box = q]
  /\ UNCHANGED <<box, wire>>

PopFrame(c) ==
  LET q == sender[c].box IN
    /\ SenderGoes(c, "poll")
    /\ box[q].queue # <<>>
    /\ sender' = [sender EXCEPT ![c].at = "send", ![c].payload = Head(box[q].queue).verdict]
    /\ box' = [box EXCEPT ![q] = Popped(@)]
    /\ UNCHANGED wire

Send(c) ==
  /\ SenderGoes(c, "send")
  /\ alive[c]
  /\ Len(wire[c]) < WireCapacity
  /\ wire' = [wire EXCEPT ![c] = Append(@, sender[c].payload)]
  /\ sender' = [sender EXCEPT ![c].at = "poll", ![c].payload = None]
  /\ UNCHANGED box

\* A frame sent into a broken connection is lost, with or without an exception.
LoseFrame(c) ==
  /\ SenderGoes(c, "send")
  /\ ~alive[c]
  /\ \E next \in {"poll", "ended"} :
       sender' = [sender EXCEPT ![c].at = next, ![c].payload = None]
  /\ UNCHANGED <<box, wire>>

-----------------------------------------------------------------------------
(***************************************************************************)
(* LiveTelemetryClient._consume_forever.                                   *)
(***************************************************************************)
\* The identifier is new, or once in a while that of the connection before.
Identifiers(c) ==
  {c} \cup (IF c > 1 /\ Cardinality({d \in Conns : handler[d].id # d}) < MaxReuses
              THEN {handler[c - 1].id} ELSE {})

Connect ==
  LET c == client.conn + 1 IN
    /\ client.at = "away"
    /\ c \in Conns
    /\ \E i \in Identifiers(c) : handler' = [handler EXCEPT ![c] = [at |-> "accepted", id |-> i]]
    /\ alive' = [alive EXCEPT ![c] = TRUE]
    /\ client' = [client EXCEPT !.at = "open", !.conn = c, !.connected = TRUE, !.ever = TRUE]
    /\ UNCHANGED <<verdict, pipe, pending, registry, box, sender, wire, losses>>

Receive ==
  LET c == client.conn IN
    /\ client.at = "open"
    /\ wire[c] # <<>>
    /\ client' = [client EXCEPT !.latest = Head(wire[c]), !.fresh = TRUE]
    /\ wire' = [wire EXCEPT ![c] = Tail(@)]
    /\ UNCHANGED <<verdict, pipe, pending, server, alive, losses>>

\* The socket raises, or recv gives up; what is still on the wire is lost.
Leave ==
  /\ client.at = "open"
  /\ client' = [client EXCEPT !.at = "away", !.connected = FALSE]
  /\ alive' = [alive EXCEPT ![client.conn] = FALSE]
  /\ wire' = [wire EXCEPT ![client.conn] = <<>>]
  /\ UNCHANGED <<verdict, pipe, pending, server, losses>>

FindBroken == client.at = "open" /\ ~alive[client.conn] /\ Leave

\* Nothing is on its way to this connection and nothing will ever be.
Starved(c) ==
  /\ handler[c].at = "open"
  /\ wire[c] = <<>>
  /\ \/ sender[c].at = "ended"
     \/ /\ sender[c].at = "poll"
        /\ box[sender[c].box].queue = <<>>
        /\ sender[c].box \notin Range(registry)

\* A slip: the client waits for its next frame without a limit.
WaitForEver == FALSE /\ Leave

\* Frames come ten times in a second, so in five only a starved client gets none.
TimeOut == client.at = "open" /\ alive[client.conn] /\ Starved(client.conn) /\ Leave

\* Likewise the two seconds after which the console takes a frame to be stale: they
\* do not go by while a connection that is served works.
GrowStale ==
  /\ client.fresh
  /\ \/ client.at = "away"
     \/ ~alive[client.conn]
     \/ sender[client.conn].at \in {"none", "start"}
     \/ Starved(client.conn)
  /\ client' = [client EXCEPT !.fresh = FALSE]
  /\ UNCHANGED <<verdict, pipe, pending, server, alive, wire, losses>>

\* The network drops a connection; neither end has noticed yet.
Break(c) ==
  /\ alive[c]
  /\ losses < MaxLosses
  /\ losses' = losses + 1
  /\ alive' = [alive EXCEPT ![c] = FALSE]
  /\ UNCHANGED <<verdict, pipe, pending, server, wire, client>>

\* backend_mode.
Mode ==
  IF client.connected /\ client.latest # None /\ client.fresh THEN "LIVE BACKEND"
  ELSE IF client.ever THEN "DISCONNECTED"
  ELSE "LOCAL SIMULATION"

-----------------------------------------------------------------------------
Serve(c) ==
  \/ Register(c)
  \/ Disconnect(c)
  \/ Unregister(c)

SendLoop(c) ==
  \/ StartSending(c)
  \/ PopFrame(c)
  \/ Send(c)
  \/ LoseFrame(c)

Consume == Connect \/ Receive \/ FindBroken \/ TimeOut

Next ==
  \/ Decide
  \/ Publish
  \/ Drain
  \/ Broadcast
  \/ \E c \in Conns : Serve(c) \/ SendLoop(c) \/ Break(c)
  \/ Consume
  \/ GrowStale

Spec == Init /\ [][Next]_vars

\* The display loop, the event loop's coroutines and the console's thread go on;
\* nothing makes a verdict change or a connection break.
FairSpec ==
  /\ Spec
  /\ WF_vars(Publish)
  /\ WF_vars(Drain)
  /\ WF_vars(Broadcast)
  /\ \A c \in Conns : WF_vars(Serve(c)) /\ WF_vars(SendLoop(c))
  /\ WF_vars(Consume)

-----------------------------------------------------------------------------
\* The queues between harness, gateway and console stay within their capacity.
TypeOK ==
  /\ verdict \in 0 .. LastVerdict
  /\ pipe \in Seq(0 .. LastVerdict) /\ Len(pipe) <= PipeCapacity
  /\ pending \in {None} \cup 0 .. LastVerdict
  /\ registry \in [Conns -> 0 .. MaxConns]
  /\ \A c \in Conns :
       /\ box[c].queue \in Seq(Frames) /\ Len(box[c].queue) <= Capacity
       /\ box[c].drops = 0 /\ box[c].criticalDrops = 0
       /\ wire[c] \in Seq(0 .. LastVerdict) /\ Len(wire[c]) <= WireCapacity
  /\ handler \in [Conns -> [at : {"none", "accepted", "open", "closing", "gone"}, id : Conns]]
  /\ sender \in [Conns -> [at : {"none", "start", "poll", "send", "ended"},
                           box : 0 .. MaxConns, payload : {None} \cup 0 .. LastVerdict]]
  /\ alive \in [Conns -> BOOLEAN]
  /\ client \in [at : {"away", "open"}, conn : 0 .. MaxConns,
                 latest : {None} \cup 0 .. LastVerdict,
                 fresh : BOOLEAN, connected : BOOLEAN, ever : BOOLEAN]
  /\ losses \in 0 .. MaxLosses

\* A queue that is registered has a handler that will still unregister it: however
\* identifiers come back, no queue is left behind for broadcasts to fill for ever.
NoAbandonedQueue ==
  \A i \in Conns : registry[i] # 0 => handler[registry[i]].at \in {"open", "closing"}

\* The console never goes back to an earlier verdict, across reconnects too.
InOrder == [][client'.latest >= client.latest]_client

\* When the verdict no longer changes the console ends up showing it, as live data
\* and for good, although a connection may break and a connection that comes back
\* under an identifier in use loses its queue to its predecessor's handler.
EventuallyLive ==
  \A v \in 0 .. LastVerdict :
    <>[](verdict = v) => <>[](Mode = "LIVE BACKEND" /\ client.latest = v)
=============================================================================
