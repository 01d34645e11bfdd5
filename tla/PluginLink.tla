------------------------------ MODULE PluginLink ------------------------------
(* The WebSocket between the plugin (SocketClient.cs) and the server's      *)
(* group "cad" (socket_manager.py).  SendAsync looks at the state of the    *)
(* socket and either sends or queues; ConnectInternalAsync connects, then   *)
(* flushes the queue, then receives.  What travels when the connection      *)
(* breaks is lost, in both directions.  The server learns of the break      *)
(* later: until then the group lists the dead connection.                   *)
EXTENDS Naturals, Sequences

CONSTANTS
    MaxPending,     \* MaxPendingSends (100)
    None

ASSUME LinkAssumption == MaxPending \in Nat \ {0}

VARIABLES
    phase,          \* ConnectInternalAsync: "down", "flush", "receive"
    pending,        \* _pendingSends
    held,           \* what a sender that saw the socket closed has in hand
    up,             \* on the way to the server
    down,           \* on the way to the plugin
    listed,         \* the group has a connection of the plugin
    lost            \* (history) messages lost on the way or dropped

link == <<phase, pending, held, up, down, listed, lost>>

LinkInit ==
    /\ phase = "receive" /\ listed = TRUE
    /\ pending = <<>> /\ held = None
    /\ up = <<>> /\ down = <<>>
    /\ lost = {}

Open == phase # "down"
Among(q) == {q[i] : i \in DOMAIN q}

------------------------------------------------------------------------------
(* The plugin                                                               *)

\* SendAsync: an open socket takes the message; one that is closed makes the
\* sender go on to EnqueuePending.
Send(m) ==
    /\ held = None
    /\ IF Open THEN up' = Append(up, m) /\ UNCHANGED held
               ELSE held' = m /\ UNCHANGED up
    /\ UNCHANGED <<phase, pending, down, listed, lost>>

\* EnqueuePending: at the limit the oldest goes.
\* (mutant) the queue grows
EnqueuedAll(q, m) == Append(q, m)
Enqueued(q, m) == Append(IF Len(q) >= MaxPending THEN Tail(q) ELSE q, m)
QueueHeld ==
    /\ held # None
    /\ pending' = Enqueued(pending, held)
    /\ lost' = lost \cup (Among(pending) \ Among(pending'))
    /\ held' = None
    /\ UNCHANGED <<phase, up, down, listed>>

Connect ==
    /\ ~Open
    /\ phase' = "flush"
    /\ listed' = TRUE
    /\ UNCHANGED <<pending, held, up, down, lost>>

\* (mutant) a message stays in the queue until the connection is made anew
FlushPeeks ==
    /\ phase = "flush" /\ pending # <<>>
    /\ up' = up \o pending
    /\ phase' = "receive"
    /\ UNCHANGED <<pending, held, down, listed, lost>>

\* FlushPendingAsync: the message is out of the queue before it is sent.
Flush ==
    /\ phase = "flush" /\ pending # <<>>
    /\ up' = Append(up, Head(pending))
    /\ pending' = Tail(pending)
    /\ UNCHANGED <<phase, held, down, listed, lost>>

FlushEnds ==
    /\ phase = "flush" /\ pending = <<>>
    /\ phase' = "receive"
    /\ UNCHANGED <<pending, held, up, down, listed, lost>>

\* ReceiveLoopAsync takes the next message.
Receive ==
    /\ phase = "receive" /\ down # <<>>
    /\ down' = Tail(down)
    /\ UNCHANGED <<phase, pending, held, up, listed, lost>>

Break ==
    /\ Open
    /\ phase' = "down"
    /\ lost' = lost \cup Among(up) \cup Among(down)
    /\ up' = <<>> /\ down' = <<>>
    /\ UNCHANGED <<pending, held, listed>>

------------------------------------------------------------------------------
(* The server                                                               *)

\* send_to_group: a dead connection takes messages until it is noticed.
Reached == listed
Put(q) ==
    /\ IF Reached /\ Open THEN down' = down \o q /\ UNCHANGED lost
                         ELSE lost' = lost \cup Among(q) /\ UNCHANGED down
    /\ UNCHANGED <<phase, pending, held, up, listed>>

\* The endpoint of a dead connection ends, or a send to it fails: disconnect.
Notice ==
    /\ listed /\ ~Open
    /\ listed' = FALSE
    /\ UNCHANGED <<phase, pending, held, up, down, lost>>

==============================================================================
