------------------------------ MODULE EventHub ------------------------------
(***************************************************************************)
(* The way of an event to the browsers: EventBus.publish calls the         *)
(* subscribers of its type, among them the one ApiGateway.start registers, *)
(* which broadcasts over the WebSocketHub; the hub sends a frame through   *)
(* each WebSocketConnection.  Publishers are threads of their own; other   *)
(* threads subscribe, connect, disconnect, read and close meanwhile.  Both *)
(* lists are copy-on-write: a loop runs over the elements of its start.    *)
(*                                                                         *)
(* One type of event; each publisher publishes one event, named after it.  *)
(***************************************************************************)
EXTENDS Naturals, Sequences

CONSTANTS
    Publishers,   \* the threads that publish
    Connections,  \* WebSocket connections
    Handlers,     \* subscribers other than the gateway's
    Hub,          \* the gateway's subscriber
    None

ASSUME HubAssumption ==
    /\ Hub \notin Handlers
    /\ None \notin Publishers \cup Connections

VARIABLES
    subscribers,  \* EventBus.subscribers of the type
    connections,  \* WebSocketHub.connections
    pub,          \* where each publisher is
    toCall,       \* the subscribers its loop still has to call
    toSend,       \* the connections its broadcast still has to send to
    target,       \* the connection it is sending to
    owed,         \* history: the connections its event is meant for
    met,          \* the connections that were given to onConnect
    open,         \* WebSocketConnection.open
    socket,       \* is the socket open?
    peer,         \* is the browser at the other end?
    monitor,      \* who is in synchronized (out): a publisher or None
    closing,      \* where close() is
    wire          \* what the browser has received: <<part, publisher>>

bus == <<subscribers, pub, toCall>>
loop == <<toSend, target, owed>>
connection == <<open, socket, peer, closing>>
vars == <<bus, loop, connections, met, connection, monitor, wire>>

TypeOK ==
    /\ subscribers \subseteq Handlers \cup {Hub}
    /\ connections \subseteq met
    /\ pub \in [Publishers -> {"idle", "calls", "hub", "send", "payload", "done"}]
    /\ toCall \in [Publishers -> SUBSET (Handlers \cup {Hub})]
    /\ toSend \in [Publishers -> SUBSET Connections]
    /\ target \in [Publishers -> Connections \cup {None}]
    /\ owed \in [Publishers -> SUBSET Connections]
    /\ met \subseteq Connections
    /\ open \in [Connections -> BOOLEAN]
    /\ socket \in [Connections -> BOOLEAN]
    /\ peer \in [Connections -> BOOLEAN]
    /\ monitor \in [Connections -> Publishers \cup {None}]
    /\ closing \in [Connections -> {"no", "frame", "socket", "done"}]
    /\ \A c \in Connections : \A i \in 1 .. Len(wire[c]) :
          wire[c][i] \in {"header", "payload"} \X Publishers \cup {<<"close">>}

(* The runtime has been started, with the gateway's subscription or (a     *)
(* gateway without a runtime context) not yet with it.                     *)
Init ==
    /\ subscribers \in SUBSET {Hub}
    /\ connections = {}
    /\ pub = [p \in Publishers |-> "idle"]
    /\ toCall = [p \in Publishers |-> {}]
    /\ toSend = [p \in Publishers |-> {}]
    /\ target = [p \in Publishers |-> None]
    /\ owed = [p \in Publishers |-> {}]
    /\ met = {}
    /\ open = [c \in Connections |-> TRUE]
    /\ socket = [c \in Connections |-> TRUE]
    /\ peer = [c \in Connections |-> TRUE]
    /\ monitor = [c \in Connections |-> None]
    /\ closing = [c \in Connections |-> "no"]
    /\ wire = [c \in Connections |-> << >>]

Go(p, from, to) == pub[p] = from /\ pub' = [pub EXCEPT ![p] = to]

\* What is written reaches the browser if it is still there.
Transmit(c, part) ==
    wire' = [wire EXCEPT ![c] = IF peer[c] THEN Append(@, part) ELSE @]

-----------------------------------------------------------------------------
(* EventBus                                                                *)
Subscribe(h) ==
    /\ h \notin subscribers
    /\ subscribers' = subscribers \cup {h}
    /\ UNCHANGED <<pub, toCall, loop, connections, met, connection, monitor, wire>>

\* The gateway never unsubscribes.
Unsubscribe(h) ==
    /\ h \in subscribers
    /\ subscribers' = subscribers \ {h}
    /\ UNCHANGED <<pub, toCall, loop, connections, met, connection, monitor, wire>>

Clear ==
    /\ subscribers' = {}
    /\ UNCHANGED <<pub, toCall, loop, connections, met, connection, monitor, wire>>

\* publish, and publishAsync in a thread of its own
Publish(p) ==
    /\ Go(p, "idle", "calls")
    /\ toCall' = [toCall EXCEPT ![p] = subscribers]
    /\ owed' = [owed EXCEPT ![p] = IF Hub \in subscribers THEN connections ELSE {}]
    /\ UNCHANGED <<subscribers, toSend, target, connections, met, connection,
                   monitor, wire>>

\* Another subscriber returns, or raises what the loop catches.
CallHandler(p, h) ==
    /\ Go(p, "calls", "calls")
    /\ h \in toCall[p] \ {Hub}
    /\ toCall' = [toCall EXCEPT ![p] = @ \ {h}]
    /\ UNCHANGED <<subscribers, loop, connections, met, connection, monitor, wire>>

PublishEnds(p) ==
    /\ Go(p, "calls", "done")
    /\ toCall[p] = {}
    /\ UNCHANGED <<subscribers, toCall, loop, connections, met, connection,
                   monitor, wire>>

-----------------------------------------------------------------------------
(* WebSocketHub.broadcast                                                  *)
Broadcast(p) ==
    /\ Go(p, "calls", "hub")
    /\ Hub \in toCall[p]
    /\ toCall' = [toCall EXCEPT ![p] = @ \ {Hub}]
    /\ toSend' = [toSend EXCEPT ![p] = connections]
    /\ UNCHANGED <<subscribers, target, owed, connections, met, connection, monitor, wire>>

\* send: a connection that is not open is passed over.
CheckOpen(p, c) ==
    /\ Go(p, "hub", IF open[c] THEN "send" ELSE "hub")
    /\ c \in toSend[p]
    /\ toSend' = [toSend EXCEPT ![p] = @ \ {c}]
    /\ target' = [target EXCEPT ![p] = IF open[c] THEN c ELSE None]
    /\ UNCHANGED <<subscribers, toCall, owed, connections, met, connection,
                   monitor, wire>>

\* Seeded fault: the writes of a frame are not synchronized.
WriteHeader_Unsynchronized(p) ==
    LET c == target[p]
    IN  /\ Go(p, "send", "payload")
        /\ socket[c]
        /\ monitor' = [monitor EXCEPT ![c] = p]
        /\ Transmit(c, <<"header", p>>)
        /\ UNCHANGED <<subscribers, toCall, loop, connections, met, connection>>

\* synchronized (out): the header ...
WriteHeader(p) ==
    LET c == target[p]
    IN  /\ Go(p, "send", "payload")
        /\ monitor[c] = None
        /\ socket[c]
        /\ monitor' = [monitor EXCEPT ![c] = p]
        /\ Transmit(c, <<"header", p>>)
        /\ UNCHANGED <<subscribers, toCall, loop, connections, met, connection>>

\* ... and the payload.
WritePayload(p) ==
    LET c == target[p]
    IN  /\ Go(p, "payload", "hub")
        /\ socket[c]
        /\ monitor' = [monitor EXCEPT ![c] = None]
        /\ target' = [target EXCEPT ![p] = None]
        /\ Transmit(c, <<"payload", p>>)
        /\ UNCHANGED <<subscribers, toCall, toSend, owed, connections, met,
                       connection>>

\* Seeded fault: the exception leaves the loop of broadcast.
SendFails_Aborts(p) ==
    LET c == target[p]
    IN  /\ \/ Go(p, "send", "hub") /\ monitor[c] = None
           \/ Go(p, "payload", "hub")
        /\ ~socket[c] \/ ~peer[c]
        /\ monitor' = [monitor EXCEPT ![c] = None]
        /\ target' = [target EXCEPT ![p] = None]
        /\ toSend' = [toSend EXCEPT ![p] = {}]
        /\ connections' = connections \ {c}
        /\ UNCHANGED <<subscribers, toCall, owed, met, connection, wire>>

(* A write raises: the hub forgets the connection and goes on.             *)
SendFails(p) ==
    LET c == target[p]
    IN  /\ \/ Go(p, "send", "hub") /\ monitor[c] = None
           \/ Go(p, "payload", "hub")
        /\ ~socket[c] \/ ~peer[c]
        /\ monitor' = [monitor EXCEPT ![c] = None]
        /\ target' = [target EXCEPT ![p] = None]
        /\ connections' = connections \ {c}
        /\ UNCHANGED <<subscribers, toCall, toSend, owed, met, connection, wire>>

BroadcastEnds(p) ==
    /\ Go(p, "hub", "calls")
    /\ toSend[p] = {}
    /\ UNCHANGED <<subscribers, toCall, loop, connections, met, connection,
                   monitor, wire>>

-----------------------------------------------------------------------------
OnConnect(c) ==
    /\ c \notin met
    /\ met' = met \cup {c}
    /\ connections' = connections \cup {c}
    /\ UNCHANGED <<bus, loop, connection, monitor, wire>>

OnDisconnect(c) ==
    /\ c \in connections
    /\ connections' = connections \ {c}
    /\ UNCHANGED <<bus, loop, met, connection, monitor, wire>>

(* receive reads the end of the stream.                                    *)
ReceiveEnd(c) ==
    /\ c \in met
    /\ open[c] /\ ~peer[c]
    /\ open' = [open EXCEPT ![c] = FALSE]
    /\ UNCHANGED <<bus, loop, connections, met, socket, peer, closing, monitor, wire>>

\* close(), called by receive for a close frame or by any other thread
CloseFlag(c) ==
    /\ c \in met
    /\ closing[c] = "no"
    /\ closing' = [closing EXCEPT ![c] = "frame"]
    /\ open' = [open EXCEPT ![c] = FALSE]
    /\ UNCHANGED <<bus, loop, connections, met, socket, peer, monitor, wire>>

CloseFrame(c) ==
    /\ closing[c] = "frame"
    /\ monitor[c] = None
    /\ closing' = [closing EXCEPT ![c] = "socket"]
    /\ Transmit(c, <<"close">>)
    /\ UNCHANGED <<bus, loop, connections, met, open, socket, peer, monitor>>

\* The write raises, and the catch is behind socket.close().
CloseFails(c) ==
    /\ closing[c] = "frame"
    /\ monitor[c] = None
    /\ ~peer[c]
    /\ closing' = [closing EXCEPT ![c] = "done"]
    /\ UNCHANGED <<bus, loop, connections, met, open, socket, peer, monitor, wire>>

CloseSocket(c) ==
    /\ closing[c] = "socket"
    /\ closing' = [closing EXCEPT ![c] = "done"]
    /\ socket' = [socket EXCEPT ![c] = FALSE]
    /\ UNCHANGED <<bus, loop, connections, met, open, peer, monitor, wire>>

\* External: the browser goes away.
PeerGoes(c) ==
    /\ c \in met
    /\ peer[c]
    /\ peer' = [peer EXCEPT ![c] = FALSE]
    /\ UNCHANGED <<bus, loop, connections, met, open, socket, closing, monitor, wire>>

-----------------------------------------------------------------------------
PublishStep(p) ==
    \/ Publish(p) \/ PublishEnds(p) \/ Broadcast(p) \/ WriteHeader(p)
    \/ WritePayload(p) \/ SendFails(p) \/ BroadcastEnds(p)
    \/ \E h \in Handlers : CallHandler(p, h)
    \/ \E c \in Connections : CheckOpen(p, c)

ConnectionStep(c) ==
    \/ OnConnect(c) \/ OnDisconnect(c) \/ ReceiveEnd(c) \/ CloseFlag(c)
    \/ CloseFrame(c) \/ CloseFails(c) \/ CloseSocket(c) \/ PeerGoes(c)

Next ==
    \/ \E h \in Handlers \cup {Hub} : Subscribe(h)
    \/ \E h \in Handlers : Unsubscribe(h)
    \/ Clear
    \/ \E p \in Publishers : PublishStep(p)
    \/ \E c \in Connections : ConnectionStep(c)

Spec == Init /\ [][Next]_vars

-----------------------------------------------------------------------------
(* A frame is never torn: after its header a browser receives its payload, *)
(* or, if the write failed, nothing more, although any number of           *)
(* broadcasts and a close() write to the same stream.                      *)
FramesAreWhole ==
    \A c \in Connections : \A i \in 1 .. Len(wire[c]) :
        /\ wire[c][i][1] = "header" /\ i < Len(wire[c]) =>
              wire[c][i + 1] = <<"payload", wire[c][i][2]>>
        /\ wire[c][i][1] = "payload" =>
              i > 1 /\ wire[c][i - 1] = <<"header", wire[c][i][2]>>

\* Nothing has happened to the connection.
Steady(c) == c \in connections /\ open[c] /\ socket[c] /\ peer[c]

Copies(p, c) == {i \in 1 .. Len(wire[c]) : wire[c][i] = <<"payload", p>>}

(* A subscriber that raises and a connection that breaks harm nobody else: *)
(* when publish has ended, each connection that was in the hub when it     *)
(* began, and has stayed up, has received the event once, provided the     *)
(* gateway was subscribed; whoever else publishes, connects, disconnects   *)
(* or closes meanwhile.                                                    *)
PublishReachesAll ==
    \A p \in Publishers : pub[p] = "done" =>
        \A c \in owed[p] :
            Steady(c) => \E i \in 1 .. Len(wire[c]) : Copies(p, c) = {i}
=============================================================================
